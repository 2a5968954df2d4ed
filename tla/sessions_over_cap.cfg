SPECIFICATION ServicesSpec
CONSTANTS
  w1 = w1 w2 = w2 t1 = t1 t2 = t2 t3 = t3 a = a b = b k1 = k1 k2 = k2
  Workers = {w1} Users = {a, b} Tokens = {t1, t2, t3}
  NoUser = NoUser ConfiguredUser = ConfiguredUser NoToken = NoToken
  AUTH = "Session"
  SESSION_TTL_SECONDS = 2
  MAX_SESSIONS = 1
  MaxTime = 3
  Handlers = {w1, w2}
  Destinations = {"d1", "d2", "d3"}
  MAX_SUBSCRIPTIONS = 1
  MaxAsked = 4
  Ports = {"p"} Collectors = {k1, k2} NoCollector = NoCollector
  Letters = {"a"} NewLine = "n"
  MAX_LINES = 1
  MAX_LINE_BYTES = 1
  MAX_CHUNK = 2
  MaxHeard = 3
  Loggers = {w1, w2} Flusher = Flusher Main = Main Nobody = Nobody
  batch_size = 2
  MaxRecords = 2
INVARIANT SessionsBounded
SYMMETRY Interchangeable
CHECK_DEADLOCK FALSE
