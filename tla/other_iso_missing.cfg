SPECIFICATION MCSpec
CONSTANTS
  w1 = w1 w2 = w2 v1 = v1 f1 = f1 u1 = u1 u2 = u2 c1 = c1 c2 = c2
  NoWorker = NoWorker NoVm = NoVm NoIso = NoIso NoMedia = NoMedia
  Workers = {w1}
  VMs = {v1}
  Urls = {u1}
  AllowedUrls = {u1}
  Files = {f1}
  FileOf <- MCFileOf
  Isos = {c1, c2}
  IsoFaults = {}
  Devices <- MCDevices
  Hardware <- MCHardware
  BootOrders <- MCBootOrders
  LocalIsos = {}
  Resets = {}
  Targets = {}
  Modes = {}
  AutoEfidisk = TRUE
  Faults = {}
  MaxRequests = 1
PROPERTY ReturnedIsoExists
CHECK_DEADLOCK FALSE
