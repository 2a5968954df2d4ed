------------------------------ MODULE LokiHandler ------------------------------
(***************************************************************************)
(* Log shipping to Grafana Loki: a logging handler that queues the records *)
(* of the daemon's threads, and the thread that pushes what is queued      *)
(* every few seconds.  Two locks: Python's handler lock, held by a logging *)
(* thread during the whole of emit (and by logging.shutdown), and the      *)
(* handler's own _lock around the queue, whose short critical sections are *)
(* one step each here.                                                     *)
(*                                                                         *)
(* Python's logging module is external.  The records that the HTTP library *)
(* itself logs at level DEBUG during a push are left out.                  *)
(***************************************************************************)
EXTENDS Naturals, Sequences, SequencesExt

CONSTANTS
  Loggers,          \* threads that log: the request thread, the serial collectors
  Flusher, Main,    \* the loki-flush thread; the thread that ends the program
  Nobody,
  batch_size,       \* REDFISH_LOKI_BATCH
  MaxRecords        \* bound: how many records are logged

Pushers == Loggers \cup {Flusher, Main}

ASSUME LokiAssumption ==
  /\ Flusher # Main /\ {Flusher, Main} \cap Loggers = {}
  /\ Nobody \notin Pushers
  /\ batch_size \in Nat \ {0} /\ MaxRecords \in Nat

VARIABLES
  queue,       \* _queue
  batch,       \* batch[p]: what thread p took off the queue and is pushing
  handlerLock, \* who holds the lock of logging.Handler
  at,          \* at[p]: where thread p is
  record,      \* record[p]: the record p is logging, and which of its handlings this is
  closed,      \* _stop is set
  logged,      \* how many records have been logged
  pushed       \* history: pushed[o]: the emissions whose push ended in o

lokiVars == <<queue, batch, handlerLock, at, record, closed, logged, pushed>>

\* The handler is attached to the daemon's logger and to the root logger, to which
\* the former propagates: each record is handled twice.
Handlings == {1, 2}
Emissions == (1..MaxRecords) \X Handlings
NoRecord == <<0, 1>>

Outcomes == {"received", "lost"}

\* "idle" is outside the handler, "wait" the flusher between two flushes, "ended"
\* after its loop; "closing" is logging.shutdown between flush and close.
Places == {"idle", "lock", "append", "swap", "push", "wait", "closing", "ended", "killed"}

LokiTypeOK ==
  /\ queue \in Seq(Emissions)
  /\ batch \in [Pushers -> Seq(Emissions)]
  /\ handlerLock \in Pushers \cup {Nobody}
  /\ at \in [Pushers -> Places]
  /\ record \in [Loggers -> Emissions \cup {NoRecord}]
  /\ closed \in BOOLEAN
  /\ logged \in 0..MaxRecords
  /\ pushed \in [Outcomes -> SUBSET Emissions]

LokiInit ==
  /\ queue = <<>>
  /\ batch = [p \in Pushers |-> <<>>]
  /\ handlerLock = Nobody
  /\ at = [p \in Pushers |-> IF p = Flusher THEN "wait" ELSE "idle"]
  /\ record = [t \in Loggers |-> NoRecord]
  /\ closed = FALSE
  /\ logged = 0
  /\ pushed = [o \in Outcomes |-> {}]

-----------------------------------------------------------------------------
GoTo(p, place) == at' = [at EXCEPT ![p] = place]

\* A logger calls logger.info or the like.
Log(t) ==
  /\ at[t] = "idle"
  /\ logged < MaxRecords
  /\ logged' = logged + 1
  /\ record' = [record EXCEPT ![t] = <<logged + 1, 1>>]
  /\ GoTo(t, "lock")
  /\ UNCHANGED <<queue, batch, handlerLock, closed, pushed>>

\* Mutant: the handler has no lock of its own (createLock overridden).
AcquireHandler_NoLock(p) ==
  /\ at[p] = "lock"
  /\ handlerLock' = p
  /\ GoTo(p, IF p = Main THEN "swap" ELSE "append")
  /\ UNCHANGED <<queue, batch, record, closed, logged, pushed>>

\* Handler.handle, and logging.shutdown at the end of the program.
AcquireHandler(p) ==
  /\ at[p] = "lock"
  /\ handlerLock = Nobody
  /\ handlerLock' = p
  /\ GoTo(p, IF p = Main THEN "swap" ELSE "append")
  /\ UNCHANGED <<queue, batch, record, closed, logged, pushed>>

\* Mutant: an exception leaves the handler locked (no finally in handle).
Leave_KeepsLock(p) ==
  /\ GoTo(p, IF p = Flusher THEN "wait" ELSE IF p = Main THEN "closing" ELSE "idle")
  /\ UNCHANGED <<handlerLock, record>>

\* The handler returns. A record's first handling is followed by its second; after
\* shutdown's flush comes close.
Leave(p) ==
  CASE p = Flusher -> /\ GoTo(p, "wait")
                      /\ UNCHANGED <<handlerLock, record>>
    [] p = Main    -> /\ GoTo(p, "closing")
                      /\ UNCHANGED <<handlerLock, record>>
    [] p \in Loggers /\ record[p][2] = 1 ->
                      /\ GoTo(p, "lock")
                      /\ handlerLock' = Nobody
                      /\ record' = [record EXCEPT ![p] = <<@[1], 2>>]
    [] OTHER       -> /\ GoTo(p, "idle")
                      /\ handlerLock' = Nobody
                      /\ record' = [record EXCEPT ![p] = NoRecord]

\* emit: a full queue is flushed at once, by the thread that logs.
Enqueue(t) ==
  /\ at[t] = "append"
  /\ queue' = Append(queue, record[t])
  /\ IF Len(queue') >= batch_size
       THEN GoTo(t, "swap") /\ UNCHANGED <<handlerLock, record>>
       ELSE Leave(t)
  /\ UNCHANGED <<batch, closed, logged, pushed>>

\* Mutant: what is pushed stays in the queue.
Swap_KeepsQueue(p) ==
  /\ at[p] = "swap"
  /\ IF queue = <<>> THEN Leave(p) /\ UNCHANGED batch
                     ELSE /\ batch' = [batch EXCEPT ![p] = queue]
                          /\ GoTo(p, "push")
                          /\ UNCHANGED <<handlerLock, record>>
  /\ UNCHANGED <<queue, closed, logged, pushed>>

\* flush takes all that is queued.
Swap(p) ==
  /\ at[p] = "swap"
  /\ IF queue = <<>> THEN Leave(p) /\ UNCHANGED batch
                     ELSE /\ batch' = [batch EXCEPT ![p] = queue]
                          /\ GoTo(p, "push")
                          /\ UNCHANGED <<handlerLock, record>>
  /\ queue' = <<>>
  /\ UNCHANGED <<closed, logged, pushed>>

\* _push: one POST with a timeout. Whatever comes of it, the batch is dropped.
Push(p) ==
  /\ at[p] = "push"
  /\ \E o \in Outcomes : pushed' = [pushed EXCEPT ![o] = @ \cup ToSet(batch[p])]
  /\ batch' = [batch EXCEPT ![p] = <<>>]
  /\ Leave(p)
  /\ UNCHANGED <<queue, closed, logged>>

\* Mutant: the flusher runs once.
Wake_Once ==
  /\ at[Flusher] = "wait"
  /\ GoTo(Flusher, IF closed \/ logged > 1 THEN "ended" ELSE "swap")
  /\ UNCHANGED <<queue, batch, handlerLock, record, closed, logged, pushed>>

\* _run: the flush interval passes, or _stop is set.
Wake ==
  /\ at[Flusher] = "wait"
  /\ GoTo(Flusher, IF closed THEN "ended" ELSE "swap")
  /\ UNCHANGED <<queue, batch, handlerLock, record, closed, logged, pushed>>

-----------------------------------------------------------------------------
(* The end of the program. *)

\* logging.shutdown: acquire, flush, close, release.
Shutdown ==
  /\ at[Main] = "idle"
  /\ GoTo(Main, "lock")
  /\ UNCHANGED <<queue, batch, handlerLock, record, closed, logged, pushed>>

\* close sets _stop and flushes once more ...
Close ==
  /\ at[Main] = "closing" /\ ~closed
  /\ closed' = TRUE
  /\ GoTo(Main, "swap")
  /\ UNCHANGED <<queue, batch, handlerLock, record, logged, pushed>>

\* ... and the lock is given back.
EndShutdown ==
  /\ at[Main] = "closing" /\ closed
  /\ handlerLock' = Nobody
  /\ GoTo(Main, "ended")
  /\ UNCHANGED <<queue, batch, record, closed, logged, pushed>>

\* The process ends: after shutdown, or by a signal at any time.
Kill ==
  /\ \E p \in Pushers : at[p] # "killed"
  /\ at' = [p \in Pushers |-> "killed"]
  /\ UNCHANGED <<queue, batch, handlerLock, record, closed, logged, pushed>>

-----------------------------------------------------------------------------
Emit(t) == AcquireHandler(t) \/ Enqueue(t) \/ Swap(t) \/ Push(t)
Flush == Wake \/ Swap(Flusher) \/ Push(Flusher)
End == AcquireHandler(Main) \/ Swap(Main) \/ Push(Main) \/ Close \/ EndShutdown

LokiNext == \/ \E t \in Loggers : Log(t) \/ Emit(t)
            \/ Flush \/ Shutdown \/ End \/ Kill

LokiSpec == LokiInit /\ [][LokiNext]_lokiVars

\* Threads run, a POST ends by its timeout, and the flush interval passes.
LokiFairness == /\ \A t \in Loggers : WF_lokiVars(Emit(t))
                /\ WF_lokiVars(Flush) /\ WF_lokiVars(End)

-----------------------------------------------------------------------------
(* Properties. *)

\* REDFISH_LOKI_BATCH, "max queued records before a forced flush": as the handler
\* lock is held over a forced flush, no more than batch_size records are queued or
\* being pushed by the threads under that lock, and no more than that by the flusher,
\* however slow Loki is and however many threads log.
HeldBounded ==
  LET Held(p) == IF p = Nobody THEN 0 ELSE Len(batch[p]) IN
  /\ handlerLock # Flusher
  /\ Len(queue) + Held(handlerLock) <= batch_size
  /\ Len(batch[Flusher]) <= batch_size
  /\ \A p \in Pushers \ {Flusher, handlerLock} : batch[p] = <<>>

Sent == pushed["received"] \cup pushed["lost"]

\* An emission is queued, being pushed by one thread, received or lost, and is so once:
\* none is pushed twice, though two threads flush.
PushedOnce ==
  /\ IsInjective(queue) /\ ToSet(queue) \cap Sent = {}
  /\ pushed["received"] \cap pushed["lost"] = {}
  /\ \A p \in Pushers : /\ IsInjective(batch[p])
                         /\ ToSet(batch[p]) \cap (ToSet(queue) \cup Sent) = {}
  /\ \A p, q \in Pushers : p = q \/ ToSet(batch[p]) \cap ToSet(batch[q]) = {}

LokiInv == LokiTypeOK /\ HeldBounded

\* "Records are batched and flushed by a background daemon thread": what is queued
\* leaves the queue though nothing more is logged, unless the program ends.
QueueDrains == queue # <<>> ~> queue = <<>> \/ closed \/ at[Flusher] = "killed"

\* Every call of the logger returns, also while Loki is slow or away.
LoggingReturns == \A t \in Loggers : at[t] # "idle" ~> at[t] \in {"idle", "killed"}

\* loki_logging.py, "delivery ... never blocks ... the daemon": no thread that logs
\* waits for Loki, either in the POST or for a thread that is in it.
NeverBlocks ==
  \A t \in Loggers : /\ at[t] # "push"
                     /\ at[t] = "lock" /\ handlerLock # Nobody => at[handlerLock] # "push"
=============================================================================
