-------------------------- MODULE LokiHandler_proofs --------------------------
(***************************************************************************)
(* Log shipping, for any number of threads, records and batch sizes.       *)
(***************************************************************************)
EXTENDS LokiHandler, TLAPS

-----------------------------------------------------------------------------
(* The inductive invariant.  A thread past AcquireHandler has the handler    *)
(* lock; only a push keeps a batch; and while the lock is free, or its       *)
(* holder has not appended yet or has flushed, the queue has room for one    *)
(* record more.                                                              *)

HoldsLock == \A p \in Pushers \ {Flusher} :
               at[p] \in {"append", "swap", "push", "closing"} => handlerLock = p
OnlyPushers == \A p \in Pushers : at[p] \notin {"push", "killed"} => batch[p] = <<>>
HasRecord == \A t \in Loggers : at[t] \in {"lock", "append", "swap", "push"} => record[t] \in Emissions
HasRoom == handlerLock = Nobody \/ at[handlerLock] \in {"append", "push", "closing"}
             => Len(queue) < batch_size

LokiIInv == LokiInv /\ HoldsLock /\ OnlyPushers /\ HasRecord /\ HasRoom

\* Where a thread goes when the handler returns, and what becomes of the lock and of its
\* record.
LEMMA LeaveTypes ==
  ASSUME LokiTypeOK, HasRecord, NEW p \in Pushers, at[p] \in {"append", "swap", "push"}, Leave(p)
  PROVE  /\ at' \in [Pushers -> Places] /\ at' = [at EXCEPT ![p] = at'[p]]
         /\ at'[p] \in {"wait", "closing", "lock", "idle"}
         /\ record' \in [Loggers -> Emissions \cup {NoRecord}]
         /\ \A t \in Loggers \ {p} : record'[t] = record[t]
         /\ p \in Loggers /\ at'[p] = "lock" => record'[p] \in Emissions
         /\ p \in Loggers => at'[p] \in {"lock", "idle"} /\ handlerLock' = Nobody
         /\ p = Main => at'[p] = "closing" /\ handlerLock' = handlerLock
         /\ p = Flusher => at'[p] = "wait" /\ handlerLock' = handlerLock
<1> USE LokiAssumption DEF LokiTypeOK
<1>1. CASE p = Flusher
  BY <1>1 DEF Leave, GoTo, Pushers, Places
<1>2. CASE p = Main
  BY <1>2 DEF Leave, GoTo, Pushers, Places
<1>3. CASE p \in Loggers
  <2>1. record[p] \in Emissions /\ p # Flusher /\ p # Main
    BY <1>3 DEF HasRecord
  <2>2. <<record[p][1], 2>> \in Emissions
    BY <2>1 DEF Emissions, Handlings
  <2>3. CASE record[p][2] = 1
    <3>1. GoTo(p, "lock") /\ handlerLock' = Nobody /\ record' = [record EXCEPT ![p] = <<@[1], 2>>]
      BY <1>3, <2>1, <2>3 DEF Leave
    <3> QED  BY <1>3, <2>1, <2>2, <3>1 DEF GoTo, Places
  <2>4. CASE record[p][2] # 1
    <3>1. GoTo(p, "idle") /\ handlerLock' = Nobody /\ record' = [record EXCEPT ![p] = NoRecord]
      BY <1>3, <2>1, <2>4 DEF Leave
    <3> QED  BY <1>3, <2>1, <3>1 DEF GoTo, Places
  <2> QED  BY <2>3, <2>4
<1> QED  BY <1>1, <1>2, <1>3 DEF Pushers

\* A thread that takes the handler lock finds room in the queue.
LEMMA AcquireKeeps ==
  ASSUME LokiIInv, NEW p \in Loggers \cup {Main}, AcquireHandler(p)
  PROVE  LokiIInv'
<1> USE LokiAssumption DEF LokiIInv, LokiInv, LokiTypeOK
<1>1. p \in Pushers /\ p # Flusher /\ p # Nobody
  BY DEF Pushers
<1>2. LokiTypeOK'
  BY <1>1 DEF AcquireHandler, GoTo, Places
<1>3. /\ handlerLock = Nobody /\ handlerLock' = p /\ at[p] = "lock"
      /\ at'[p] \in {"append", "swap"} /\ \A q \in Pushers \ {p} : at'[q] = at[q]
      /\ UNCHANGED <<queue, batch, record>>
      /\ p \in Loggers => at'[p] = "append"
  BY <1>1 DEF AcquireHandler, GoTo
<1>4. batch[p] = <<>> /\ Len(batch[p]) = 0
  BY <1>1, <1>3 DEF OnlyPushers
<1>5. HeldBounded'
  BY <1>1, <1>3, <1>4 DEF HeldBounded
<1>6. HoldsLock' /\ OnlyPushers' /\ HasRecord' /\ HasRoom'
  <2>1. HoldsLock'  BY <1>1, <1>3 DEF HoldsLock
  <2>2. OnlyPushers'  BY <1>1, <1>3, <1>4 DEF OnlyPushers
  <2>3. HasRecord'  BY <1>1, <1>3 DEF HasRecord, Pushers
  <2>4. HasRoom'  BY <1>1, <1>3 DEF HasRoom
  <2> QED  BY <2>1, <2>2, <2>3, <2>4
<1> QED  BY <1>2, <1>5, <1>6

\* A record more in the queue: there was room for it, and if it was the last place the
\* thread keeps the lock and flushes.
LEMMA EnqueueKeeps ==
  ASSUME LokiIInv, NEW t \in Loggers, Enqueue(t)
  PROVE  LokiIInv'
<1> USE LokiAssumption DEF LokiIInv, LokiInv
<1>1. t \in Pushers /\ t # Flusher /\ t # Main /\ t # Nobody
  BY DEF Pushers
<1>2. /\ at[t] = "append" /\ handlerLock = t /\ batch[t] = <<>> /\ record[t] \in Emissions
      /\ Len(queue) < batch_size
  BY <1>1 DEF Enqueue, HoldsLock, OnlyPushers, HasRecord, HasRoom
<1>3. /\ queue' \in Seq(Emissions) /\ Len(queue') = Len(queue) + 1 /\ Len(queue) \in Nat
      /\ Len(queue') <= batch_size /\ UNCHANGED <<batch, closed, logged, pushed>>
  BY <1>2 DEF Enqueue, LokiTypeOK
<1>4. /\ Len(batch'[t]) = 0 /\ batch'[t] = <<>> /\ Len(batch'[Flusher]) <= batch_size
      /\ \A p \in Pushers \ {Flusher, t} : batch'[p] = <<>>
  BY <1>2, <1>3 DEF HeldBounded
<1>5. CASE Len(queue') >= batch_size
  <2>1. GoTo(t, "swap") /\ UNCHANGED <<handlerLock, record>>
    BY <1>5 DEF Enqueue
  <2>2. LokiTypeOK'
    BY <2>1, <1>3 DEF LokiTypeOK, GoTo, Places
  <2>3. at'[t] = "swap" /\ \A q \in Pushers \ {t} : at'[q] = at[q]
    BY <2>1, <1>1 DEF GoTo, LokiTypeOK
  <2>4. HeldBounded'
    <3>1. handlerLock' = t
      BY <1>2, <2>1
    <3>2. Len(queue') + Len(batch'[t]) <= batch_size
      BY <1>3, <1>4
    <3> QED  BY <1>1, <1>4, <3>1, <3>2 DEF HeldBounded
  <2>5. HoldsLock' /\ OnlyPushers' /\ HasRecord' /\ HasRoom'
    BY <1>1, <1>2, <1>3, <2>1, <2>3 DEF HoldsLock, OnlyPushers, HasRecord, HasRoom, Pushers
  <2> QED  BY <2>2, <2>4, <2>5
<1>6. CASE ~(Len(queue') >= batch_size)
  <2>1. Leave(t)
    BY <1>6 DEF Enqueue
  <2>2. /\ at' \in [Pushers -> Places] /\ at'[t] \in {"lock", "idle"} /\ handlerLock' = Nobody
        /\ \A q \in Pushers \ {t} : at'[q] = at[q]
        /\ record' \in [Loggers -> Emissions \cup {NoRecord}]
        /\ \A u \in Loggers \ {t} : record'[u] = record[u]
        /\ at'[t] = "lock" => record'[t] \in Emissions
    BY <1>1, <1>2, <2>1, LeaveTypes DEF LokiTypeOK
  <2>3. LokiTypeOK'
    BY <1>3, <2>2 DEF LokiTypeOK
  <2>4. HeldBounded'
    <3>1. handlerLock' = Nobody /\ Nobody # Flusher
      BY <2>2 DEF Pushers
    <3>2. Len(queue') + 0 <= batch_size
      BY <1>3
    <3>3. \A p \in Pushers \ {Flusher, Nobody} : batch'[p] = <<>>
      BY <1>4
    <3> QED  BY <1>4, <3>1, <3>2, <3>3 DEF HeldBounded
  <2>5. HoldsLock'
    BY <1>2, <2>2 DEF HoldsLock
  <2>6. OnlyPushers' /\ HasRecord'
    BY <1>1, <1>2, <1>3, <2>2 DEF OnlyPushers, HasRecord, Pushers
  <2>7. HasRoom'
    BY <1>3, <1>6, <2>2 DEF HasRoom, LokiTypeOK
  <2> QED  BY <2>3, <2>4, <2>5, <2>6, <2>7
<1> QED  BY <1>5, <1>6

\* The flusher's steps, and those of the holder of the lock, leave the lock or keep it;
\* a swap empties the queue.
LEMMA SwapKeeps ==
  ASSUME LokiIInv, NEW p \in Pushers, Swap(p)
  PROVE  LokiIInv'
<1> USE LokiAssumption DEF LokiIInv, LokiInv
<1>1. /\ at[p] = "swap" /\ batch[p] = <<>> /\ queue' = <<>> /\ Len(queue') = 0
      /\ UNCHANGED <<closed, logged, pushed>>
      /\ p # Flusher => handlerLock = p
      /\ Flusher \in Pushers /\ Nobody \notin Pushers
  BY DEF Swap, OnlyPushers, HoldsLock, Pushers
<1>2. CASE queue = <<>>
  <2>1. Leave(p) /\ UNCHANGED batch
    BY <1>2 DEF Swap
  <2>2. /\ at' \in [Pushers -> Places] /\ at'[p] \in {"wait", "closing", "lock", "idle"}
        /\ \A q \in Pushers \ {p} : at'[q] = at[q]
        /\ record' \in [Loggers -> Emissions \cup {NoRecord}]
        /\ \A u \in Loggers \ {p} : record'[u] = record[u]
        /\ p \in Loggers /\ at'[p] = "lock" => record'[p] \in Emissions
        /\ p \in Loggers => at'[p] \in {"lock", "idle"} /\ handlerLock' = Nobody
        /\ p = Main => at'[p] = "closing" /\ handlerLock' = handlerLock
        /\ p = Flusher => at'[p] = "wait" /\ handlerLock' = handlerLock
    BY <1>1, <2>1, LeaveTypes DEF LokiTypeOK
  <2>3. LokiTypeOK'
    BY <1>1, <2>1, <2>2 DEF LokiTypeOK, Pushers
  <2>4. HeldBounded'
    BY <1>1, <1>2, <2>1, <2>2 DEF HeldBounded, Pushers
  <2>5. HoldsLock'
    BY <1>1, <2>2 DEF HoldsLock, Pushers
  <2>6. OnlyPushers' /\ HasRecord'
    BY <1>1, <2>1, <2>2 DEF OnlyPushers, HasRecord, Pushers
  <2>7. HasRoom'
    BY <1>1 DEF HasRoom
  <2> QED  BY <2>3, <2>4, <2>5, <2>6, <2>7
<1>3. CASE queue # <<>>
  <2>1. /\ batch' = [batch EXCEPT ![p] = queue] /\ GoTo(p, "push") /\ UNCHANGED <<handlerLock, record>>
    BY <1>3 DEF Swap
  <2>2. /\ at'[p] = "push" /\ \A q \in Pushers \ {p} : at'[q] = at[q] /\ batch'[q] = batch[q]
        /\ batch'[p] = queue
    BY <2>1 DEF GoTo, LokiTypeOK
  <2>3. LokiTypeOK'
    BY <1>1, <2>1 DEF LokiTypeOK, GoTo, Places
  <2>4. HeldBounded'
    <3>1. Len(queue) <= batch_size /\ Len(queue) \in Nat
      <4>1. Len(queue) \in Nat /\ \A q \in Pushers : Len(batch[q]) \in Nat
        BY DEF LokiTypeOK
      <4> QED  BY <4>1 DEF HeldBounded, LokiTypeOK
    <3>2. CASE p = Flusher
      BY <1>1, <2>1, <2>2, <3>1, <3>2 DEF HeldBounded, LokiTypeOK
    <3>3. CASE p # Flusher
      BY <1>1, <2>1, <2>2, <3>1, <3>3 DEF HeldBounded
    <3> QED  BY <3>2, <3>3
  <2>5. HoldsLock' /\ OnlyPushers' /\ HasRecord' /\ HasRoom'
    BY <1>1, <2>1, <2>2 DEF HoldsLock, OnlyPushers, HasRecord, HasRoom, Pushers
  <2> QED  BY <2>3, <2>4, <2>5
<1> QED  BY <1>2, <1>3

\* The end of a push, by the flusher or under the lock.
LEMMA PushKeeps ==
  ASSUME LokiIInv, NEW p \in Pushers, Push(p)
  PROVE  LokiIInv'
<1> USE LokiAssumption DEF LokiIInv, LokiInv
<1>1. /\ at[p] = "push" /\ batch' = [batch EXCEPT ![p] = <<>>] /\ Leave(p)
      /\ UNCHANGED <<queue, closed, logged>>
      /\ p # Flusher => handlerLock = p
      /\ Flusher \in Pushers /\ Nobody \notin Pushers
  BY DEF Push, HoldsLock, Pushers
<1>2. pushed' \in [Outcomes -> SUBSET Emissions]
  <2>1. batch[p] \in Seq(Emissions)
    BY DEF LokiTypeOK
  <2>2. ToSet(batch[p]) \in SUBSET Emissions
    BY <2>1 DEF ToSet
  <2> QED  BY <2>2 DEF Push, LokiTypeOK
<1>3. /\ at' \in [Pushers -> Places] /\ at'[p] \in {"wait", "closing", "lock", "idle"}
      /\ \A q \in Pushers \ {p} : at'[q] = at[q] /\ batch'[q] = batch[q]
      /\ batch'[p] = <<>>
      /\ record' \in [Loggers -> Emissions \cup {NoRecord}]
      /\ \A u \in Loggers \ {p} : record'[u] = record[u]
      /\ p \in Loggers /\ at'[p] = "lock" => record'[p] \in Emissions
      /\ p \in Loggers => at'[p] \in {"lock", "idle"} /\ handlerLock' = Nobody
      /\ p = Main => at'[p] = "closing" /\ handlerLock' = handlerLock
      /\ p = Flusher => at'[p] = "wait" /\ handlerLock' = handlerLock
  BY <1>1, LeaveTypes DEF LokiTypeOK
<1>4. LokiTypeOK'
  BY <1>1, <1>2, <1>3 DEF LokiTypeOK, Pushers
<1>5. HeldBounded'
  <2>1. Len(queue) \in Nat /\ \A q \in Pushers : Len(batch[q]) \in Nat
    BY DEF LokiTypeOK
  <2>2. Len(batch'[p]) = 0
    BY <1>3
  <2>3. CASE p = Flusher
    BY <1>1, <1>3, <2>1, <2>2, <2>3 DEF HeldBounded, LokiTypeOK
  <2>4. CASE p # Flusher
    BY <1>1, <1>3, <2>1, <2>2, <2>4 DEF HeldBounded, Pushers
  <2> QED  BY <2>3, <2>4
<1>6. HoldsLock'
  BY <1>1, <1>3 DEF HoldsLock, Pushers
<1>7. OnlyPushers' /\ HasRecord'
  BY <1>1, <1>3 DEF OnlyPushers, HasRecord, Pushers
<1>8. HasRoom'
  <2>1. CASE p = Flusher
    BY <1>1, <1>3, <2>1 DEF HasRoom, HeldBounded, LokiTypeOK
  <2>2. CASE p # Flusher
    BY <1>1, <1>3, <2>2 DEF HasRoom
  <2> QED  BY <2>1, <2>2
<1> QED  BY <1>4, <1>5, <1>6, <1>7, <1>8

\* The steps outside the handler: they leave the queue and the batches alone.
LEMMA OutsideKeeps ==
  ASSUME LokiIInv, (\E t \in Loggers : Log(t)) \/ Wake \/ Shutdown \/ Close \/ EndShutdown \/ Kill
  PROVE  LokiIInv'
<1> USE LokiAssumption DEF LokiIInv, LokiInv
<1>1. UNCHANGED <<queue, batch, pushed>>
  BY DEF Log, Wake, Shutdown, Close, EndShutdown, Kill
<1>2. Flusher \in Pushers /\ Main \in Pushers /\ Nobody \notin Pushers /\ Loggers \subseteq Pushers
  BY DEF Pushers
<1>3. ASSUME NEW t \in Loggers, Log(t) PROVE LokiIInv'
  <2>1. logged + 1 \in 1..MaxRecords /\ <<logged + 1, 1>> \in Emissions
    BY <1>3 DEF Log, Emissions, Handlings, LokiTypeOK
  <2>2. /\ at'[t] = "lock" /\ at[t] = "idle" /\ record'[t] = <<logged + 1, 1>> /\ handlerLock' = handlerLock
        /\ \A p \in Pushers \ {t} : at'[p] = at[p]
        /\ \A u \in Loggers \ {t} : record'[u] = record[u]
    BY <1>2, <1>3 DEF Log, GoTo, LokiTypeOK
  <2>3. LokiTypeOK'
    BY <1>2, <1>3, <2>1 DEF Log, GoTo, LokiTypeOK, Places
  <2>4. HeldBounded'
    BY <1>1, <2>2 DEF HeldBounded
  <2>5. HoldsLock' /\ OnlyPushers' /\ HasRecord'
    BY <1>1, <1>2, <2>1, <2>2 DEF HoldsLock, OnlyPushers, HasRecord
  <2>6. HasRoom'
    BY <1>1, <1>2, <2>2 DEF HasRoom, LokiTypeOK
  <2> QED  BY <2>3, <2>4, <2>5, <2>6
<1>4. CASE Wake
  <2>1. /\ at'[Flusher] \in {"ended", "swap"} /\ at[Flusher] = "wait"
        /\ \A p \in Pushers \ {Flusher} : at'[p] = at[p]
        /\ UNCHANGED <<handlerLock, record, closed, logged>>
    BY <1>2, <1>4 DEF Wake, GoTo, LokiTypeOK
  <2>2. LokiTypeOK'
    BY <1>2, <1>4 DEF Wake, GoTo, LokiTypeOK, Places
  <2>3. HeldBounded' /\ HoldsLock'
    BY <1>1, <2>1 DEF HeldBounded, HoldsLock
  <2>4. OnlyPushers' /\ HasRecord'
    BY <1>1, <1>2, <2>1 DEF OnlyPushers, HasRecord
  <2>5. HasRoom'
    BY <1>1, <1>2, <2>1 DEF HasRoom, LokiTypeOK, HeldBounded
  <2> QED  BY <2>2, <2>3, <2>4, <2>5
<1>5. CASE Shutdown \/ Close
  <2>1. /\ at'[Main] \in {"lock", "swap"} /\ at[Main] \in {"idle", "closing"}
        /\ at'[Main] = "swap" => at[Main] = "closing"
        /\ \A p \in Pushers \ {Main} : at'[p] = at[p]
        /\ UNCHANGED <<handlerLock, record, logged>>
    BY <1>2, <1>5 DEF Shutdown, Close, GoTo, LokiTypeOK
  <2>2. LokiTypeOK'
    BY <1>2, <1>5 DEF Shutdown, Close, GoTo, LokiTypeOK, Places
  <2>3. HeldBounded' /\ HoldsLock'
    BY <1>1, <1>2, <2>1 DEF HeldBounded, HoldsLock
  <2>4. OnlyPushers' /\ HasRecord'
    BY <1>1, <1>2, <2>1 DEF OnlyPushers, HasRecord
  <2>5. HasRoom'
    BY <1>1, <1>2, <2>1 DEF HasRoom, LokiTypeOK
  <2> QED  BY <2>2, <2>3, <2>4, <2>5
<1>6. CASE EndShutdown
  <2>1. /\ at'[Main] = "ended" /\ at[Main] = "closing" /\ handlerLock = Main /\ handlerLock' = Nobody
        /\ \A p \in Pushers \ {Main} : at'[p] = at[p]
        /\ UNCHANGED <<record, closed, logged>>
    BY <1>2, <1>6 DEF EndShutdown, GoTo, LokiTypeOK, HoldsLock
  <2>2. batch[Main] = <<>> /\ Len(batch[Main]) = 0 /\ Len(queue) \in Nat /\ Len(queue) < batch_size
    BY <1>2, <2>1 DEF OnlyPushers, HasRoom, LokiTypeOK
  <2>3. LokiTypeOK'
    BY <1>2, <1>6 DEF EndShutdown, GoTo, LokiTypeOK, Places
  <2>4. HeldBounded'
    BY <1>1, <1>2, <2>1, <2>2 DEF HeldBounded
  <2>5. HoldsLock' /\ OnlyPushers' /\ HasRecord' /\ HasRoom'
    BY <1>1, <1>2, <2>1, <2>2 DEF HoldsLock, OnlyPushers, HasRecord, HasRoom
  <2> QED  BY <2>3, <2>4, <2>5
<1>7. CASE Kill
  <2>1. \A p \in Pushers : at'[p] = "killed"
    BY <1>7 DEF Kill
  <2>2. LokiTypeOK' /\ HeldBounded' /\ HoldsLock' /\ OnlyPushers' /\ HasRecord'
    BY <1>1, <1>2, <1>7, <2>1 DEF Kill, LokiTypeOK, Places, HeldBounded, HoldsLock, OnlyPushers, HasRecord
  <2>3. HasRoom'
    BY <1>1, <1>2, <1>7, <2>1 DEF Kill, HasRoom, LokiTypeOK
  <2> QED  BY <2>2, <2>3
<1> QED  BY <1>3, <1>4, <1>5, <1>6, <1>7

\* Each step keeps the invariant.
LEMMA StepKeepsInv == LokiIInv /\ [LokiNext]_lokiVars => LokiIInv'
<1> SUFFICES ASSUME LokiIInv, [LokiNext]_lokiVars PROVE LokiIInv'
  OBVIOUS
<1>1. Flusher \in Pushers /\ Main \in Pushers /\ Loggers \subseteq Pushers
  BY DEF Pushers
<1>2. ASSUME NEW t \in Loggers, Log(t) \/ Emit(t) PROVE LokiIInv'
  BY <1>1, <1>2, AcquireKeeps, EnqueueKeeps, SwapKeeps, PushKeeps, OutsideKeeps DEF Emit
<1>3. CASE Flush
  BY <1>1, <1>3, SwapKeeps, PushKeeps, OutsideKeeps DEF Flush
<1>4. CASE End
  BY <1>1, <1>4, AcquireKeeps, SwapKeeps, PushKeeps, OutsideKeeps DEF End
<1>5. CASE Shutdown \/ Kill
  BY <1>5, OutsideKeeps
<1>6. CASE UNCHANGED lokiVars
  BY <1>6 DEF lokiVars, LokiIInv, LokiInv, LokiTypeOK, HeldBounded, HoldsLock, OnlyPushers, HasRecord, HasRoom
<1> QED  BY <1>2, <1>3, <1>4, <1>5, <1>6 DEF LokiNext

\* It holds at first.
LEMMA InvInit == LokiInit => LokiIInv
<1> SUFFICES ASSUME LokiInit PROVE LokiIInv
  OBVIOUS
<1> USE LokiAssumption
<1>1. LokiTypeOK
  <2>1. queue \in Seq(Emissions) /\ logged \in 0..MaxRecords
    BY DEF LokiInit
  <2>2. <<>> \in Seq(Emissions)
    OBVIOUS
  <2>3. batch \in [Pushers -> Seq(Emissions)]
    BY <2>2, Zenon DEF LokiInit
  <2>4. handlerLock \in Pushers \cup {Nobody} /\ closed \in BOOLEAN
    BY Zenon DEF LokiInit
  <2>5. at \in [Pushers -> Places]
    BY DEF LokiInit, Places
  <2>6. record \in [Loggers -> Emissions \cup {NoRecord}]
    BY Zenon DEF LokiInit
  <2>7. pushed \in [Outcomes -> SUBSET Emissions]
    BY Zenon DEF LokiInit
  <2> QED  BY <2>1, <2>3, <2>4, <2>5, <2>6, <2>7 DEF LokiTypeOK
<1>2. HeldBounded
  BY DEF LokiInit, HeldBounded, Pushers
<1>3. HoldsLock /\ OnlyPushers /\ HasRecord /\ HasRoom
  BY DEF LokiInit, HoldsLock, OnlyPushers, HasRecord, HasRoom, Pushers
<1> QED  BY <1>1, <1>2, <1>3 DEF LokiIInv, LokiInv

\* However many threads log and however slow Loki is, no more than batch_size records
\* wait under the handler lock and no more than that are in the flusher's hands.
THEOREM LokiInvariant == LokiSpec => []LokiInv
<1>1. LokiIInv => LokiInv
  BY DEF LokiIInv
<1> QED  BY <1>1, InvInit, StepKeepsInv, PTL DEF LokiSpec

-----------------------------------------------------------------------------
(* No emission is pushed twice: what a thread is about to queue is new, for  *)
(* the records of threads differ, and a record's second handling begins      *)
(* only after its first.                                                     *)

Known == ToSet(queue) \cup Sent \cup UNION {ToSet(batch[p]) : p \in Pushers}
Busy(t) == at[t] \in {"lock", "append", "swap", "push"}

Old == \A e \in Known : e \in Emissions /\ e[1] <= logged
OwnRecord ==
  \A t \in Loggers : Busy(t) =>
    /\ record[t][1] <= logged
    /\ \A u \in Loggers \ {t} : Busy(u) => record[u][1] # record[t][1]
NotYet ==
  \A t \in Loggers : Busy(t) =>
    /\ at[t] \in {"lock", "append"} => record[t] \notin Known
    /\ record[t][2] = 1 => <<record[t][1], 2>> \notin Known

Ahead == Old /\ OwnRecord /\ NotYet

\* What becomes of a logger's record when the handler returns.
LEMMA LeaveRecord ==
  ASSUME LokiTypeOK, HasRecord, NEW t \in Loggers, at[t] \in {"append", "swap", "push"}, Leave(t)
  PROVE  at'[t] = "idle" \/ (at'[t] = "lock" /\ record[t][2] = 1 /\ record'[t] = <<record[t][1], 2>>)
<1> USE LokiAssumption DEF LokiTypeOK
<1>1. record[t] \in Emissions /\ t # Flusher /\ t # Main /\ t \in Pushers
  BY DEF HasRecord, Pushers
<1>2. CASE record[t][2] = 1
  <2>1. GoTo(t, "lock") /\ record' = [record EXCEPT ![t] = <<@[1], 2>>]
    BY <1>1, <1>2 DEF Leave
  <2> QED  BY <1>1, <1>2, <2>1 DEF GoTo
<1>3. CASE record[t][2] # 1
  <2>1. GoTo(t, "idle")
    BY <1>1, <1>3 DEF Leave
  <2> QED  BY <1>1, <2>1 DEF GoTo
<1> QED  BY <1>2, <1>3

\* How a thread may move without anything becoming old that is still to be queued.
Onward(p) ==
  p \in Loggers =>
    /\ Busy(p)
    /\ \/ at'[p] = "idle"
       \/ at'[p] = "lock" /\ record[p][2] = 1 /\ record'[p] = <<record[p][1], 2>>
       \/ /\ record'[p] = record[p] /\ at'[p] \in {"append", "swap", "push"}
          /\ at'[p] = "append" => at[p] = "lock"

\* A thread moves, and may queue its record.
LEMMA Moved ==
  ASSUME LokiIInv, Ahead, NEW p \in Pushers, Onward(p), logged' = logged,
         \A q \in Pushers \ {p} : at'[q] = at[q],
         \A u \in Loggers \ {p} : record'[u] = record[u],
         \/ Known' \subseteq Known
         \/ p \in Loggers /\ at'[p] # "append" /\ Known' \subseteq Known \cup {record[p]}
  PROVE  Ahead'
<1> USE DEF LokiIInv, LokiInv, Ahead
<1>1. \A t \in Loggers : Busy(t) => record[t] \in Emissions /\ record[t] = <<record[t][1], record[t][2]>>
  BY DEF HasRecord, Busy, Emissions
<1>2. \A u \in Loggers \ {p} : (Busy(u))' = Busy(u) /\ at'[u] = at[u]
  BY DEF Busy, Pushers
<1>3. (Busy(p))' /\ p \in Loggers => record'[p][1] = record[p][1]
  BY DEF Onward, Busy
<1>4. Old'
  BY <1>1 DEF Old, OwnRecord, Onward
<1>5. OwnRecord'
  BY <1>2, <1>3 DEF OwnRecord, Onward
<1>6. ASSUME NEW t \in Loggers \ {p}, Busy(t)
      PROVE  /\ at[t] \in {"lock", "append"} => record[t] \notin Known'
             /\ record[t][2] = 1 => <<record[t][1], 2>> \notin Known'
  <2>1. p \in Loggers => record[t] # record[p] /\ <<record[t][1], 2>> # record[p]
    BY <1>1, <1>6 DEF OwnRecord, Onward
  <2> QED  BY <1>6, <2>1 DEF NotYet
<1>7. ASSUME p \in Loggers, (Busy(p))'
      PROVE  /\ at'[p] \in {"lock", "append"} => record'[p] \notin Known'
             /\ record'[p][2] = 1 => <<record'[p][1], 2>> \notin Known'
  <2>1. Busy(p) /\ record[p] = <<record[p][1], record[p][2]>>
    BY <1>1, <1>7 DEF Onward
  <2>2. at'[p] # "idle"
    BY <1>7 DEF Busy
  <2>3. CASE at'[p] = "lock" /\ record[p][2] = 1 /\ record'[p] = <<record[p][1], 2>>
    <3>1. <<record[p][1], 2>> # record[p]
      BY <2>1, <2>3
    <3> QED  BY <1>7, <2>1, <2>3, <3>1 DEF NotYet
  <2>4. CASE record'[p] = record[p] /\ at'[p] \in {"append", "swap", "push"} /\ (at'[p] = "append" => at[p] = "lock")
    <3>1. record[p][2] = 1 => <<record[p][1], 2>> # record[p]
      BY <2>1
    <3> QED  BY <1>7, <2>1, <2>4, <3>1 DEF NotYet
  <2> QED  BY <1>7, <2>2, <2>3, <2>4 DEF Onward
<1>8. NotYet'
  <2> SUFFICES ASSUME NEW t \in Loggers, (Busy(t))'
               PROVE  /\ at'[t] \in {"lock", "append"} => record'[t] \notin Known'
                      /\ record'[t][2] = 1 => <<record'[t][1], 2>> \notin Known'
    BY DEF NotYet
  <2> QED  BY <1>2, <1>6, <1>7
<1> QED  BY <1>4, <1>5, <1>8

\* Sequences and the sets of their elements.
LEMMA ElementsOfAppend ==
  ASSUME NEW S, NEW s \in Seq(S), NEW e \in S
  PROVE  /\ ToSet(Append(s, e)) = ToSet(s) \cup {e}
         /\ IsInjective(s) /\ e \notin ToSet(s) => IsInjective(Append(s, e))
<1>1. /\ Append(s, e) \in Seq(S) /\ Len(Append(s, e)) = Len(s) + 1 /\ Append(s, e)[Len(s) + 1] = e
      /\ \A i \in 1..Len(s) : Append(s, e)[i] = s[i]
      /\ Len(s) \in Nat /\ DOMAIN s = 1..Len(s) /\ DOMAIN Append(s, e) = 1..(Len(s) + 1)
  OBVIOUS
<1>2. \A i \in DOMAIN Append(s, e) : i \in DOMAIN s \/ i = Len(s) + 1
  BY <1>1
<1>3. ToSet(Append(s, e)) = ToSet(s) \cup {e}
  BY <1>1, <1>2 DEF ToSet
<1>4. IsInjective(s) /\ e \notin ToSet(s) => IsInjective(Append(s, e))
  BY <1>1, <1>2 DEF ToSet, IsInjective
<1> QED  BY <1>3, <1>4

\* The empty sequence.
LEMMA NoElements == ToSet(<<>>) = {} /\ IsInjective(<<>>)
BY DEF ToSet, IsInjective

\* A record is queued: it was nowhere yet.
LEMMA EnqueueOnce ==
  ASSUME LokiIInv, Ahead, PushedOnce, NEW t \in Loggers, Enqueue(t)
  PROVE  Ahead' /\ PushedOnce'
<1> USE DEF LokiIInv, LokiInv
<1>1. t \in Pushers /\ at[t] = "append" /\ Busy(t) /\ record[t] \in Emissions /\ record[t] \notin Known
  BY DEF Enqueue, Pushers, Busy, HasRecord, Ahead, NotYet
<1>2. queue \in Seq(Emissions) /\ queue' = Append(queue, record[t]) /\ UNCHANGED <<batch, logged, pushed>>
  BY DEF LokiTypeOK, Enqueue
<1>3. ToSet(queue') = ToSet(queue) \cup {record[t]} /\ (record[t] \notin ToSet(queue) /\ IsInjective(queue) => IsInjective(queue'))
  BY <1>1, <1>2, ElementsOfAppend
<1>4. Known' \subseteq Known \cup {record[t]} /\ Sent' = Sent
  BY <1>2, <1>3 DEF Known, Sent
<1>5. PushedOnce'
  <2>1. record[t] \notin ToSet(queue) /\ record[t] \notin Sent /\ \A p \in Pushers : record[t] \notin ToSet(batch[p])
    BY <1>1 DEF Known
  <2> QED  BY <1>2, <1>3, <1>4, <2>1 DEF PushedOnce
<1>6. /\ \A q \in Pushers \ {t} : at'[q] = at[q]
      /\ \A u \in Loggers \ {t} : record'[u] = record[u]
      /\ at'[t] # "append" /\ Onward(t)
  <2>1. CASE Leave(t)
    BY <1>1, <2>1, LeaveTypes, LeaveRecord DEF Onward, LokiTypeOK
  <2>2. CASE GoTo(t, "swap") /\ UNCHANGED <<handlerLock, record>>
    BY <1>1, <2>2 DEF GoTo, Onward, LokiTypeOK
  <2> QED  BY <2>1, <2>2 DEF Enqueue
<1> QED  BY <1>1, <1>2, <1>4, <1>5, <1>6, Moved

\* The queue becomes a batch.
LEMMA SwapOnce ==
  ASSUME LokiIInv, Ahead, PushedOnce, NEW p \in Pushers, Swap(p)
  PROVE  Ahead' /\ PushedOnce'
<1> USE DEF LokiIInv, LokiInv
<1>1. at[p] = "swap" /\ batch[p] = <<>> /\ UNCHANGED <<logged, pushed>> /\ queue' = <<>> /\ Sent' = Sent
  BY DEF Swap, OnlyPushers, Sent
<1>2. ToSet(queue') = {} /\ IsInjective(queue') /\ ToSet(batch[p]) = {}
  BY <1>1, NoElements
<1>3. CASE queue = <<>>
  <2>1. Leave(p) /\ UNCHANGED batch
    BY <1>3 DEF Swap
  <2>2. PushedOnce' /\ Known' \subseteq Known
    BY <1>1, <1>2, <1>3, <2>1 DEF PushedOnce, Known
  <2>3. /\ \A q \in Pushers \ {p} : at'[q] = at[q]
        /\ \A u \in Loggers \ {p} : record'[u] = record[u]
        /\ Onward(p)
    BY <1>1, <2>1, LeaveTypes, LeaveRecord DEF Onward, LokiTypeOK, Busy
  <2> QED  BY <1>1, <2>2, <2>3, Moved
<1>4. CASE queue # <<>>
  <2>1. batch' = [batch EXCEPT ![p] = queue] /\ GoTo(p, "push") /\ UNCHANGED <<handlerLock, record>>
    BY <1>4 DEF Swap
  <2>2. batch'[p] = queue /\ \A q \in Pushers \ {p} : batch'[q] = batch[q]
    BY <2>1 DEF LokiTypeOK
  <2>3. PushedOnce'
    BY <1>1, <1>2, <2>2 DEF PushedOnce
  <2>4. Known' \subseteq Known
    BY <1>1, <1>2, <2>2 DEF Known
  <2>5. /\ \A q \in Pushers \ {p} : at'[q] = at[q]
        /\ \A u \in Loggers \ {p} : record'[u] = record[u]
        /\ Onward(p)
    BY <1>1, <2>1 DEF GoTo, Onward, LokiTypeOK, Busy, Pushers
  <2> QED  BY <1>1, <2>3, <2>4, <2>5, Moved
<1> QED  BY <1>3, <1>4

\* A batch is received or lost.
LEMMA PushOnce ==
  ASSUME LokiIInv, Ahead, PushedOnce, NEW p \in Pushers, Push(p)
  PROVE  Ahead' /\ PushedOnce'
<1> USE DEF LokiIInv, LokiInv
<1>1. /\ at[p] = "push" /\ batch' = [batch EXCEPT ![p] = <<>>] /\ Leave(p)
      /\ UNCHANGED <<queue, logged>>
  BY DEF Push
<1>2. batch'[p] = <<>> /\ \A q \in Pushers \ {p} : batch'[q] = batch[q]
  BY <1>1 DEF LokiTypeOK
<1>3. ToSet(batch'[p]) = {} /\ IsInjective(batch'[p])
  BY <1>2, NoElements
<1>4. PICK o \in Outcomes : pushed' = [pushed EXCEPT ![o] = @ \cup ToSet(batch[p])]
  BY DEF Push
<1>5. /\ Sent' = Sent \cup ToSet(batch[p])
      /\ pushed'["received"] \cap pushed'["lost"] \subseteq
            (pushed["received"] \cap pushed["lost"]) \cup (ToSet(batch[p]) \cap Sent)
  BY <1>4 DEF Sent, LokiTypeOK, Outcomes
<1>6. PushedOnce'
  BY <1>1, <1>2, <1>3, <1>5 DEF PushedOnce
<1>7. Known' \subseteq Known
  BY <1>1, <1>2, <1>3, <1>5 DEF Known
<1>8. /\ \A q \in Pushers \ {p} : at'[q] = at[q]
      /\ \A u \in Loggers \ {p} : record'[u] = record[u]
      /\ Onward(p)
  BY <1>1, LeaveTypes, LeaveRecord DEF Onward, LokiTypeOK, Busy
<1> QED  BY <1>1, <1>6, <1>7, <1>8, Moved

\* The other steps queue and push nothing.
LEMMA OthersOnce ==
  ASSUME LokiIInv, Ahead, PushedOnce,
         \/ \E t \in Loggers : Log(t)
         \/ \E p \in Loggers \cup {Main} : AcquireHandler(p)
         \/ Wake \/ Shutdown \/ Close \/ EndShutdown \/ Kill \/ UNCHANGED lokiVars
  PROVE  Ahead' /\ PushedOnce'
<1> USE LokiAssumption DEF LokiIInv, LokiInv
<1>1. UNCHANGED <<queue, batch, pushed>>
  BY DEF Log, AcquireHandler, Wake, Shutdown, Close, EndShutdown, Kill, lokiVars
<1>2. PushedOnce' /\ Known' = Known
  BY <1>1 DEF PushedOnce, Known, Sent
<1>3. ASSUME NEW t \in Loggers, Log(t) PROVE Ahead'
  <2>1. /\ at[t] = "idle" /\ logged' = logged + 1 /\ record'[t] = <<logged + 1, 1>> /\ logged \in Nat
        /\ \A u \in Loggers \ {t} : record'[u] = record[u] /\ at'[u] = at[u]
    BY <1>3 DEF Log, GoTo, LokiTypeOK, Pushers
  <2>2. \A e \in Known : e[1] \in Nat /\ e[1] <= logged
    BY DEF Ahead, Old, Emissions
  <2>3. \A u \in Loggers \ {t} : Busy(u) => record[u][1] \in Nat /\ record[u][1] <= logged
    BY DEF Ahead, OwnRecord, HasRecord, Busy, Emissions
  <2>4. <<logged + 1, 1>> \notin Known /\ <<logged + 1, 2>> \notin Known
    BY <2>1, <2>2
  <2>5. Old'
    BY <1>2, <2>1, <2>2 DEF Old, Ahead
  <2>6. OwnRecord'
    BY <2>1, <2>3 DEF OwnRecord, Ahead, Busy
  <2>7. NotYet'
    BY <1>2, <2>1, <2>4 DEF NotYet, Ahead, Busy
  <2> QED  BY <2>5, <2>6, <2>7 DEF Ahead
<1>4. ASSUME NEW p \in Loggers \cup {Main}, AcquireHandler(p) PROVE Ahead'
  <2>1. /\ p \in Pushers /\ at[p] = "lock" /\ logged' = logged /\ record' = record
        /\ at'[p] = IF p = Main THEN "swap" ELSE "append"
        /\ \A q \in Pushers \ {p} : at'[q] = at[q]
    BY <1>4 DEF AcquireHandler, GoTo, LokiTypeOK, Pushers
  <2>2. Onward(p)
    BY <2>1 DEF Onward, Busy
  <2> QED  BY <1>2, <2>1, <2>2, Moved
<1>5. CASE Wake \/ Shutdown \/ Close \/ EndShutdown
  <2>1. UNCHANGED <<record, logged>> /\ \A t \in Loggers : at'[t] = at[t]
    BY <1>5 DEF Wake, Shutdown, Close, EndShutdown, GoTo, LokiTypeOK, Pushers
  <2> QED  BY <1>2, <2>1 DEF Ahead, Old, OwnRecord, NotYet, Busy
<1>6. CASE Kill
  <2>1. UNCHANGED logged /\ \A t \in Loggers : at'[t] = "killed"
    BY <1>6 DEF Kill, Pushers
  <2> QED  BY <1>2, <2>1 DEF Ahead, Old, OwnRecord, NotYet, Busy
<1>7. CASE UNCHANGED lokiVars
  BY <1>2, <1>7 DEF lokiVars, Ahead, Old, OwnRecord, NotYet, Busy
<1> QED  BY <1>2, <1>3, <1>4, <1>5, <1>6, <1>7

\* However many threads log and flush, no emission is queued or pushed twice, and none is
\* both received and lost.
THEOREM EmissionsPushedOnce == LokiSpec => []PushedOnce
<1>1. LokiInit => Ahead /\ PushedOnce
  <2> SUFFICES ASSUME LokiInit PROVE Ahead /\ PushedOnce
    OBVIOUS
  <2>1. queue = <<>> /\ (\A p \in Pushers : batch[p] = <<>>) /\ pushed["received"] = {} /\ pushed["lost"] = {}
    BY DEF LokiInit, Outcomes
  <2>2. PushedOnce /\ Known = {}
    BY <2>1, NoElements DEF PushedOnce, Known, Sent
  <2>3. \A t \in Loggers : ~Busy(t)
    BY LokiAssumption DEF LokiInit, Busy, Pushers
  <2> QED  BY <2>2, <2>3 DEF Ahead, Old, OwnRecord, NotYet
<1>2. LokiIInv /\ Ahead /\ PushedOnce /\ [LokiNext]_lokiVars => Ahead' /\ PushedOnce'
  BY EnqueueOnce, SwapOnce, PushOnce, OthersOnce DEF LokiNext, Emit, Flush, End, Pushers
<1> QED
  BY <1>1, <1>2, InvInit, StepKeepsInv, PTL DEF LokiSpec
===============================================================================
