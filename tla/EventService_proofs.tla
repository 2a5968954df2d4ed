------------------------- MODULE EventService_proofs -------------------------
(***************************************************************************)
(* Event subscriptions and delivery, for any number of threads,            *)
(* destinations and requests.                                              *)
(***************************************************************************)
EXTENDS EventService, FiniteSetTheorems, FunctionTheorems, TLAPS

Places == Ended \cup {"resolve", "check", "store", "find", "delete", "deliver"}

\* What SubscriptionsBounded counts: the table with what threads are about to add.
Table == subscriptions \cup Storing

\* Its parts are finite sets with sizes.
LEMMA SizesAreNumbers ==
  ASSUME EventsTypeOK
  PROVE  /\ IsFiniteSet(subscriptions) /\ Cardinality(subscriptions) \in Nat
         /\ IsFiniteSet(Storing) /\ Cardinality(Storing) \in Nat
         /\ IsFiniteSet(Table) /\ Cardinality(Table) \in Nat
         /\ Cardinality(Handlers) \in Nat \ {0}
<1>1. subscriptions \in SUBSET Destinations /\ Storing \in SUBSET Destinations
      /\ Table \in SUBSET Destinations
  BY DEF EventsTypeOK, HandlerStates, Storing, Table
<1>2. Cardinality(Handlers) \in Nat /\ Cardinality(Handlers) # 0
  BY EventsAssumption, FS_CardinalityType, FS_EmptySet
<1> QED  BY <1>1, <1>2, EventsAssumption, FS_Subset, FS_CardinalityType

\* A thread is about to store at most one destination.
LEMMA StoringIsSmall ==
  EventsTypeOK => /\ IsFiniteSet(Storing) /\ Cardinality(Storing) \in Nat
                  /\ Cardinality(Storing) <= Cardinality(Handlers)
<1> SUFFICES ASSUME EventsTypeOK
             PROVE  /\ IsFiniteSet(Storing) /\ Cardinality(Storing) \in Nat
                    /\ Cardinality(Storing) <= Cardinality(Handlers)
  OBVIOUS
<1> DEFINE storers == {h \in Handlers : At(h, "store") /\ handler[h].dest # {}}
           f == [h \in storers |-> CHOOSE d \in handler[h].dest : TRUE]
<1>1. \A h \in storers : handler[h].dest = {f[h]} /\ f[h] \in Storing
  <2> SUFFICES ASSUME NEW h \in storers
               PROVE  handler[h].dest = {f[h]} /\ f[h] \in Storing
    OBVIOUS
  <2>1. PICK d \in Destinations : handler[h].dest = {d}
    BY DEF EventsTypeOK, HandlerStates
  <2>2. f[h] = d  BY <2>1
  <2> QED  BY <2>1, <2>2 DEF Storing
<1>2. \A d \in Storing : \E h \in storers : f[h] = d
  <2> SUFFICES ASSUME NEW d \in Storing
               PROVE  \E h \in storers : f[h] = d
    OBVIOUS
  <2>1. PICK h \in Handlers : At(h, "store") /\ d \in handler[h].dest
    BY DEF Storing
  <2> QED  BY <1>1, <2>1
<1>3. f \in [storers -> Storing]
  BY <1>1
<1> HIDE DEF f
<1>4. f \in Surjection(storers, Storing)
  BY <1>2, <1>3, Fun_IsSurj
<1>5. storers \in SUBSET Handlers
  OBVIOUS
<1>6. IsFiniteSet(storers) /\ Cardinality(storers) <= Cardinality(Handlers)
      /\ Cardinality(storers) \in Nat
  BY <1>5, EventsAssumption, FS_Subset, FS_CardinalityType
<1>7. Cardinality(Storing) <= Cardinality(storers)
  BY <1>4, <1>6, FS_Surjection
<1> QED  BY <1>6, <1>7, SizesAreNumbers

\* A step that adds nothing to the two keeps the bound.
LEMMA BoundKept ==
  ASSUME EventsTypeOK, SubscriptionsBounded, EventsTypeOK', Table' \subseteq Table
  PROVE  SubscriptionsBounded'
<1>1. Cardinality(Table') <= Cardinality(Table) /\ Cardinality(Table') \in Nat
  BY SizesAreNumbers, FS_Subset, FS_CardinalityType
<1> QED  BY <1>1, SizesAreNumbers, EventsAssumption DEF SubscriptionsBounded, Table

\* Each step keeps the types.
LEMMA StepKeepsTypes == EventsTypeOK /\ [EventsNext]_eventVars => EventsTypeOK'
<1> SUFFICES ASSUME EventsTypeOK, [EventsNext]_eventVars PROVE EventsTypeOK'
  OBVIOUS
<1> USE EventsAssumption DEF EventsTypeOK
<1>1. ASSUME NEW h \in Handlers, NEW r \in HandlerStates, Take(h, r),
             UNCHANGED <<subscriptions, outcome>>
      PROVE  EventsTypeOK'
  BY <1>1 DEF Take, Become
<1>2. ASSUME NEW h \in Handlers, NEW place \in Places, Reach(h, place),
             subscriptions' \subseteq Destinations, UNCHANGED <<outcome, asked>>
      PROVE  EventsTypeOK'
  BY <1>2 DEF Reach, Become, Places, HandlerStates
<1>3. ASSUME NEW h \in Handlers, EventStep(h) PROVE EventsTypeOK'
  <2>1. CASE Resolve(h)
    BY <2>1, <1>2 DEF Resolve, Places, Ended
  <2>2. CASE CheckCap(h)
    BY <2>2, <1>2 DEF CheckCap, Places, Ended
  <2>3. CASE Store(h)
    BY <2>3, <1>2 DEF Store, Places, Ended, HandlerStates
  <2>4. CASE Find(h)
    BY <2>4, <1>2 DEF Find, Places, Ended
  <2>5. CASE Delete(h)
    BY <2>5, <1>2 DEF Delete, Places, Ended
  <2>6. CASE Deliver(h)
    <3>1. PICK d \in handler[h].todo, result \in Results : Served(h, d, result, handler[h].todo \ {d})
      BY <2>6 DEF Deliver
    <3>2. handler' \in [Handlers -> HandlerStates]
      <4> DEFINE new == [at |-> IF handler[h].todo \ {d} = {} THEN "done" ELSE "deliver",
                         dest |-> {}, todo |-> handler[h].todo \ {d},
                         delivered |-> handler[h].delivered + IF result = "accepted" THEN 1 ELSE 0]
      <4>1. handler[h].delivered \in Nat /\ handler[h].todo \ {d} \in SUBSET Destinations
        BY DEF HandlerStates
      <4>2. new \in HandlerStates
        BY <4>1 DEF HandlerStates, Ended
      <4>3. handler' = [handler EXCEPT ![h] = new]
        BY <3>1 DEF Served, Become
      <4> HIDE DEF new
      <4> QED  BY <4>2, <4>3
    <3>3. outcome' \in [Handlers -> UNION {[D -> Results \cup {"due"}] : D \in SUBSET Destinations}]
      <4>1. PICK D \in SUBSET Destinations : outcome[h] \in [D -> Results \cup {"due"}]
        OBVIOUS
      <4>2. [outcome[h] EXCEPT ![d] = result] \in [D -> Results \cup {"due"}]
        BY <4>1
      <4> DEFINE new == [outcome[h] EXCEPT ![d] = result]
      <4>3. new \in UNION {[E -> Results \cup {"due"}] : E \in SUBSET Destinations}
        BY <4>2
      <4>4. outcome' = [outcome EXCEPT ![h] = new]
        BY <3>1 DEF Served
      <4> HIDE DEF new
      <4> QED  BY <4>3, <4>4
    <3> QED  BY <3>1, <3>2, <3>3 DEF Served
  <2> QED  BY <1>3, <2>1, <2>2, <2>3, <2>4, <2>5, <2>6 DEF EventStep
<1>4. ASSUME NEW h \in Handlers, EventAsk(h) PROVE EventsTypeOK'
  <2>1. ASSUME NEW d \in Destinations, Subscribe(h, d) \/ Unsubscribe(h, d) PROVE EventsTypeOK'
    <3>1. \A place \in Places : [handler[h] EXCEPT !.at = place, !.dest = {d}] \in HandlerStates
      BY DEF HandlerStates, Places
    <3> QED  BY <2>1, <3>1, <1>1 DEF Subscribe, Unsubscribe, Places
  <2>2. CASE SubmitEvent(h)
    <3>1. [at |-> IF subscriptions = {} THEN "done" ELSE "deliver",
           dest |-> {}, todo |-> subscriptions, delivered |-> 0] \in HandlerStates
      BY DEF HandlerStates, Ended
    <3>2. handler' \in [Handlers -> HandlerStates] /\ asked' \in 0..MaxAsked
      BY <2>2, <3>1 DEF SubmitEvent, Take, Become
    <3>3. [d \in subscriptions |-> "due"] \in
            UNION {[D -> Results \cup {"due"}] : D \in SUBSET Destinations}
      OBVIOUS
    <3> QED  BY <2>2, <3>2, <3>3 DEF SubmitEvent
  <2> QED  BY <1>4, <2>1, <2>2 DEF EventAsk
<1>5. CASE UNCHANGED eventVars
  BY <1>5 DEF eventVars
<1> QED  BY <1>3, <1>4, <1>5 DEF EventsNext

\* Each step keeps the bound: only a new destination that passes the check adds to the
\* table and what is about to be stored, and it passes while the table has room.
LEMMA StepKeepsBound == EventsInv /\ EventsTypeOK' /\ [EventsNext]_eventVars => SubscriptionsBounded'
<1> SUFFICES ASSUME EventsInv, EventsTypeOK', [EventsNext]_eventVars PROVE SubscriptionsBounded'
  OBVIOUS
<1> USE DEF EventsInv
<1>1. ASSUME NEW h \in Handlers, NEW r \in HandlerStates, handler' = [handler EXCEPT ![h] = r],
             r.at # "store", UNCHANGED subscriptions
      PROVE  Table' \subseteq Table
  BY <1>1 DEF Table, Storing, At, EventsTypeOK
<1>2. ASSUME NEW h \in Handlers, NEW place \in Places \ {"store"}, Reach(h, place),
             UNCHANGED subscriptions
      PROVE  Table' \subseteq Table
  <2>1. [handler[h] EXCEPT !.at = place] \in HandlerStates
        /\ [handler[h] EXCEPT !.at = place].at # "store"
    BY DEF EventsTypeOK, HandlerStates, Places
  <2> QED  BY <1>1, <1>2, <2>1 DEF Reach, Become
<1>3. ASSUME NEW h \in Handlers, CheckCap(h) PROVE SubscriptionsBounded'
  <2>1. CASE ~Known(h) /\ Cardinality(subscriptions) >= MAX_SUBSCRIPTIONS
    BY <2>1, <1>2, <1>3, BoundKept DEF CheckCap, Places, Ended
  <2>2. CASE Known(h)
    <3>1. Table' \subseteq Table
      BY <1>3, <2>2 DEF CheckCap, Known, Table, Storing, At, Reach, Become, EventsTypeOK
    <3> QED  BY <3>1, BoundKept
  <2>3. CASE ~Known(h) /\ ~(Cardinality(subscriptions) >= MAX_SUBSCRIPTIONS)
    <3>1. subscriptions' = subscriptions
      BY <1>3 DEF CheckCap
    <3>2. Cardinality(subscriptions) <= MAX_SUBSCRIPTIONS - 1
      BY <2>3, SizesAreNumbers, EventsAssumption
    <3>3. (/\ IsFiniteSet(Storing) /\ Cardinality(Storing) \in Nat
           /\ Cardinality(Storing) <= Cardinality(Handlers))'
      BY StoringIsSmall, PTL
    <3>4. Cardinality(subscriptions \cup Storing') <= Cardinality(subscriptions) + Cardinality(Storing')
      <4>1. subscriptions \cap Storing' \in SUBSET subscriptions
        OBVIOUS
      <4>2. Cardinality(subscriptions \cap Storing') \in Nat
        BY <4>1, SizesAreNumbers, FS_Subset, FS_CardinalityType
      <4>3. Cardinality(subscriptions \cup Storing') =
              Cardinality(subscriptions) + Cardinality(Storing') - Cardinality(subscriptions \cap Storing')
        BY <3>3, SizesAreNumbers, FS_Union
      <4> QED  BY <3>3, <4>2, <4>3, SizesAreNumbers
    <3>5. Cardinality(subscriptions \cup Storing') \in Nat
      BY <3>1, <3>3, SizesAreNumbers, FS_Union, FS_CardinalityType
    <3> QED  BY <3>1, <3>2, <3>3, <3>4, <3>5, SizesAreNumbers, EventsAssumption DEF SubscriptionsBounded
  <2> QED  BY <2>1, <2>2, <2>3
<1>4. ASSUME NEW h \in Handlers, Store(h) PROVE Table' \subseteq Table
  BY <1>4 DEF Store, Table, Storing, At, Reach, Become, EventsTypeOK
<1>5. ASSUME NEW h \in Handlers, Delete(h) PROVE Table' \subseteq Table
  BY <1>5 DEF Delete, Table, Storing, At, Reach, Become, EventsTypeOK
<1>6. ASSUME NEW h \in Handlers, Deliver(h) PROVE Table' \subseteq Table
  <2>1. PICK d \in handler[h].todo, result \in Results : Served(h, d, result, handler[h].todo \ {d})
    BY <1>6 DEF Deliver
  <2>2. handler'[h] \in HandlerStates /\ handler' = [handler EXCEPT ![h] = handler'[h]]
        /\ handler'[h].at # "store" /\ UNCHANGED subscriptions
    BY <2>1 DEF Served, Become, EventsTypeOK, HandlerStates
  <2> QED  BY <2>2, <1>1
<1>7. ASSUME NEW h \in Handlers, Resolve(h) \/ Find(h) PROVE Table' \subseteq Table
  BY <1>7, <1>2 DEF Resolve, Find, Places, Ended
<1>8. ASSUME NEW h \in Handlers, EventAsk(h) PROVE Table' \subseteq Table
  <2>1. ASSUME NEW r, Take(h, r), r.at # "store", UNCHANGED subscriptions
        PROVE  Table' \subseteq Table
    <3>1. handler' = [handler EXCEPT ![h] = r] /\ handler'[h] = r /\ r \in HandlerStates
      BY <2>1 DEF Take, Become, EventsTypeOK
    <3> QED  BY <2>1, <3>1, <1>1
  <2>2. ASSUME NEW d \in Destinations, Subscribe(h, d) \/ Unsubscribe(h, d) PROVE Table' \subseteq Table
    BY <2>1, <2>2 DEF Subscribe, Unsubscribe, EventsTypeOK, HandlerStates
  <2>3. CASE SubmitEvent(h)
    BY <2>1, <2>3 DEF SubmitEvent
  <2> QED  BY <1>8, <2>2, <2>3 DEF EventAsk
<1>9. CASE UNCHANGED eventVars
  BY <1>9 DEF eventVars, SubscriptionsBounded, Storing, At
<1> QED
  BY <1>3, <1>4, <1>5, <1>6, <1>7, <1>8, <1>9, BoundKept DEF EventsNext, EventStep

\* The table is empty at first.
LEMMA EventsInvariantInit == EventsInit => EventsInv
<1> SUFFICES ASSUME EventsInit PROVE EventsInv
  OBVIOUS
<1>1. EventsTypeOK
  <2>1. [d \in {} |-> "due"] \in UNION {[D -> Results \cup {"due"}] : D \in SUBSET Destinations}
    OBVIOUS
  <2>2. outcome \in [Handlers -> UNION {[D -> Results \cup {"due"}] : D \in SUBSET Destinations}]
    BY <2>1 DEF EventsInit
  <2>3. [at |-> "free", dest |-> {}, todo |-> {}, delivered |-> 0] \in HandlerStates
    BY DEF HandlerStates, Ended
  <2>4. asked \in 0..MaxAsked /\ subscriptions \subseteq Destinations
    BY EventsAssumption DEF EventsInit
  <2>5. handler \in [Handlers -> HandlerStates]
    BY <2>3 DEF EventsInit
  <2> QED  BY <2>2, <2>4, <2>5 DEF EventsTypeOK
<1>2. Table = {}
  BY DEF EventsInit, Table, Storing, At
<1>3. SubscriptionsBounded
  BY <1>1, <1>2, SizesAreNumbers, FS_EmptySet, EventsAssumption DEF SubscriptionsBounded, Table
<1> QED  BY <1>1, <1>3 DEF EventsInv

\* Whatever the number of threads and requests, the table holds at most MAX_SUBSCRIPTIONS
\* destinations and one more for every thread but one.
THEOREM EventsInvariant == EventsSpec => []EventsInv
<1>1. EventsInit => EventsInv
  BY EventsInvariantInit
<1>2. EventsInv /\ [EventsNext]_eventVars => EventsInv'
  BY StepKeepsTypes, StepKeepsBound DEF EventsInv
<1> QED  BY <1>1, <1>2, PTL DEF EventsSpec

-----------------------------------------------------------------------------
(* Delivery. *)

Due(h) == {d \in DOMAIN outcome[h] : outcome[h][d] = "due"}
Accepted(h) == {d \in DOMAIN outcome[h] : outcome[h][d] = "accepted"}

\* A thread in emit_event's loop still has the subscribers to serve that are due, and
\* has counted those who accepted.
Loop(h) == handler[h].todo = Due(h) /\ handler[h].delivered = Cardinality(Accepted(h))
LoopInv == EventsTypeOK /\ \A h \in Handlers : At(h, "deliver") => Loop(h)

\* What the two ways of moving a thread do to the threads.
LEMMA Moves ==
  ASSUME EventsTypeOK, NEW g \in Handlers
  PROVE  /\ \A place : Reach(g, place) => /\ handler'[g].at = place
                                         /\ \A h \in Handlers \ {g} : handler'[h] = handler[h]
         /\ \A r : Take(g, r) => /\ handler'[g] = r
                                /\ \A h \in Handlers \ {g} : handler'[h] = handler[h]
  BY DEF EventsTypeOK, HandlerStates, Reach, Take, Become

\* A turn of the loop serves one subscriber and counts it.
LEMMA Turn ==
  ASSUME LoopInv, NEW h \in Handlers, Deliver(h)
  PROVE  /\ \A d \in DOMAIN outcome[h] : outcome[h][d] # "due" => outcome'[h][d] = outcome[h][d]
         /\ DOMAIN outcome'[h] = DOMAIN outcome[h]
         /\ handler'[h].at \in {"deliver", "done"}
         /\ handler'[h].at = "done" => Due(h)' = {}
         /\ handler'[h].todo = Due(h)'
         /\ handler'[h].delivered = Cardinality(Accepted(h)')
         /\ \A g \in Handlers \ {h} : handler'[g] = handler[g] /\ outcome'[g] = outcome[g]
<1> USE DEF LoopInv
<1>1. PICK d \in handler[h].todo, result \in Results : Served(h, d, result, handler[h].todo \ {d})
  BY DEF Deliver
<1>2. At(h, "deliver") /\ d \in Due(h) /\ handler[h].todo = Due(h)
  BY <1>1 DEF Deliver, Loop
<1>3. PICK D \in SUBSET Destinations : outcome[h] \in [D -> Results \cup {"due"}]
  BY DEF EventsTypeOK
<1>4. DOMAIN outcome[h] = D /\ d \in D
  BY <1>2, <1>3 DEF Due
<1>5. outcome'[h] = [outcome[h] EXCEPT ![d] = result]
      /\ \A g \in Handlers \ {h} : outcome'[g] = outcome[g]
  BY <1>1 DEF Served, EventsTypeOK
<1>6. /\ outcome'[h][d] = result /\ DOMAIN outcome'[h] = D
      /\ \A e \in D \ {d} : outcome'[h][e] = outcome[h][e]
  BY <1>3, <1>4, <1>5
<1>7. result # "due"
  BY DEF Results
<1>8. Due(h)' = Due(h) \ {d}
  BY <1>4, <1>6, <1>7 DEF Due
<1>9. /\ handler'[h] = [at |-> IF handler[h].todo \ {d} = {} THEN "done" ELSE "deliver",
                        dest |-> {}, todo |-> handler[h].todo \ {d},
                        delivered |-> handler[h].delivered + IF result = "accepted" THEN 1 ELSE 0]
      /\ \A g \in Handlers \ {h} : handler'[g] = handler[g]
  BY <1>1 DEF Served, Become, EventsTypeOK
<1>10. handler'[h].delivered = Cardinality(Accepted(h)')
  <2>1. d \notin Accepted(h)
    BY <1>2 DEF Due, Accepted
  <2>2. Accepted(h) \in SUBSET Destinations
    BY <1>4 DEF Accepted
  <2>3. IsFiniteSet(Accepted(h)) /\ Cardinality(Accepted(h)) \in Nat
    BY <2>2, EventsAssumption, FS_Subset, FS_CardinalityType
  <2>4. Accepted(h)' = IF result = "accepted" THEN Accepted(h) \cup {d} ELSE Accepted(h)
    BY <1>4, <1>6, <2>1 DEF Accepted
  <2>5. Cardinality(Accepted(h) \cup {d}) = Cardinality(Accepted(h)) + 1
    BY <2>1, <2>3, FS_AddElement
  <2>6. handler'[h].delivered = Cardinality(Accepted(h)) + IF result = "accepted" THEN 1 ELSE 0
    BY <1>2, <1>9 DEF Loop
  <2> QED  BY <2>3, <2>4, <2>5, <2>6
<1>11. \A e \in DOMAIN outcome[h] : outcome[h][e] # "due" => outcome'[h][e] = outcome[h][e]
  BY <1>2, <1>4, <1>6 DEF Due
<1> QED  BY <1>2, <1>4, <1>6, <1>8, <1>9, <1>5, <1>10, <1>11

\* Other steps leave what a thread in the loop knows alone.
LEMMA OthersKeepLoop ==
  ASSUME LoopInv, EventsNext, NEW h \in Handlers, At(h, "deliver"), ~Deliver(h)
  PROVE  handler'[h] = handler[h] /\ outcome'[h] = outcome[h]
<1> USE DEF LoopInv, EventsTypeOK
<1>1. PICK g \in Handlers : EventStep(g) \/ EventAsk(g)
  BY DEF EventsNext
<1>2. CASE EventStep(g) /\ ~Deliver(g)
  BY <1>2 DEF EventStep, Resolve, CheckCap, Store, Find, Delete, Reach, Become, At
<1>3. CASE Deliver(g)
  BY <1>3, Turn
<1>4. CASE EventAsk(g)
  BY <1>4 DEF EventAsk, Subscribe, Unsubscribe, SubmitEvent, Take, Become, At, Ended
<1> QED  BY <1>1, <1>2, <1>3, <1>4

\* Each step keeps what the threads in the loop know.
LEMMA StepKeepsLoop == LoopInv /\ [EventsNext]_eventVars => LoopInv'
<1> SUFFICES ASSUME LoopInv, [EventsNext]_eventVars PROVE LoopInv'
  OBVIOUS
<1>1. EventsTypeOK'
  BY StepKeepsTypes DEF LoopInv
<1>2. ASSUME NEW h \in Handlers, At(h, "deliver")' PROVE Loop(h)'
  <2>1. CASE UNCHANGED eventVars
    BY <1>2, <2>1 DEF eventVars, LoopInv, At, Loop, Due, Accepted
  <2>2. CASE EventsNext /\ Deliver(h)
    BY <2>2, Turn DEF Loop
  <2>3. CASE EventsNext /\ ~Deliver(h) /\ At(h, "deliver")
    <3>1. handler'[h] = handler[h] /\ outcome'[h] = outcome[h]
      BY <2>3, OthersKeepLoop
    <3> QED  BY <2>3, <3>1 DEF LoopInv, Loop, Due, Accepted
  <2>4. CASE EventsNext /\ ~At(h, "deliver")
    <3>1. PICK g \in Handlers : EventStep(g) \/ EventAsk(g)
      BY <2>4 DEF EventsNext
    <3>2. CASE EventStep(g)
      <4>1. CASE Deliver(g)
        BY <4>1, <2>4, <1>2, Turn DEF At, Deliver
      <4>2. CASE ~Deliver(g)
        <5>1. \E place \in Places \ {"deliver"} : Reach(g, place)
          BY <3>2, <4>2 DEF EventStep, Resolve, CheckCap, Store, Find, Delete, Places, Ended
        <5> QED  BY <5>1, <2>4, <1>2, Moves DEF At, LoopInv
      <4> QED  BY <4>1, <4>2
    <3>3. CASE EventAsk(g)
      <4>1. PICK r : Take(g, r)
        BY <3>3 DEF EventAsk, Subscribe, Unsubscribe, SubmitEvent
      <4>2. g = h
        BY <4>1, <2>4, <1>2, Moves DEF At, LoopInv
      <4>3. ASSUME NEW d \in Destinations, Subscribe(g, d) \/ Unsubscribe(g, d) PROVE FALSE
        <5>1. handler[g] \in HandlerStates
          BY DEF LoopInv, EventsTypeOK
        <5> DEFINE to(place) == [handler[g] EXCEPT !.at = place, !.dest = {d}]
        <5>2. to("resolve").at # "deliver" /\ to("find").at # "deliver"
          BY <5>1 DEF HandlerStates
        <5>3. Take(g, to("resolve")) \/ Take(g, to("find"))
          BY <4>3 DEF Subscribe, Unsubscribe
        <5> HIDE DEF to
        <5>4. \E q : Take(g, q) /\ q.at # "deliver"
          BY <5>2, <5>3
        <5> QED  BY <5>4, <4>2, <1>2, Moves DEF At, LoopInv
      <4>4. SubmitEvent(g) /\ g = h /\ subscriptions # {}
        <5>1. SubmitEvent(g)
          BY <3>3, <4>3 DEF EventAsk
        <5> QED  BY <5>1, <4>2, <1>2, Moves DEF SubmitEvent, At, LoopInv
      <4>5. handler'[h].todo = subscriptions /\ handler'[h].delivered = 0
            /\ outcome'[h] = [d \in subscriptions |-> "due"]
        BY <4>4 DEF SubmitEvent, Take, Become, LoopInv, EventsTypeOK
      <4>6. Due(h)' = subscriptions /\ Accepted(h)' = {}
        BY <4>5 DEF Due, Accepted
      <4> QED  BY <4>5, <4>6, FS_EmptySet DEF Loop
    <3> QED  BY <3>1, <3>2, <3>3
  <2> QED  BY <2>1, <2>2, <2>3, <2>4
<1> QED  BY <1>1, <1>2 DEF LoopInv

\* Whoever fails, subscribes or leaves meanwhile: emit_event serves every subscriber
\* there was at its start once, and returns the number of those who accepted.
THEOREM EventDelivery == EventsSpec => EventReachesAll
<1>1. EventsInit => LoopInv
  BY EventsInvariantInit DEF LoopInv, EventsInv, EventsInit, At
<1>2. LoopInv /\ [EventsNext]_eventVars =>
        [\A h \in Handlers : At(h, "deliver") =>
           /\ \A d \in DOMAIN outcome[h] : outcome[h][d] # "due" => outcome'[h][d] = outcome[h][d]
           /\ handler'[h].at # "deliver" =>
                /\ \A d \in DOMAIN outcome[h] : outcome'[h][d] # "due"
                /\ handler'[h].delivered =
                     Cardinality({d \in DOMAIN outcome[h] : outcome'[h][d] = "accepted"})]_eventVars
  <2> SUFFICES ASSUME LoopInv, EventsNext, NEW h \in Handlers, At(h, "deliver")
               PROVE
           /\ \A d \in DOMAIN outcome[h] : outcome[h][d] # "due" => outcome'[h][d] = outcome[h][d]
           /\ handler'[h].at # "deliver" =>
                /\ \A d \in DOMAIN outcome[h] : outcome'[h][d] # "due"
                /\ handler'[h].delivered =
                     Cardinality({d \in DOMAIN outcome[h] : outcome'[h][d] = "accepted"})
    OBVIOUS
  <2>1. CASE Deliver(h)
    <3>1. \A d \in DOMAIN outcome[h] : outcome[h][d] # "due" => outcome'[h][d] = outcome[h][d]
      BY <2>1, Turn
    <3>2. handler'[h].at # "deliver" => \A d \in DOMAIN outcome[h] : outcome'[h][d] # "due"
      BY <2>1, Turn DEF Due
    <3>3. handler'[h].delivered = Cardinality({d \in DOMAIN outcome[h] : outcome'[h][d] = "accepted"})
      BY <2>1, Turn DEF Accepted
    <3> QED  BY <3>1, <3>2, <3>3
  <2>2. CASE ~Deliver(h)
    BY <2>2, OthersKeepLoop DEF At
  <2> QED  BY <2>1, <2>2
<1> QED  BY <1>1, <1>2, StepKeepsLoop, PTL DEF EventsSpec, EventReachesAll

-----------------------------------------------------------------------------

\* A destination that has its place in the table is never refused for want of one,
\* nor given a second.
THEOREM Resubscribe == EventsSpec => ResubscribeAllowed
<1>1. EventsTypeOK /\ [EventsNext]_eventVars =>
        [\A h \in Handlers : Known(h) =>
           /\ At(h, "check") => handler'[h].at # "full"
           /\ At(h, "store") /\ handler'[h].at = "done" => subscriptions' = subscriptions]_eventVars
  <2> SUFFICES ASSUME EventsTypeOK, EventsNext, NEW h \in Handlers, Known(h)
               PROVE  /\ At(h, "check") => handler'[h].at # "full"
                      /\ At(h, "store") /\ handler'[h].at = "done" => subscriptions' = subscriptions
    OBVIOUS
  <2>1. PICK g \in Handlers : EventStep(g) \/ EventAsk(g)
    BY DEF EventsNext
  <2>2. CASE g = h
    <3>1. CASE At(h, "check")
      <4>1. CheckCap(h)
        BY <2>1, <2>2, <3>1 DEF EventStep, Resolve, Store, Find, Delete, Deliver,
           EventAsk, Subscribe, Unsubscribe, SubmitEvent, Take, At, Ended
      <4> QED  BY <3>1, <4>1, Moves DEF CheckCap, At
    <3>2. CASE At(h, "store")
      <4>1. Store(h)
        BY <2>1, <2>2, <3>2 DEF EventStep, Resolve, CheckCap, Find, Delete, Deliver,
           EventAsk, Subscribe, Unsubscribe, SubmitEvent, Take, At, Ended
      <4> QED  BY <3>2, <4>1 DEF Store, Known, At
    <3> QED  BY <3>1, <3>2
  <2>3. CASE g # h
    <3>1. handler'[h] = handler[h]
      <4>1. CASE Deliver(g)
        BY <2>3, <4>1 DEF Deliver, Served, Become, EventsTypeOK
      <4>2. CASE ~Deliver(g)
        BY <2>1, <2>3, <4>2 DEF EventsTypeOK, EventStep, Resolve, CheckCap, Store, Find, Delete, Reach,
           Become, EventAsk, Subscribe, Unsubscribe, SubmitEvent, Take
      <4> QED  BY <4>1, <4>2
    <3> QED  BY <3>1 DEF At
  <2> QED  BY <2>2, <2>3
<1> QED  BY <1>1, EventsInvariant, PTL DEF EventsInv, EventsSpec, ResubscribeAllowed
===============================================================================
