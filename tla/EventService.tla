------------------------------ MODULE EventService ------------------------------
(***************************************************************************)
(* Event subscriptions and the delivery of an event to all of them.  The   *)
(* table is a dictionary that all request threads share without a lock;    *)
(* each step is one access to it, one resolution of a destination's host   *)
(* or one POST to a receiver.  A subscription is its destination: its id   *)
(* is the destination's hash, and nothing depends on its Context.          *)
(***************************************************************************)
EXTENDS Naturals, FiniteSets

CONSTANTS
  Handlers,           \* request threads (the shipped daemon runs one)
  Destinations,
  MAX_SUBSCRIPTIONS,  \* REDFISH_MAX_SUBSCRIPTIONS
  MaxAsked            \* bound: how many requests are received in all

ASSUME EventsAssumption ==
  /\ IsFiniteSet(Handlers) /\ Handlers # {}
  /\ IsFiniteSet(Destinations)
  /\ MAX_SUBSCRIPTIONS \in Nat /\ MaxAsked \in Nat

VARIABLES
  subscriptions, \* the destinations subscribed
  handler,       \* handler[h]: where a thread is, and what it knows of its request
  outcome,       \* history: what became of the last event h delivered, per subscriber
  asked          \* how many requests have been received

eventVars == <<subscriptions, handler, outcome, asked>>

Ended == {"free", "done", "full", "unknown", "invalid", "died"}
Results == {"accepted", "failed", "skipped"}

\* A request is for the destinations in "dest" (one, or none); todo is the part of
\* emit_event's copy of the table that is still to be served.
HandlerStates == [at : Ended \cup {"resolve", "check", "store", "find", "delete", "deliver"},
                  dest : {{}} \cup {{d} : d \in Destinations},
                  todo : SUBSET Destinations, delivered : Nat]

EventsTypeOK ==
  /\ subscriptions \subseteq Destinations
  /\ handler \in [Handlers -> HandlerStates]
  /\ outcome \in [Handlers -> UNION {[D -> Results \cup {"due"}] : D \in SUBSET Destinations}]
  /\ asked \in 0..MaxAsked

EventsInit ==
  /\ subscriptions = {}
  /\ handler = [h \in Handlers |-> [at |-> "free", dest |-> {}, todo |-> {}, delivered |-> 0]]
  /\ outcome = [h \in Handlers |-> [d \in {} |-> "due"]]
  /\ asked = 0

-----------------------------------------------------------------------------
Become(h, r) == handler' = [handler EXCEPT ![h] = r]
Reach(h, place) == Become(h, [handler[h] EXCEPT !.at = place])
At(h, place) == handler[h].at = place
Known(h) == handler[h].dest \subseteq subscriptions

\* A thread takes up a request.
Take(h, r) ==
  /\ handler[h].at \in Ended
  /\ asked < MaxAsked
  /\ asked' = asked + 1
  /\ Become(h, r)

-----------------------------------------------------------------------------
(* create_subscription, delete_subscription. *)

Subscribe(h, d) ==
  /\ Take(h, [handler[h] EXCEPT !.at = "resolve", !.dest = {d}])
  /\ UNCHANGED <<subscriptions, outcome>>

\* validate_event_destination resolves the host; then the Protocol is looked at.
Resolve(h) ==
  /\ At(h, "resolve")
  /\ \E place \in {"check", "invalid"} : Reach(h, place)
  /\ UNCHANGED <<subscriptions, outcome, asked>>

\* Mutant: the cap is compared with >.
CheckCap_OneMore(h) ==
  /\ At(h, "check")
  /\ Reach(h, IF ~Known(h) /\ Cardinality(subscriptions) > MAX_SUBSCRIPTIONS THEN "full" ELSE "store")
  /\ UNCHANGED <<subscriptions, outcome, asked>>

\* Mutant: a full table refuses known destinations too.
CheckCap_RefusesAll(h) ==
  /\ At(h, "check")
  /\ Reach(h, IF Cardinality(subscriptions) >= MAX_SUBSCRIPTIONS THEN "full" ELSE "store")
  /\ UNCHANGED <<subscriptions, outcome, asked>>

CheckCap(h) ==
  /\ At(h, "check")
  /\ Reach(h, IF ~Known(h) /\ Cardinality(subscriptions) >= MAX_SUBSCRIPTIONS THEN "full" ELSE "store")
  /\ UNCHANGED <<subscriptions, outcome, asked>>

Store(h) ==
  /\ At(h, "store")
  /\ subscriptions' = subscriptions \cup handler[h].dest
  /\ Reach(h, "done")
  /\ UNCHANGED <<outcome, asked>>

Unsubscribe(h, d) ==
  /\ Take(h, [handler[h] EXCEPT !.at = "find", !.dest = {d}])
  /\ UNCHANGED <<subscriptions, outcome>>

Find(h) ==
  /\ At(h, "find")
  /\ Reach(h, IF Known(h) THEN "delete" ELSE "unknown")
  /\ UNCHANGED <<subscriptions, outcome, asked>>

\* If another thread was faster, del raises, and do_DELETE does not catch it.
Delete(h) ==
  /\ At(h, "delete")
  /\ Reach(h, IF Known(h) THEN "done" ELSE "died")
  /\ subscriptions' = subscriptions \ handler[h].dest
  /\ UNCHANGED <<outcome, asked>>

-----------------------------------------------------------------------------
(* submit_test_event, emit_event. *)

\* The loop runs over a copy of the table.
SubmitEvent(h) ==
  /\ Take(h, [at |-> IF subscriptions = {} THEN "done" ELSE "deliver",
              dest |-> {}, todo |-> subscriptions, delivered |-> 0])
  /\ outcome' = [outcome EXCEPT ![h] = [d \in subscriptions |-> "due"]]
  /\ UNCHANGED subscriptions

\* d's turn ends with a result; rest is what the loop still has to do.
Served(h, d, result, rest) ==
  /\ Become(h, [at |-> IF rest = {} THEN "done" ELSE "deliver", dest |-> {}, todo |-> rest,
                delivered |-> handler[h].delivered + IF result = "accepted" THEN 1 ELSE 0])
  /\ outcome' = [outcome EXCEPT ![h][d] = result]
  /\ UNCHANGED <<subscriptions, asked>>

\* Mutant: the loop runs over the table itself, not over a copy.
Deliver_FromTable(h) ==
  /\ At(h, "deliver")
  /\ \E d \in handler[h].todo, result \in Results :
       Served(h, d, result, (handler[h].todo \ {d}) \cap subscriptions)

\* The destination is resolved once more, and skipped if it is no longer allowed; else
\* it is sent the event: accepted with 2xx, or another status or an exception.
Deliver(h) ==
  /\ At(h, "deliver")
  /\ \E d \in handler[h].todo, result \in Results :
       Served(h, d, result, handler[h].todo \ {d})

-----------------------------------------------------------------------------
EventStep(h) == \/ Resolve(h) \/ CheckCap(h) \/ Store(h)
                \/ Find(h) \/ Delete(h) \/ Deliver(h)

EventAsk(h) == \/ \E d \in Destinations : Subscribe(h, d) \/ Unsubscribe(h, d)
               \/ SubmitEvent(h)

EventsNext == \E h \in Handlers : EventStep(h) \/ EventAsk(h)

EventsSpec == EventsInit /\ [][EventsNext]_eventVars

-----------------------------------------------------------------------------
(* Properties. *)

\* The destinations threads are about to store.
Storing == UNION {handler[h].dest : h \in {g \in Handlers : At(g, "store")}}

\* "Bound the store": the check and the store are two steps, so each thread but one
\* may have passed the check when the table fills up. It holds at most that many
\* above MAX_SUBSCRIPTIONS: none in the shipped daemon.
SubscriptionsBounded ==
  Cardinality(subscriptions \cup Storing) <= MAX_SUBSCRIPTIONS + Cardinality(Handlers) - 1

EventsInv == EventsTypeOK /\ SubscriptionsBounded

\* "re-subscribing an existing destination is idempotent and always allowed": also
\* when the table is full, and it takes no second place in it.
ResubscribeAllowed ==
  [][\A h \in Handlers : Known(h) =>
        /\ At(h, "check") => handler'[h].at # "full"
        /\ At(h, "store") /\ handler'[h].at = "done" => subscriptions' = subscriptions]_eventVars

\* emit_event, "to every subscription", best effort: when it returns, each subscriber
\* there was at its start has been served, once, whoever failed before it and whoever
\* subscribed or left meanwhile, and the number returned is that of those who accepted.
EventReachesAll ==
  [][\A h \in Handlers : At(h, "deliver") =>
        /\ \A d \in DOMAIN outcome[h] : outcome[h][d] # "due" => outcome'[h][d] = outcome[h][d]
        /\ handler'[h].at # "deliver" =>
             /\ \A d \in DOMAIN outcome[h] : outcome'[h][d] # "due"
             /\ handler'[h].delivered = Cardinality({d \in DOMAIN outcome[h] : outcome'[h][d] = "accepted"})]_eventVars
=============================================================================
