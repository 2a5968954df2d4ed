------------------------------ MODULE MCServices ------------------------------
(***************************************************************************)
(* Small instances for TLC of the daemon's services beside the VM          *)
(* requests: the session store, event subscriptions, serial capture and    *)
(* log shipping.  They share no variable, so one is looked at at a time.   *)
(***************************************************************************)
EXTENDS Sessions, EventService, SerialCapture, LokiHandler

CONSTANTS w1, w2, t1, t2, t3, a, b, k1, k2

\* Tokens are drawn at random and users are alike; what is claimed of sessions is safety.
Interchangeable == Permutations({t1, t2, t3}) \cup Permutations({a, b})

VARIABLE part  \* the service looked at

servicesVars == <<vars, eventVars, serialVars, lokiVars, part>>

ServicesInit == /\ Init /\ EventsInit /\ SerialInit /\ LokiInit
                /\ part \in {"sessions", "events", "serial", "logging"}
                /\ part # "serial" => socket = [p \in Ports |-> "accepts"]

SessionsStep == /\ part = "sessions" /\ Next
                /\ UNCHANGED <<eventVars, serialVars, lokiVars, part>>
EventsStep == /\ part = "events" /\ EventsNext
              /\ UNCHANGED <<vars, serialVars, lokiVars, part>>
SerialStep == /\ part = "serial" /\ SerialNext
              /\ UNCHANGED <<vars, eventVars, lokiVars, part>>
LokiStep == /\ part = "logging" /\ LokiNext
            /\ UNCHANGED <<vars, eventVars, serialVars, part>>

ServicesNext == SessionsStep \/ EventsStep \/ SerialStep \/ LokiStep

\* Fairness is of each service's own steps, where it is the one looked at.
ServicesSpec == /\ ServicesInit /\ [][ServicesNext]_servicesVars
                /\ SerialFairness
                /\ \A t \in Loggers : WF_lokiVars(Emit(t))
                /\ WF_lokiVars(part = "logging" /\ Flush) /\ WF_lokiVars(End)
=============================================================================
