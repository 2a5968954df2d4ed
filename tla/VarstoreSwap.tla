---------------------------- MODULE VarstoreSwap ----------------------------
(***************************************************************************)
(* What the Secure Boot write path promises, without how.  A VM's varstore *)
(* is swapped in a session one thread at a time may have.  In a session    *)
(* the VM's own volumes may change, and their content may be confirmed;    *)
(* what is later claimed of the VM is a content so confirmed.  Outside a   *)
(* session only the guest writes a volume.                                 *)
(***************************************************************************)
CONSTANTS VMs, Threads, NoThread, Volumes, VolumeVm, Contents, NoContent, GuestVars

VARIABLES store,      \* store[d]: the content of volume d
          holder,     \* holder[v]: the thread in a session on v
          confirmed,  \* confirmed[v]: the contents confirmed on v's volumes
          claim       \* claim[v]: what is claimed of v, NoContent for nothing

svars == <<store, holder, confirmed, claim>>

Init == /\ store = [d \in Volumes |-> GuestVars]
        /\ holder = [v \in VMs |-> NoThread]
        /\ confirmed = [v \in VMs |-> {}]
        /\ claim = [v \in VMs |-> NoContent]

Own(v) == {d \in Volumes : VolumeVm[d] = v}

Open(v, t) == /\ holder[v] = NoThread
              /\ holder' = [holder EXCEPT ![v] = t]
              /\ UNCHANGED <<store, confirmed, claim>>

\* Sessions end, all of them when the daemon dies.
Close(S) == /\ holder' = [v \in VMs |-> IF v \in S THEN NoThread ELSE holder[v]]
            /\ UNCHANGED <<store, confirmed, claim>>

Change(v) == /\ holder[v] # NoThread
             /\ \E d \in Own(v), c \in Contents : store' = [store EXCEPT ![d] = c]
             /\ UNCHANGED <<holder, confirmed, claim>>

Confirm(v) == /\ holder[v] # NoThread
              /\ \E d \in Own(v) : confirmed' = [confirmed EXCEPT ![v] = @ \cup {store[d]}]
              /\ UNCHANGED <<store, holder, claim>>

Claim(v) == /\ \E c \in confirmed[v] \cup {NoContent} : claim' = [claim EXCEPT ![v] = c]
            /\ UNCHANGED <<store, holder, confirmed>>

GuestWrites == /\ \E d \in Volumes : store' = [store EXCEPT ![d] = GuestVars]
               /\ UNCHANGED <<holder, confirmed, claim>>

Next == \/ \E v \in VMs : (\E t \in Threads : Open(v, t)) \/ Change(v) \/ Confirm(v) \/ Claim(v)
        \/ \E S \in SUBSET VMs : Close(S)
        \/ GuestWrites

Spec == Init /\ [][Next]_svars
=============================================================================
