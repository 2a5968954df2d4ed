----------------------------- MODULE MCWritePath -----------------------------
(***************************************************************************)
(* Small instances of SecureBoot for TLC's two passing runs.  What can     *)
(* happen around the write path is too much for one instance, so each      *)
(* behaviour has a focus, which says who asks for what and which of the    *)
(* surroundings move:                                                      *)
(*   "faults"   two threads, one VM, and everything that can fail;         *)
(*   "builds"   two threads that build images of two certificates into one  *)
(*              VM's file;                                                 *)
(*   "edits"    two threads, two VMs, and efidisk0 settings that change;   *)
(*   "alone"    the one thread of the shipped daemon, for which more is    *)
(*              claimed;                                                   *)
(*   "waiting"  two threads that wait for one lock, the second one with    *)
(*              requests that are refused when it has the lock.            *)
(***************************************************************************)
EXTENDS MCSecureBoot

CONSTANT Focuses

VARIABLE focus

FocusInit ==
  /\ Init
  /\ focus \in Focuses
  /\ focus # "edits" => /\ \A v \in VMs : efiConf[v] \in FixedConfs[v]
                        /\ \A v \in VMs \ {v1} : qmp[v] = "stopped"

\* The VMs that are looked at, what each thread is asked for, and the image an operator
\* replaces.
InFocus == IF focus = "edits" THEN VMs ELSE {v1}

IntentsOf(w) ==
  CASE focus \in {"faults", "edits"} -> {"SecureBootEnable:true", "SecureBootEnable:false"}
    [] focus = "builds"  -> {"SecureBootEnable:true"}
    [] focus = "alone"   -> IF w = w1 THEN Intents \ {"ResetKeysToDefault"} ELSE {}
    [] focus = "waiting" -> IF w = w1 THEN {"SecureBootEnable:true"} ELSE {"ResetKeysToDefault"}

CertsOf(w) ==
  CASE focus = "builds" -> {pk, db}
    [] focus = "faults" \/ (focus = "alone" /\ w = w1) -> {pk}
    [] OTHER -> {}

Replaced == CASE focus = "faults" -> {on}
              [] focus = "alone"  -> {off}
              [] OTHER            -> {}

FocusAsk(w) ==
  \E v \in InFocus :
    \/ \E intent \in IntentsOf(w) : Receive(w, v, intent)
    \/ \E c \in CertsOf(w) : AddCert(w, v, c) \/ DeleteCert(w, v, c) \/ ResetDatabase(w, v, DbOf[c])

FocusSurroundings ==
  \/ \E v \in InFocus : Pve(v) \/ GuestWrites(v)
  \/ focus \in {"faults", "alone"} /\ PowerRequest(v1)
  \/ focus = "edits" /\ \E v \in VMs : Reconfigure(v)
  \/ \E p \in Replaced : ReplaceImage(p)

FocusNext == /\ (\E w \in Workers : FocusAsk(w) \/ Step(w)) \/ Crash \/ FocusSurroundings
             /\ UNCHANGED focus

\* Safety, whatever else PVE's users do; and what is claimed where they heed the lock.
FocusSpec == FocusInit /\ [][FocusNext]_<<vars, focus>>
FocusBlockingSpec ==
  /\ FocusInit /\ [][FocusNext /\ PowerOnBlocked]_<<vars, focus>>
  /\ \A w \in Workers : WF_<<vars, focus>>(Step(w) /\ UNCHANGED focus)
=============================================================================
