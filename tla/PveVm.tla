-------------------------------- MODULE PveVm --------------------------------
(***************************************************************************)
(* The Proxmox VE side of one node, as far as the daemon can see it: the   *)
(* QEMU state of each VM and the asynchronous tasks that change it.  Every *)
(* status POST the daemon makes (start, stop, shutdown, ...) only queues a *)
(* task and returns its id; the task runs later, in no particular order    *)
(* with the other tasks of the VM.  Nothing here is code of the            *)
(* repository: it is modelled from how proxmox_redfish.py and hostops.py   *)
(* use the API.                                                            *)
(***************************************************************************)
CONSTANTS VMs, NoVm
ASSUME NoVmAssumption == NoVm \notin VMs

VARIABLES qmp,    \* qmp[v]: the qmpstatus of VM v
          tasks   \* tasks[v]: the kinds of task queued for v and not yet run

pveVars == <<qmp, tasks>>

QmpStates == {"stopped", "running", "paused"}
TaskKinds == {"start", "stop", "shutdown", "reboot", "reset", "suspend", "resume"}

PveTypeOK == /\ qmp \in [VMs -> QmpStates]
             /\ tasks \in [VMs -> SUBSET TaskKinds]

PveInit == /\ qmp \in [VMs -> {"stopped", "running"}]
           /\ tasks = [v \in VMs |-> {}]

\* A QEMU process exists: it holds the VM's disks, its varstore included, even
\* while the guest is paused.
Alive(v) == qmp[v] # "stopped"

\* POST .../status/<kind>: the task is queued, nothing else happens yet.
Post(v, kind) == tasks' = [tasks EXCEPT ![v] = @ \cup {kind}]

\* What a task does when it finally runs; one that does not apply (a start of a
\* live VM, a resume of a running one) ends in error and changes nothing.
AfterTask(v, kind) ==
  CASE kind = "start"    /\ qmp[v] = "stopped" -> "running"
    [] kind = "stop"                           -> "stopped"
    [] kind = "shutdown" /\ qmp[v] = "running" -> "stopped"
    [] kind = "reboot"   /\ qmp[v] = "running" -> "stopped"
    [] kind = "suspend"  /\ qmp[v] = "running" -> "paused"
    [] kind = "resume"   /\ qmp[v] = "paused"  -> "running"
    [] OTHER                                   -> qmp[v]

\* A queued task runs. A reboot shuts the guest down and queues its restart.
RunTask(v) ==
  \E kind \in tasks[v] :
     /\ qmp' = [qmp EXCEPT ![v] = AfterTask(v, kind)]
     /\ tasks' = [tasks EXCEPT ![v] =
                    (@ \ {kind}) \cup
                    (IF kind = "reboot" /\ qmp[v] = "running" THEN {"start"} ELSE {})]

\* A guest ignores a shutdown or reboot request until the task times out.
TaskTimesOut(v) ==
  /\ \E kind \in tasks[v] \cap {"shutdown", "reboot"} :
        tasks' = [tasks EXCEPT ![v] = @ \ {kind}]
  /\ UNCHANGED qmp

\* What PVE's VMs may do when only tasks of these kinds are ever posted.
PveNext(kinds) ==
  \E v \in VMs : \/ RunTask(v) \/ TaskTimesOut(v)
                \/ \E kind \in kinds : Post(v, kind) /\ UNCHANGED qmp

PveSpec(kinds) == PveInit /\ [][PveNext(kinds)]_pveVars
=============================================================================
