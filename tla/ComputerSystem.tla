---------------------------- MODULE ComputerSystem ----------------------------
(***************************************************************************)
(* The requests on a ComputerSystem other than Secure Boot: GET and Reset, *)
(* the boot override and firmware mode of PATCH, with and without          *)
(* If-Match, InsertMedia, EjectMedia and UpdateConfig, as                  *)
(* proxmox_redfish.py handles them.  A status or config POST to PVE only   *)
(* queues a task and the client gets 202 at once; a config PUT (set) is    *)
(* done when it returns.                                                   *)
(*                                                                         *)
(* Each step is one call of the PVE API, or one step of the ISO store.     *)
(***************************************************************************)
EXTENDS Naturals, SequencesExt, PveVm, IsoStore

CONSTANTS
  Devices,      \* the device keys of VM configurations
  Hardware,     \* the sets of devices, each with its kind, a VM may have
  BootOrders,   \* the boot orders a VM may start with, or a client may set itself
  LocalIsos,    \* the store's files clients name directly
  Resets,       \* the ResetTypes clients ask for
  Targets,      \* the BootSourceOverrideTargets clients ask for
  Modes,        \* the firmware modes clients ask for
  AutoEfidisk,  \* REDFISH_AUTO_EFIDISK=1
  NoMedia,
  Faults,       \* "pve": a PVE call raises or a task fails; "crash": the daemon dies
  MaxRequests   \* bound: how many requests are received in all

Kinds == {"disk", "cdrom", "nic"}

\* The keys that reorder_boot_order looks for.
Drives == <<"scsi0", "scsi1", "scsi2", "scsi3", "sata0", "sata1", "sata2", "sata3",
            "ide0", "ide1", "ide2", "ide3">>
Nics == <<"net0", "net1", "net2", "net3">>

\* A VM's devices: a netN is a NIC, a drive is not.
WellFormed(hw) ==
  /\ DOMAIN hw \subseteq Devices
  /\ \A d \in DOMAIN hw : /\ hw[d] \in Kinds
                          /\ d \in ToSet(Nics) => hw[d] = "nic"
                          /\ d \in ToSet(Drives) => hw[d] # "nic"

ASSUME SystemAssumption ==
  /\ \A h \in Hardware : WellFormed(h)
  /\ BootOrders \subseteq Seq(Devices)
  /\ Drives \in Seq(Devices) /\ Nics \in Seq(Devices) /\ "ide2" \in Devices
  /\ LocalIsos \subseteq Names /\ NoMedia \notin Names
  /\ Modes \subseteq {"seabios", "ovmf"}
  /\ AutoEfidisk \in BOOLEAN
  /\ MaxRequests \in Nat

VARIABLES
  config,   \* config[v]: v's devices, medium, boot order, firmware, EFI disks allocated
  updates,  \* updates[v]: the queued configuration tasks
  pc, req,  \* where each worker is, and what it remembers of its request
  seen,     \* seen[v]: the ETag of the last GET of v, which clients put in If-Match
  received  \* how many requests have been received

vars == <<pveVars, isoVars, config, updates, pc, req, seen, received>>

\* A worker between requests: answered 2xx, answered with an error, or dropped
\* by an exception that do_PATCH does not catch.
Done == {"ready", "accepted", "refused", "dropped"}
Steps == {"power", "represent", "stop", "start", "status", "boot", "devices", "order", "mode",
          "efidisk", "create", "fetch", "mount", "first"}

\* What of a System's representation can change, the ETag being its hash.
Tags == [on : BOOLEAN, boot : Seq(Devices), bios : {"seabios", "ovmf"}]
NoTag == [on |-> FALSE, boot |-> <<>>, bios |-> "none"]

Requests == [kind : {"none", "get", "reset", "cycle", "boot", "mode", "insert", "eject", "update"},
             vm : VMs \cup {NoVm}, target : Targets \cup Modes \cup {"none"},
             boot : Seq(Devices), order : Seq(Devices), image : Names \cup {NoMedia},
             match : Tags \cup {NoTag}, on : BOOLEAN]
NoRequest == [kind |-> "none", vm |-> NoVm, target |-> "none",
              boot |-> <<>>, order |-> <<>>, image |-> NoMedia, match |-> NoTag, on |-> FALSE]

SystemTypeOK ==
  /\ PveTypeOK /\ IsoTypeOK
  /\ \A v \in VMs : /\ WellFormed(config[v].hw)
                    /\ config[v].ide2 \in Names \cup {NoMedia}
                    /\ config[v].boot \in Seq(Devices)
                    /\ config[v].bios \in {"seabios", "ovmf"} /\ config[v].efidisks \in Nat
                    /\ updates[v].boot \subseteq Seq(Devices)
                    /\ updates[v].ide2 \subseteq Names \cup {NoMedia}
                    /\ seen[v] \in Tags \cup {NoTag}
  /\ pc \in [Workers -> Done \cup Steps]
  /\ req \in [Workers -> Requests]
  /\ \A w \in Workers : pc[w] \notin Done => req[w].vm \in VMs
  /\ \A w \in Workers : fetch[w].at # "idle" => pc[w] = "fetch"

Init ==
  /\ PveInit /\ IsoInit
  /\ config \in [VMs -> [hw : Hardware, ide2 : {NoMedia}, boot : BootOrders,
                         bios : {"seabios"}, efidisks : {0, 1}]]
  /\ updates = [v \in VMs |-> [boot |-> {}, ide2 |-> {}]]
  /\ pc = [w \in Workers |-> "ready"]
  /\ req = [w \in Workers |-> NoRequest]
  /\ seen = [v \in VMs |-> NoTag]
  /\ received = 0

-----------------------------------------------------------------------------
(* reorder_boot_order. *)

\* The members of s at the places in I, in their order: the k-th is at the place up to
\* which there are k.
Pick[s \in Seq(Devices)] ==
  [I \in SUBSET Nat |->
     [k \in 1..Cardinality(I) |-> s[CHOOSE i \in I : Cardinality({j \in I : j <= i}) = k]]]

Within(s, T) == Pick[s][{i \in DOMAIN s : s[i] \in T}]

\* list(dict.fromkeys(s)): each member at its first place.
Distinct[s \in Seq(Devices)] == Pick[s][{i \in DOMAIN s : \A j \in 1..(i - 1) : s[j] # s[i]}]

FirstOf[s \in Seq(Devices)] == IF s = <<>> THEN s ELSE <<Head(s)>>
LastOf[s \in Seq(Devices)] == IF s = <<>> THEN s ELSE <<Last(s)>>

Disks(hw) == Within(Drives, {d \in DOMAIN hw : hw[d] # "cdrom"})
CdDrive(hw) == LastOf[Within(Drives, {d \in DOMAIN hw : hw[d] = "cdrom"})]
Nic(hw) == FirstOf[Within(Nics, DOMAIN hw)]

\* The device a target stands for, as a sequence of one, or of none if the VM has
\* no such device or the target is no known one.
TargetDevice(hw, target) ==
  CASE target = "Pxe" -> Nic(hw)
    [] target = "Cd"  -> CdDrive(hw)
    [] target = "Hdd" -> FirstOf[Disks(hw)]
    [] OTHER          -> <<>>

\* The devices the override looks for: the disks, the last CD drive, the first NIC.
Recognised(hw) == Disks(hw) \o CdDrive(hw) \o Nic(hw)

\* PVE's value reads "order=scsi0;ide2;net0" and is split at the semicolons: its
\* first part, "order=scsi0", is the name of no device.
Parsed(boot) == IF boot = <<>> THEN <<>> ELSE Tail(boot)
Listed(hw, boot) == Within(Parsed(boot), DOMAIN hw)

\* Mutant: the devices that the order does not list are not added.
Reorder_ListedOnly(hw, boot, target) == Distinct[TargetDevice(hw, target) \o Listed(hw, boot)]

\* The target, what was listed, then what was not; each once, at its first place.
Reorder(hw, boot, target) ==
  Distinct[TargetDevice(hw, target) \o Listed(hw, boot) \o Recognised(hw)]

-----------------------------------------------------------------------------
Goto(w, label) == pc' = [pc EXCEPT ![w] = label]
Vm(w) == req[w].vm
Advance(w, label, r) == Goto(w, label) /\ req' = [req EXCEPT ![w] = r]

PostBoot(v, order) == updates' = [updates EXCEPT ![v].boot = @ \cup {order}]
PostIde2(v, medium) == updates' = [updates EXCEPT ![v].ide2 = @ \cup {medium}]

\* A thread takes up a request.
Receive(w, label, r) ==
  /\ pc[w] \in Done
  /\ received < MaxRequests
  /\ received' = received + 1
  /\ Advance(w, label, r)

New(kind, v) == [NoRequest EXCEPT !.kind = kind, !.vm = v]

-----------------------------------------------------------------------------
(* GET System, and If-Match: a PATCH of the System that carries a tag begins *)
(* with the reads of a GET and goes on only if the tags agree.               *)

\* PATCH ... If-Match with the last tag clients got, or without ("*" is as none).
Condition(v, conditional) == IF conditional /\ seen[v] # NoTag THEN seen[v] ELSE NoTag

\* Where a PATCH of the System begins.
Begin(tag, label) == IF tag = NoTag THEN label ELSE "power"

GetSystem(w, v) ==
  /\ Receive(w, "power", New("get", v))
  /\ UNCHANGED <<pveVars, isoVars, config, updates, seen>>

\* get_vm_status, first read: PVE's status, "running" also for a paused VM ...
ReadPower(w) ==
  /\ pc[w] = "power"
  /\ Advance(w, "represent", [req[w] EXCEPT !.on = Alive(Vm(w))])
  /\ UNCHANGED <<pveVars, isoVars, config, updates, received, seen>>

Representation(w) == [on |-> req[w].on, boot |-> config[Vm(w)].boot, bios |-> config[Vm(w)].bios]

\* Mutant: the tags are not compared.
Represent_AnyTag(w) ==
  /\ pc[w] = "represent"
  /\ Goto(w, CASE req[w].kind = "get"  -> "accepted"
               [] req[w].kind = "boot" -> "status"
               [] req[w].kind = "mode" -> "mode")
  /\ seen' = IF req[w].kind = "get" THEN [seen EXCEPT ![Vm(w)] = Representation(w)] ELSE seen
  /\ UNCHANGED <<pveVars, isoVars, config, updates, req, received>>

\* ... second read: the configuration. A GET answers with the tag; a PATCH compares.
Represent(w) ==
  /\ pc[w] = "represent"
  /\ LET agree == req[w].match = Representation(w) IN
     Goto(w, CASE req[w].kind = "get"              -> "accepted"
               [] req[w].kind = "boot" /\ agree    -> "status"
               [] req[w].kind = "mode" /\ agree    -> "mode"
               [] req[w].kind # "get" /\ ~agree    -> "refused")
  /\ seen' = IF req[w].kind = "get" THEN [seen EXCEPT ![Vm(w)] = Representation(w)] ELSE seen
  /\ UNCHANGED <<pveVars, isoVars, config, updates, req, received>>

-----------------------------------------------------------------------------
(* POST Actions/ComputerSystem.Reset. *)

ResetTask == [On |-> "start", GracefulShutdown |-> "shutdown", ForceOff |-> "stop",
              GracefulRestart |-> "reboot", ForceRestart |-> "reset", Nmi |-> "reset",
              Pause |-> "suspend", Resume |-> "resume"]

Reset(w, v, type) ==
  /\ type \in DOMAIN ResetTask
  /\ Receive(w, "accepted", New("reset", v))
  /\ Post(v, ResetTask[type])
  /\ UNCHANGED <<qmp, isoVars, config, updates, seen>>

\* power_cycle: PVE's status is "running" for a paused VM too.
PowerCycle(w, v) ==
  /\ "PowerCycle" \in Resets
  /\ Receive(w, IF Alive(v) THEN "stop" ELSE "start", New("cycle", v))
  /\ UNCHANGED <<pveVars, isoVars, config, updates, seen>>

CycleStop(w) ==
  /\ pc[w] = "stop"
  /\ Post(Vm(w), "stop")
  /\ Goto(w, "start")
  /\ UNCHANGED <<qmp, isoVars, config, updates, req, received, seen>>

\* The start is posted at once, whether or not the VM has stopped.
CycleStart(w) ==
  /\ pc[w] = "start"
  /\ Post(Vm(w), "start")
  /\ Goto(w, "accepted")
  /\ UNCHANGED <<qmp, isoVars, config, updates, req, received, seen>>

-----------------------------------------------------------------------------
(* PATCH Boot: an unsupported target gets a 400 that is then overwritten. *)

AskBoot(w, v, target, conditional) ==
  /\ LET tag == Condition(v, conditional) IN
     Receive(w, Begin(tag, "status"), [New("boot", v) EXCEPT !.target = target, !.match = tag])
  /\ UNCHANGED <<pveVars, isoVars, config, updates, seen>>

\* The VM's status is read, only to be logged.
ReadStatus(w) ==
  /\ pc[w] = "status"
  /\ Goto(w, "boot")
  /\ UNCHANGED <<pveVars, isoVars, config, updates, req, received, seen>>

ReadBoot(w) ==
  /\ pc[w] = "boot"
  /\ Advance(w, "devices", [req[w] EXCEPT !.boot = config[Vm(w)].boot])
  /\ UNCHANGED <<pveVars, isoVars, config, updates, received, seen>>

\* The configuration is read a second time, for the devices.
ReadDevices(w) ==
  /\ pc[w] = "devices"
  /\ LET hw == config[Vm(w)].hw IN
     IF req[w].target \in {"Pxe", "Cd", "Hdd"} /\ TargetDevice(hw, req[w].target) = <<>>
       THEN Goto(w, "refused") /\ UNCHANGED req
       ELSE Advance(w, "order", [req[w] EXCEPT !.order = Reorder(hw, req[w].boot, req[w].target)])
  /\ UNCHANGED <<pveVars, isoVars, config, updates, received, seen>>

SetOrder(w) ==
  /\ pc[w] = "order"
  /\ PostBoot(Vm(w), req[w].order)
  /\ Goto(w, "accepted")
  /\ UNCHANGED <<pveVars, isoVars, config, req, received, seen>>

-----------------------------------------------------------------------------
(* PATCH Bios FirmwareMode, and Boot.BootSourceOverrideMode, which stands in  *)
(* for it but provisions no EFI disk. Only the latter heeds If-Match: a Bios  *)
(* resource has no tag to compare with.                                       *)

AskMode(w, v, mode, conditional) ==
  /\ LET tag == Condition(v, conditional) IN
     Receive(w, Begin(tag, "mode"), [New("mode", v) EXCEPT !.target = mode, !.match = tag])
  /\ UNCHANGED <<pveVars, isoVars, config, updates, seen>>

\* Mutant: the Redfish name of the mode is stored, not PVE's.
SetMode_RedfishName(w) ==
  /\ pc[w] = "mode"
  /\ config' = [config EXCEPT ![Vm(w)].bios = IF req[w].target = "ovmf" THEN "UEFI" ELSE "Legacy"]
  /\ Goto(w, "accepted")
  /\ UNCHANGED <<pveVars, isoVars, updates, req, received, seen>>

SetMode(w) ==
  /\ pc[w] = "mode"
  /\ config' = [config EXCEPT ![Vm(w)].bios = req[w].target]
  /\ Goto(w, "accepted")
  /\ UNCHANGED <<pveVars, isoVars, updates, req, received, seen>>

SetFirmwareMode(w, v, mode) ==
  /\ Receive(w, IF mode = "ovmf" THEN "efidisk" ELSE "accepted", New("mode", v))
  /\ config' = [config EXCEPT ![v].bios = mode]
  /\ UNCHANGED <<pveVars, isoVars, updates, seen>>

\* Mutant: an EFI disk is created whether or not there is one.
ReadEfidisk_Always(w) ==
  /\ pc[w] = "efidisk"
  /\ Goto(w, IF AutoEfidisk THEN "create" ELSE "accepted")
  /\ UNCHANGED <<pveVars, isoVars, config, updates, req, received, seen>>

\* ensure_efidisk
ReadEfidisk(w) ==
  /\ pc[w] = "efidisk"
  /\ Goto(w, IF config[Vm(w)].efidisks > 0 \/ ~AutoEfidisk THEN "accepted" ELSE "create")
  /\ UNCHANGED <<pveVars, isoVars, config, updates, req, received, seen>>

\* The new volume becomes efidisk0, whatever was.
CreateEfidisk(w) ==
  /\ pc[w] = "create"
  /\ config' = [config EXCEPT ![Vm(w)].efidisks = @ + 1]
  /\ Goto(w, "accepted")
  /\ UNCHANGED <<pveVars, isoVars, updates, req, received, seen>>

-----------------------------------------------------------------------------
(* Virtual media, and UpdateConfig, which passes its body on to PVE. *)

InsertLocal(w, v, name) ==
  /\ Receive(w, "mount", [New("insert", v) EXCEPT !.image = name])
  /\ UNCHANGED <<pveVars, isoVars, config, updates, seen>>

InsertUrl(w, v, u) ==
  /\ Receive(w, "fetch", New("insert", v))
  /\ Fetch(w, u)
  /\ UNCHANGED <<pveVars, config, updates, seen>>

Fetched(w) ==
  /\ pc[w] = "fetch"
  /\ Taken(w)
  /\ IF fetch[w].at = "ready"
       THEN Advance(w, "mount", [req[w] EXCEPT !.image = fetch[w].name])
       ELSE Goto(w, "refused") /\ UNCHANGED req
  /\ UNCHANGED <<pveVars, config, updates, received, seen>>

Mount(w) ==
  /\ pc[w] = "mount"
  /\ PostIde2(Vm(w), req[w].image)
  /\ Goto(w, "first")
  /\ UNCHANGED <<pveVars, isoVars, config, req, received, seen>>

\* The second POST: the VM is to boot from the medium, and from nothing else.
BootFromMedium(w) ==
  /\ pc[w] = "first"
  /\ PostBoot(Vm(w), <<"ide2">>)
  /\ Goto(w, "accepted")
  /\ UNCHANGED <<pveVars, isoVars, config, req, received, seen>>

Eject(w, v) ==
  /\ Receive(w, "accepted", New("eject", v))
  /\ PostIde2(v, NoMedia)
  /\ UNCHANGED <<pveVars, isoVars, config, seen>>

UpdateConfig(w, v, order) ==
  /\ Receive(w, "accepted", New("update", v))
  /\ PostBoot(v, order)
  /\ UNCHANGED <<pveVars, isoVars, config, seen>>

-----------------------------------------------------------------------------
(* Failures. *)

\* A request's only PVE call fails.
FailsAtOnce(w, v) ==
  /\ "pve" \in Faults
  /\ \E kind \in {"reset", "cycle", "mode", "eject", "update"} : Receive(w, "refused", New(kind, v))
  /\ UNCHANGED <<pveVars, isoVars, config, updates, seen>>

\* A later PVE call fails: an error response (412 if it was the read for If-Match),
\* except that a failing efidisk is only a warning, and that no handler catches a
\* failing mode, or the name a failing status read leaves unbound.
Fails(w) ==
  /\ "pve" \in Faults
  /\ pc[w] \in Steps \ {"fetch"}
  /\ Goto(w, CASE pc[w] \in {"efidisk", "create"} -> "accepted"
               [] pc[w] \in {"status", "mode"}   -> "dropped"
               [] OTHER                           -> "refused")
  /\ UNCHANGED <<pveVars, isoVars, config, updates, req, received, seen>>

Crash ==
  /\ "crash" \in Faults
  /\ \E w \in Workers : pc[w] \notin Done
  /\ pc' = [w \in Workers |-> IF pc[w] \in Done THEN pc[w] ELSE "dropped"]
  /\ IsoCrash
  /\ UNCHANGED <<pveVars, config, updates, req, received, seen>>

-----------------------------------------------------------------------------
(* The surroundings. *)

Pve(v) ==
  /\ RunTask(v) \/ TaskTimesOut(v)
  /\ UNCHANGED <<isoVars, config, updates, pc, req, received, seen>>

\* A queued configuration task runs, or fails.
ApplyBoot(v) ==
  /\ \E order \in updates[v].boot :
       /\ updates' = [updates EXCEPT ![v].boot = @ \ {order}]
       /\ \/ config' = [config EXCEPT ![v].boot = order]
          \/ "pve" \in Faults /\ UNCHANGED config
  /\ UNCHANGED <<pveVars, isoVars, pc, req, received, seen>>

ApplyIde2(v) ==
  /\ \E medium \in updates[v].ide2 :
       /\ updates' = [updates EXCEPT ![v].ide2 = @ \ {medium}]
       /\ \/ config' = [config EXCEPT ![v].ide2 = medium,
                                      ![v].hw = [d \in DOMAIN @ \cup {"ide2"} |->
                                                   IF d = "ide2" THEN "cdrom" ELSE @[d]]]
          \/ "pve" \in Faults /\ UNCHANGED config
  /\ UNCHANGED <<pveVars, isoVars, pc, req, received, seen>>

\* Another PVE client adds or removes devices.
Rewire(v) ==
  /\ \E hw \in Hardware :
       config' = [config EXCEPT ![v].hw = hw,
                                ![v].ide2 = IF "ide2" \in DOMAIN hw THEN @ ELSE NoMedia]
  /\ UNCHANGED <<pveVars, isoVars, updates, pc, req, received, seen>>

StoreChanges ==
  /\ (\E u \in Urls : Republish(u)) \/ (\E f \in Files : RemoveIso(f))
  /\ UNCHANGED <<pveVars, config, updates, pc, req, received, seen>>

-----------------------------------------------------------------------------
Fetching(w) == FetchStep(w) /\ UNCHANGED <<pveVars, config, updates, pc, req, received, seen>>

Step(w) == \/ ReadPower(w) \/ Represent(w)
           \/ CycleStop(w) \/ CycleStart(w)
           \/ ReadStatus(w) \/ ReadBoot(w) \/ ReadDevices(w) \/ SetOrder(w)
           \/ SetMode(w) \/ ReadEfidisk(w) \/ CreateEfidisk(w)
           \/ Fetching(w) \/ Fetched(w) \/ Mount(w) \/ BootFromMedium(w)
           \/ Fails(w)

Ask(w, v) == \/ GetSystem(w, v)
             \/ \E type \in Resets : Reset(w, v, type)
             \/ PowerCycle(w, v)
             \/ \E target \in Targets, conditional \in BOOLEAN : AskBoot(w, v, target, conditional)
             \/ \E mode \in Modes, conditional \in BOOLEAN : AskMode(w, v, mode, conditional)
             \/ \E mode \in Modes : SetFirmwareMode(w, v, mode)
             \/ \E name \in LocalIsos : InsertLocal(w, v, name)
             \/ \E u \in Urls : InsertUrl(w, v, u)
             \/ Eject(w, v)
             \/ \E order \in BootOrders : UpdateConfig(w, v, order)
             \/ FailsAtOnce(w, v)

Surroundings == \/ \E v \in VMs : Pve(v) \/ ApplyBoot(v) \/ ApplyIde2(v) \/ Rewire(v)
                \/ StoreChanges

Next == (\E w \in Workers : Step(w) \/ \E v \in VMs : Ask(w, v)) \/ Crash \/ Surroundings

Spec == Init /\ [][Next]_vars

\* The daemon's threads run, and an upload PVE took in ends; nothing is owed by
\* clients or by the other tasks of PVE.
FairSpec == Spec /\ \A w \in Workers : WF_vars(Step(w))

-----------------------------------------------------------------------------
(* Properties. *)

First(s, d) == CHOOSE i \in DOMAIN s : s[i] = d /\ \A j \in 1..(i - 1) : s[j] # d

\* The boot order that answers an override starts with a device of the kind asked
\* for, names every disk that can be in it, no device twice and none the VM does
\* not have, and leaves the other devices it kept in their old order.
OverrideIsComplete ==
  [][\A w \in Workers : pc[w] = "devices" /\ pc'[w] = "order" =>
       LET hw == config[Vm(w)].hw
           old == Parsed(req[w].boot)
           new == req'[w].order
       IN /\ req[w].target = "Pxe" => hw[new[1]] = "nic"
          /\ req[w].target = "Cd"  => hw[new[1]] = "cdrom"
          /\ req[w].target = "Hdd" => hw[new[1]] = "disk"
          /\ IsInjective(new)
          /\ ToSet(new) \subseteq DOMAIN hw
          /\ \A d \in DOMAIN hw : hw[d] = "disk" /\ d \in ToSet(Drives) => d \in ToSet(new)
          /\ \A d, e \in (ToSet(new) \cap ToSet(old)) \ {new[1]} :
               First(old, d) < First(old, e) => First(new, d) < First(new, e)]_vars

\* reorder_boot_order's docstring, "preserving all devices": a device that was in
\* the boot order, and that the VM still has, is still in it after an override.
OverrideKeepsDevices ==
  [][\A w \in Workers : pc[w] = "devices" /\ pc'[w] = "order" =>
       ToSet(req[w].boot) \cap DOMAIN config[Vm(w)].hw \subseteq ToSet(req'[w].order)]_vars

\* "If-Match honored on PATCH": with one thread, a firmware mode set under If-Match
\* replaces the mode the client had seen: no other Redfish client's change is undone
\* unseen between the check and the call. (Of PVE's own clients it says nothing, and
\* a boot order is not protected so far: an order accepted before may still be queued
\* in PVE when the tags are compared.)
ModeUpdatesNotLost ==
  [][\A w \in Workers : pc[w] = "mode" /\ pc'[w] = "accepted" /\ req[w].match # NoTag
        => config[Vm(w)].bios = req[w].match.bios]_vars

\* ensure_efidisk, "create a 4m efidisk if one is absent": with one thread, an EFI disk
\* and the keys in it are never replaced by a new one.
EfidiskKept == \A v \in VMs : config[v].efidisks <= 1

\* Every request ends: no thread waits for ever for a file lock.
RequestsEnd == \A w \in Workers : pc[w] \notin Done ~> pc[w] \in Done
=============================================================================
