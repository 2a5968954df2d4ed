--------------------------- MODULE MCComputerSystem ---------------------------
(***************************************************************************)
(* Small instances of ComputerSystem for TLC.  The requests on a VM and    *)
(* the ISO store meet only in the medium that is mounted, so one run looks *)
(* at both without multiplying them: in a behaviour with the focus         *)
(* "system" the requests come one after another and none names a URL, in   *)
(* one with the focus "iso" two threads insert media by URL.               *)
(***************************************************************************)
EXTENDS ComputerSystem

CONSTANTS w1, w2, v1, f1, u1, u2, c1, c2

VARIABLE focus

\* Both URLs end in the same file name.
MCFileOf == [u \in Urls |-> f1]
MCLocalIsos == {Plain(f1)}

\* A VM with two disks, a CD drive and a NIC; and one with a disk the override does
\* not look for, a disk where InsertMedia puts its CD drive, and two NICs.
MCHardware == {
  "scsi0" :> "disk" @@ "scsi1" :> "disk" @@ "ide2" :> "cdrom" @@ "net0" :> "nic",
  "virtio0" :> "disk" @@ "ide2" :> "disk" @@ "sata0" :> "cdrom" @@ "net0" :> "nic" @@ "net1" :> "nic" }
MCDevices == ToSet(Drives) \cup ToSet(Nics) \cup {"virtio0"}
MCBootOrders == {<<>>, <<"scsi0", "ide2", "net0">>, <<"net1", "virtio0", "scsi1", "scsi0", "virtio0", "net0">>}

MCInit ==
  /\ Init
  /\ focus \in {"system", "iso"}
  /\ focus = "system" => iso[Plain(f1)] = NoIso /\ served = [u \in Urls |-> c1]
  /\ focus = "iso" => /\ \A v \in VMs : /\ config[v].hw["ide2"] = "cdrom"
                                       /\ config[v].boot = <<>> /\ config[v].efidisks = 0
                     /\ qmp = [v \in VMs |-> "stopped"]

\* Two requests in all; a third one where a GET has given the client a tag.
MCAsk(w, v) ==
  \/ focus = "system" /\ w = w1 /\ Ask(w, v) /\ UNCHANGED isoVars /\ (received < 2 \/ seen[v] # NoTag)
  \/ focus = "iso" /\ received < 2 /\ \E u \in Urls : InsertUrl(w, v, u)

MCSurroundings ==
  \/ \E v \in VMs : Pve(v) \/ ApplyBoot(v) \/ ApplyIde2(v)
  \/ focus = "system" /\ \E v \in VMs : Rewire(v)
  \/ focus = "iso" /\ StoreChanges

MCStep(w) == Step(w) /\ UNCHANGED focus

MCNext == \/ \E w \in Workers : MCStep(w)
          \/ \E w \in Workers, v \in VMs : MCAsk(w, v) /\ UNCHANGED focus
          \/ Crash /\ UNCHANGED focus
          \/ MCSurroundings /\ UNCHANGED focus

MCSpec == /\ MCInit /\ [][MCNext]_<<vars, focus>>
          /\ \A w \in Workers : WF_<<vars, focus>>(MCStep(w))
=============================================================================
