------------------------------ MODULE SecureBoot ------------------------------
(***************************************************************************)
(* The Secure Boot write path: the handlers of secureboot.py and the host  *)
(* operations of hostops.py they call.  A request thread (a worker) takes  *)
(* a VM through the stopped-VM guard, resolves its EFI disk, checks the    *)
(* image, overwrites the disk with dd, reads it back and then records what *)
(* it did in the VM's sidecar file, which is all a later GET reports.      *)
(*                                                                         *)
(* Each step below is one read or write of something another party also    *)
(* uses: the VM's power state and configuration (PVE), its EFI disk (the   *)
(* guest), the image files (an operator, other workers), the staged        *)
(* certificates and the per-VM lock (other workers).                       *)
(***************************************************************************)
EXTENDS Naturals, PveVm

CONSTANTS
  Workers, NoWorker,   \* request threads (the shipped daemon runs one)
  Volumes, NoVolume,   \* block devices
  VolumeVm,            \* the VM a volume's name belongs to, NoVm if its path is refused
  SmallVolumes,        \* volumes smaller than a varstore image
  EfiConfs,            \* the efidisk0 settings an operator may give each VM
  Profiles, NoProfile, \* the profile catalog
  ProfileInfo,         \* per profile: secure_boot flag, databases, pinned hash, allowed path
  ProfileMap,          \* catalog "map": intent -> profile
  DefaultProfile,      \* catalog "default_profile"
  Intents,             \* the requests clients make
  Certs, DbOf,         \* public certificates a client may stage, and their database
  AllowWrite,          \* REDFISH_SB_ALLOW_WRITE=1
  AllowAutostop,       \* REDFISH_SB_ALLOW_AUTOSTOP=1
  PowerKinds,          \* the power tasks others may post to PVE at any time
  Faults,              \* the failures that may happen
  MaxRequests,         \* bound: how many requests are received in all
  NoImage, Torn, HalfBuilt, GuestVars, Foreign

Databases == {"PK", "KEK", "db", "dbx"}

ASSUME ConstantsAssumption ==
  /\ NoWorker \notin Workers /\ NoVolume \notin Volumes /\ NoProfile \notin Profiles
  /\ VolumeVm \in [Volumes -> VMs \cup {NoVm}]
  /\ SmallVolumes \subseteq Volumes
  /\ EfiConfs \in [VMs -> SUBSET [volume : Volumes \cup {NoVolume}, efitype : {"4m", "2m"}]]
  /\ ProfileInfo \in [Profiles -> [enabled : BOOLEAN, keys : SUBSET Databases,
                                   pinned : BOOLEAN, allowed : BOOLEAN]]
  /\ ProfileMap \in [DOMAIN ProfileMap -> Profiles \cup {NoProfile}]
  /\ DefaultProfile \in Profiles \cup {NoProfile}
  /\ DbOf \in [Certs -> Databases]
  /\ AllowWrite \in BOOLEAN /\ AllowAutostop \in BOOLEAN
  /\ PowerKinds \subseteq TaskKinds
  /\ Faults \subseteq {"pve", "io", "dd", "tool", "crash", "operator"}
  /\ MaxRequests \in Nat
  /\ "staged" \notin Profiles
  /\ \A content \in (SUBSET Certs) \cup {NoImage, Torn, HalfBuilt, GuestVars, Foreign} : content \notin Profiles

VARIABLES
  efiConf,   \* efiConf[v]: the VM's efidisk0 setting; volume = NoVolume when absent
  disk,      \* disk[d]: the content of a volume's varstore region
  image,     \* image[p]: the content of profile p's image file
  built,     \* built[v]: the content of built-vm-<v>.fd
  staged,    \* staged[v]: the certificates staged for v
  sidecar,   \* sidecar[v]: the state file vm-<v>.sb.json
  lock,      \* lock[v]: the worker holding v's write lock
  pc, req,   \* where each worker is, and what it remembers of its request
  installed, \* history: the contents a request found on, or wrote to and read back from, v's disk
  received   \* how many requests have been received

fileVars == <<image, built, staged, sidecar>>
vars == <<pveVars, efiConf, disk, fileVars, lock, pc, req, installed, received>>

-----------------------------------------------------------------------------
(* Contents of images and disks: a catalogued image is named by its profile, *)
(* a built one by the certificates enrolled in it. A disk dd has not finished    *)
(* with is Torn, a file virt-fw-vars has not finished with HalfBuilt.            *)
Contents == Profiles \cup (SUBSET Certs) \cup {NoImage, Torn, HalfBuilt, GuestVars, Foreign}

\* Mutant: the sidecar lists the certificates themselves, not their databases.
Keys_Certificates(certs) == certs

Keys(certs) == {DbOf[c] : c \in certs}

NoSidecar == [profile |-> NoProfile, enabled |-> FALSE, keys |-> {},
              content |-> NoImage, dry |-> FALSE]
Sidecars == [profile : Profiles \cup {"staged", NoProfile}, enabled : BOOLEAN,
             keys : SUBSET Databases, content : Contents, dry : BOOLEAN]

\* Between requests a worker is in one of these, by how the last one ended:
\* answered 200, answered with a Redfish error, or dropped by an exception the
\* handlers do not catch.
Done == {"ready", "answered", "refused", "dropped"}
Guarded == {"recheck", "locate", "check", "compare", "dd", "copying", "verify", "unlock"}
Located == {"check", "compare", "dd", "copying", "verify", "unlock", "restart", "sidecar"}
Unguarded == {"list", "build", "building", "hash", "guard", "stopping", "lock", "restart", "sidecar", "unlink"}

Requests == [vm : VMs \cup {NoVm}, source : Profiles \cup {"staged", NoProfile},
             certs : SUBSET Certs, expected : Contents, checked : Contents,
             copied : Contents, target : Volumes \cup {NoVolume}, wasRunning : BOOLEAN,
             result : {"none", "noop", "dry", "wrote"}]
NoRequest == [vm |-> NoVm, source |-> NoProfile, certs |-> {}, expected |-> NoImage,
              checked |-> NoImage, copied |-> NoImage, target |-> NoVolume,
              wasRunning |-> FALSE, result |-> "none"]

\* What a worker knows of its request: its VM, what to install, and, once the
\* EFI disk is located, the volume.
RequestOK(w) ==
  pc[w] \notin Done => /\ req[w].vm \in VMs
                       /\ pc[w] # "unlink" => req[w].source # NoProfile
                       /\ pc[w] \in Located => req[w].target \in Volumes

ControlOK ==
  /\ lock \in [VMs -> Workers \cup {NoWorker}]
  /\ pc \in [Workers -> Done \cup Guarded \cup Unguarded]
  /\ req \in [Workers -> Requests]
  /\ \A w \in Workers : RequestOK(w)

DataOK ==
  /\ efiConf \in [VMs -> [volume : Volumes \cup {NoVolume}, efitype : {"4m", "2m"}]]
  /\ disk \in [Volumes -> Contents]
  /\ image \in [Profiles -> Contents]
  /\ built \in [VMs -> Contents]
  /\ staged \in [VMs -> SUBSET Certs]
  /\ sidecar \in [VMs -> Sidecars]
  /\ installed \in [VMs -> SUBSET Contents]
  /\ received \in Nat

TypeOK == PveTypeOK /\ ControlOK /\ DataOK

Init ==
  /\ PveInit
  /\ efiConf \in {f \in [VMs -> UNION {EfiConfs[v] : v \in VMs}] : \A v \in VMs : f[v] \in EfiConfs[v]}
  /\ disk = [d \in Volumes |-> GuestVars]
  /\ image = [p \in Profiles |-> p]
  /\ built = [v \in VMs |-> NoImage]
  /\ staged = [v \in VMs |-> {}]
  /\ sidecar = [v \in VMs |-> NoSidecar]
  /\ lock = [v \in VMs |-> NoWorker]
  /\ pc = [w \in Workers |-> "ready"]
  /\ req = [w \in Workers |-> NoRequest]
  /\ installed = [v \in VMs |-> {}]
  /\ received = 0

-----------------------------------------------------------------------------
(* Helpers. *)

Goto(w, label) == pc' = [pc EXCEPT ![w] = label]
Vm(w) == req[w].vm

\* hostops.vm_is_running: only the QMP state "running" counts.
VmIsRunning(v) == qmp[v] = "running"

\* resolve_profile_name: the catalog's map, then its default. An intent mapped to
\* NoProfile is one mapped to a name the catalog does not define.
ResolveProfile(intent) ==
  IF intent \in DOMAIN ProfileMap THEN ProfileMap[intent] ELSE DefaultProfile

\* Mutant: any allowlisted volume will do, whichever VM it is named after.
DiskVerified_AnyOwner(v) == /\ efiConf[v].volume # NoVolume
                            /\ efiConf[v].efitype = "4m"
                            /\ VolumeVm[efiConf[v].volume] # NoVm

\* locate_efidisk: the config names a volume, of type 4m, whose verified path is v's.
DiskVerified(v) == /\ efiConf[v].volume # NoVolume
                   /\ efiConf[v].efitype = "4m"
                   /\ VolumeVm[efiConf[v].volume] = v

\* apply_profile: the hash the catalog records for a profile, if it records one.
PinnedHash(source) ==
  IF source \in Profiles /\ ProfileInfo[source].pinned THEN source ELSE NoImage

\* The image file a request installs, as it is on disk now.
SourceFile(w) == IF req[w].source = "staged" THEN built[Vm(w)] ELSE image[req[w].source]
SourceAllowed(w) == req[w].source = "staged" \/ ProfileInfo[req[w].source].allowed

\* A request goes on, with what its worker now knows of it.
Advance(w, label, r) ==
  /\ Goto(w, label)
  /\ req' = [req EXCEPT ![w] = r]
  /\ UNCHANGED lock

\* Mutant: the lock is released by VM, not by who holds it.
Finish_AnyLock(w, how) ==
  /\ Goto(w, how)
  /\ req' = [req EXCEPT ![w] = NoRequest]
  /\ lock' = [v \in VMs |-> IF v = Vm(w) THEN NoWorker ELSE lock[v]]

\* Mutant: an error inside the guard leaves the lock held (no finally clause).
Finish_KeepsLock(w, how) ==
  /\ Goto(w, how)
  /\ req' = [req EXCEPT ![w] = NoRequest]
  /\ UNCHANGED lock

\* A request ends; the guard's finally clause gives the lock back if it is held.
Finish(w, how) ==
  /\ Goto(w, how)
  /\ req' = [req EXCEPT ![w] = NoRequest]
  /\ lock' = [v \in VMs |-> IF lock[v] = w THEN NoWorker ELSE lock[v]]

-----------------------------------------------------------------------------
(* Requests. *)

\* patch_secureboot and action_reset_keys: pick the staged certificates or a
\* catalogued profile; without a profile the request is refused at once.
Receive(w, v, intent) ==
  /\ pc[w] \in Done
  /\ received < MaxRequests
  /\ received' = received + 1
  /\ LET source == IF intent = "SecureBootEnable:true" /\ staged[v] # {}
                     THEN "staged" ELSE ResolveProfile(intent)
     IN IF source = NoProfile
          THEN Advance(w, "refused", req[w])
          ELSE Advance(w, IF source = "staged" THEN "list" ELSE "guard",
                       [NoRequest EXCEPT !.vm = v, !.source = source, !.expected = PinnedHash(source)])
  /\ UNCHANGED <<pveVars, efiConf, disk, fileVars, installed>>

\* add_cert: the file is named by its content and replaced atomically.
AddCert(w, v, c) ==
  /\ pc[w] \in Done
  /\ staged' = [staged EXCEPT ![v] = @ \cup {c}]
  /\ Goto(w, "answered")
  /\ UNCHANGED <<pveVars, efiConf, disk, image, built, sidecar, lock, req, installed, received>>

\* db_reset_keys: every certificate staged for one database goes.
ResetDatabase(w, v, db) ==
  /\ pc[w] \in Done
  /\ staged' = [staged EXCEPT ![v] = {c \in @ : DbOf[c] # db}]
  /\ Goto(w, "answered")
  /\ UNCHANGED <<pveVars, efiConf, disk, image, built, sidecar, lock, req, installed, received>>

\* delete_cert: the file is read first ...
DeleteCert(w, v, c) ==
  /\ pc[w] \in Done
  /\ IF c \in staged[v]
       THEN Advance(w, "unlink", [NoRequest EXCEPT !.vm = v, !.certs = {c}])
       ELSE Advance(w, "refused", req[w])
  /\ UNCHANGED <<pveVars, efiConf, disk, fileVars, installed, received>>

\* ... and unlinked next, which fails if another worker removed it in between.
Unlink(w) ==
  /\ pc[w] = "unlink"
  /\ IF req[w].certs \subseteq staged[Vm(w)]
       THEN /\ staged' = [staged EXCEPT ![Vm(w)] = @ \ req[w].certs]
            /\ Finish(w, "answered")
       ELSE UNCHANGED staged /\ Finish(w, "dropped")
  /\ UNCHANGED <<pveVars, efiConf, disk, image, built, sidecar, installed, received>>

-----------------------------------------------------------------------------
(* apply_staged_certs, before the guard: the certificates are listed again,  *)
(* built into the VM's image file, and the file is hashed.                   *)

ListStaged(w) ==
  /\ pc[w] = "list"
  /\ IF staged[Vm(w)] = {}
       THEN Finish(w, "refused")
       ELSE Advance(w, "build", [req[w] EXCEPT !.certs = staged[Vm(w)]])
  /\ UNCHANGED <<pveVars, efiConf, disk, fileVars, installed, received>>

\* virt-fw-vars is missing, or it fails, or is killed after 120 s.
ToolFails(w) ==
  /\ "tool" \in Faults
  /\ \E how \in {"refused", "dropped"} : Finish(w, how)
  /\ UNCHANGED built

\* It writes the VM's image file in place ...
StartBuild(w) ==
  /\ pc[w] = "build"
  /\ \/ /\ built' = [built EXCEPT ![Vm(w)] = HalfBuilt]
        /\ Advance(w, "building", req[w])
     \/ ToolFails(w)
  /\ UNCHANGED <<pveVars, efiConf, disk, image, staged, sidecar, installed, received>>

\* ... and completes it, or leaves it as far as it got.
EndBuild(w) ==
  /\ pc[w] = "building"
  /\ \/ /\ built' = [built EXCEPT ![Vm(w)] = req[w].certs]
        /\ Advance(w, "hash", req[w])
     \/ ToolFails(w)
  /\ UNCHANGED <<pveVars, efiConf, disk, image, staged, sidecar, installed, received>>

HashBuilt(w) ==
  /\ pc[w] = "hash"
  /\ Advance(w, "guard", [req[w] EXCEPT !.expected = built[Vm(w)]])
  /\ UNCHANGED <<pveVars, efiConf, disk, fileVars, installed, received>>

-----------------------------------------------------------------------------
(* stopped_vm_guard. *)

\* INV-08: a running VM is refused, or told to stop when autostop is allowed.
EnterGuard(w) ==
  /\ pc[w] = "guard"
  /\ \/ /\ ~VmIsRunning(Vm(w))
        /\ Advance(w, "lock", req[w])
        /\ UNCHANGED tasks
     \/ /\ VmIsRunning(Vm(w)) /\ ~AllowAutostop
        /\ Finish(w, "refused")
        /\ UNCHANGED tasks
     \/ /\ VmIsRunning(Vm(w)) /\ AllowAutostop
        /\ Post(Vm(w), "stop")
        /\ Advance(w, "stopping", [req[w] EXCEPT !.wasRunning = TRUE])
  /\ UNCHANGED <<qmp, efiConf, disk, fileVars, installed, received>>

\* _wait_stopped: polls until the VM no longer runs, or 60 s have passed.
WaitStopped(w) ==
  /\ pc[w] = "stopping"
  /\ IF VmIsRunning(Vm(w)) THEN Finish(w, "refused")
                           ELSE Advance(w, "lock", req[w])
  /\ UNCHANGED <<pveVars, efiConf, disk, fileVars, installed, received>>

\* Mutant: the lock is taken without waiting for its holder.
Acquire_Barging(w) ==
  /\ pc[w] = "lock"
  /\ lock' = [lock EXCEPT ![Vm(w)] = w]
  /\ Goto(w, "recheck")
  /\ UNCHANGED <<pveVars, efiConf, disk, fileVars, req, installed, received>>

\* INV-15: the per-VM lock.
Acquire(w) ==
  /\ pc[w] = "lock"
  /\ lock[Vm(w)] = NoWorker
  /\ lock' = [lock EXCEPT ![Vm(w)] = w]
  /\ Goto(w, "recheck")
  /\ UNCHANGED <<pveVars, efiConf, disk, fileVars, req, installed, received>>

\* Mutant: the lock covers the second check only, not the write.
Recheck_Unlocks(w) ==
  /\ pc[w] = "recheck"
  /\ IF VmIsRunning(Vm(w))
       THEN Finish(w, "refused")
       ELSE /\ Goto(w, "locate")
            /\ lock' = [lock EXCEPT ![Vm(w)] = NoWorker]
            /\ UNCHANGED req
  /\ UNCHANGED <<pveVars, efiConf, disk, fileVars, installed, received>>

\* Mutant: what was read before the lock is taken to be so still.
Recheck_Trusts(w) ==
  /\ pc[w] = "recheck"
  /\ Advance(w, "locate", req[w])
  /\ UNCHANGED <<pveVars, efiConf, disk, fileVars, installed, received>>

\* INV-09: the state is read again under the lock.
Recheck(w) ==
  /\ pc[w] = "recheck"
  /\ IF VmIsRunning(Vm(w)) THEN Finish(w, "refused")
                           ELSE Advance(w, "locate", req[w])
  /\ UNCHANGED <<pveVars, efiConf, disk, fileVars, installed, received>>

\* The guard's finally clause; then the VM it stopped is started again.
Unlock(w) ==
  /\ pc[w] = "unlock"
  /\ lock' = [lock EXCEPT ![Vm(w)] = NoWorker]
  /\ Goto(w, IF AllowAutostop /\ req[w].wasRunning THEN "restart" ELSE "sidecar")
  /\ UNCHANGED <<pveVars, efiConf, disk, fileVars, req, installed, received>>

Restart(w) ==
  /\ pc[w] = "restart"
  /\ Post(Vm(w), "start")
  /\ Advance(w, "sidecar", req[w])
  /\ UNCHANGED <<qmp, efiConf, disk, fileVars, installed, received>>

-----------------------------------------------------------------------------
(* locate_efidisk and write_varstore_image, inside the guard. *)

Locate(w) ==
  /\ pc[w] = "locate"
  /\ IF DiskVerified(Vm(w))
       THEN Advance(w, "check", [req[w] EXCEPT !.target = efiConf[Vm(w)].volume])
       ELSE Finish(w, "refused")
  /\ UNCHANGED <<pveVars, efiConf, disk, fileVars, installed, received>>

\* Mutant: the image's hash is not compared with the expected one.
ImageAcceptable_AnyHash(w) ==
  /\ SourceAllowed(w)
  /\ SourceFile(w) # NoImage
  /\ req[w].target \notin SmallVolumes

\* INV-10..12: the file's place, its presence, its hash and its size.
ImageAcceptable(w) ==
  /\ SourceAllowed(w)
  /\ SourceFile(w) # NoImage
  /\ req[w].expected # NoImage => SourceFile(w) = req[w].expected
  /\ req[w].target \notin SmallVolumes

CheckImage(w) ==
  /\ pc[w] = "check"
  /\ IF ImageAcceptable(w)
       THEN Advance(w, "compare", [req[w] EXCEPT !.checked = SourceFile(w)])
       ELSE Finish(w, "refused")
  /\ UNCHANGED <<pveVars, efiConf, disk, fileVars, installed, received>>

\* The content of the request's target is now known to be on v's disk.
NoteInstalled(w) ==
  installed' = [installed EXCEPT ![Vm(w)] = @ \cup {disk[req[w].target]}]

\* Mutant: the sidecar is trusted to say what the disk holds.
Compare_TrustsSidecar(w) ==
  /\ pc[w] = "compare"
  /\ IF sidecar[Vm(w)].content = req[w].checked
       THEN /\ Advance(w, "unlock", [req[w] EXCEPT !.result = "noop"])
            /\ NoteInstalled(w)
       ELSE /\ Advance(w, "dd", req[w])
            /\ UNCHANGED installed
  /\ UNCHANGED <<pveVars, efiConf, disk, fileVars, received>>

\* _region_sha256: the disk is read and its hash is the image's; or it is not, or the
\* disk cannot be read.
Same(w) == disk[req[w].target] = req[w].checked
Differs(w) == disk[req[w].target] # req[w].checked \/ "io" \in Faults

\* INV-19, INV-16: nothing is written if the disk is seen to hold the image already, or
\* unless writes are enabled.
Compare(w) ==
  /\ pc[w] = "compare"
  /\ \/ /\ Same(w)
        /\ Advance(w, "unlock", [req[w] EXCEPT !.result = "noop"])
        /\ NoteInstalled(w)
     \/ /\ Differs(w)
        /\ IF AllowWrite
             THEN Advance(w, "dd", req[w])
             ELSE Advance(w, "unlock", [req[w] EXCEPT !.result = "dry"])
        /\ UNCHANGED installed
  /\ UNCHANGED <<pveVars, efiConf, disk, fileVars, received>>

\* dd reads the file as it is by now (in one 1 MiB block) and starts to write.
StartCopy(w) ==
  /\ pc[w] = "dd"
  /\ IF SourceFile(w) = NoImage
       THEN Finish(w, "refused") /\ UNCHANGED disk
       ELSE /\ disk' = [disk EXCEPT ![req[w].target] = Torn]
            /\ Advance(w, "copying", [req[w] EXCEPT !.copied = SourceFile(w)])
  /\ UNCHANGED <<pveVars, efiConf, fileVars, installed, received>>

\* dd completes; or it fails, or is killed after 120 s (TimeoutExpired, which no
\* handler catches), and leaves the disk half written.
EndCopy(w) ==
  /\ pc[w] = "copying"
  /\ \/ /\ disk' = [disk EXCEPT ![req[w].target] = req[w].copied]
        /\ Advance(w, "verify", req[w])
     \/ /\ "dd" \in Faults
        /\ \E how \in {"refused", "dropped"} : Finish(w, how)
        /\ UNCHANGED disk
  /\ UNCHANGED <<pveVars, efiConf, fileVars, installed, received>>

\* Mutant: dd's exit code is taken for proof.
Verify_TrustsExitCode(w) ==
  /\ pc[w] = "verify"
  /\ Advance(w, "unlock", [req[w] EXCEPT !.result = "wrote"])
  /\ NoteInstalled(w)
  /\ UNCHANGED <<pveVars, efiConf, disk, fileVars, received>>

\* INV-18: the disk is read back.
Verify(w) ==
  /\ pc[w] = "verify"
  /\ \/ /\ Same(w)
        /\ Advance(w, "unlock", [req[w] EXCEPT !.result = "wrote"])
        /\ NoteInstalled(w)
     \/ Differs(w) /\ Finish(w, "refused") /\ UNCHANGED installed
  /\ UNCHANGED <<pveVars, efiConf, disk, fileVars, received>>

-----------------------------------------------------------------------------
(* After the guard: what was asked for is recorded, whatever the write did. *)

\* Mutant: the keys are added to the ones recorded before.
SidecarOf_MergesKeys(w) ==
  LET source == req[w].source IN
  [profile |-> source,
   enabled |-> IF source = "staged" THEN TRUE ELSE ProfileInfo[source].enabled,
   keys    |-> sidecar[Vm(w)].keys \cup
               (IF source = "staged" THEN Keys(req[w].certs) ELSE ProfileInfo[source].keys),
   content |-> req[w].checked,
   dry     |-> req[w].result = "dry"]

SidecarOf(w) ==
  LET source == req[w].source IN
  [profile |-> source,
   enabled |-> IF source = "staged" THEN TRUE ELSE ProfileInfo[source].enabled,
   keys    |-> IF source = "staged" THEN Keys(req[w].certs) ELSE ProfileInfo[source].keys,
   content |-> req[w].checked,
   dry     |-> req[w].result = "dry"]

WriteSidecar(w) ==
  /\ pc[w] = "sidecar"
  /\ sidecar' = [sidecar EXCEPT ![Vm(w)] = SidecarOf(w)]
  /\ Finish(w, "answered")
  /\ UNCHANGED <<pveVars, efiConf, disk, image, built, staged, installed, received>>

\* A PVE call raises, or a file cannot be read or written: only HostOpError is
\* caught, so the exception ends the request without a response.
Escapes(w) ==
  /\ \/ "pve" \in Faults /\ pc[w] \in {"guard", "stopping", "recheck", "locate", "restart"}
     \/ "io" \in Faults /\ pc[w] \in {"hash", "check", "sidecar", "unlink"}
  /\ Finish(w, "dropped")
  /\ UNCHANGED <<pveVars, efiConf, disk, fileVars, installed, received>>

-----------------------------------------------------------------------------
(* The daemon dies and is restarted: requests, locks and a running dd go,    *)
(* files and disks stay.                                                     *)

Crash ==
  /\ "crash" \in Faults
  /\ \E w \in Workers : pc[w] \notin Done
  /\ pc' = [w \in Workers |-> IF pc[w] \in Done THEN pc[w] ELSE "dropped"]
  /\ req' = [w \in Workers |-> NoRequest]
  /\ lock' = [v \in VMs |-> NoWorker]
  /\ UNCHANGED <<pveVars, efiConf, disk, fileVars, installed, received>>

-----------------------------------------------------------------------------
(* The surroundings: PVE, the guests, other PVE users, the host's operator. *)

Pve(v) == /\ RunTask(v) \/ TaskTimesOut(v)
          /\ UNCHANGED <<efiConf, disk, fileVars, lock, pc, req, installed, received>>

\* Another client, or ComputerSystem.Reset of this daemon, posts a power task.
PowerRequest(v) ==
  /\ \E kind \in PowerKinds : Post(v, kind)
  /\ UNCHANGED <<qmp, efiConf, disk, fileVars, lock, pc, req, installed, received>>

\* The firmware of a running guest updates its varstore.
GuestWrites(v) ==
  /\ VmIsRunning(v)
  /\ efiConf[v].volume # NoVolume
  /\ disk' = [disk EXCEPT ![efiConf[v].volume] = GuestVars]
  /\ UNCHANGED <<pveVars, efiConf, fileVars, lock, pc, req, installed, received>>

\* The efidisk0 of a stopped VM is given another value.
Reconfigure(v) ==
  /\ ~Alive(v)
  /\ \E conf \in EfiConfs[v] : efiConf' = [efiConf EXCEPT ![v] = conf]
  /\ UNCHANGED <<pveVars, disk, fileVars, lock, pc, req, installed, received>>

\* A catalogued image file is replaced, removed or put back.
ReplaceImage(p) ==
  /\ "operator" \in Faults
  /\ \E content \in {p, Foreign, NoImage} : image' = [image EXCEPT ![p] = content]
  /\ UNCHANGED <<pveVars, efiConf, disk, built, staged, sidecar, lock, pc, req, installed, received>>

-----------------------------------------------------------------------------
Prepare(w) == ListStaged(w) \/ StartBuild(w) \/ EndBuild(w) \/ HashBuilt(w)
Guard(w) == EnterGuard(w) \/ WaitStopped(w) \/ Acquire(w) \/ Recheck(w) \/ Unlock(w) \/ Restart(w)
Write(w) == Locate(w) \/ CheckImage(w) \/ Compare(w) \/ StartCopy(w) \/ EndCopy(w) \/ Verify(w)
Step(w) == Prepare(w) \/ Guard(w) \/ Write(w) \/ WriteSidecar(w) \/ Unlink(w) \/ Escapes(w)

Ask(w) == \E v \in VMs : \/ \E intent \in Intents : Receive(w, v, intent)
                         \/ \E c \in Certs : AddCert(w, v, c) \/ DeleteCert(w, v, c)
                         \/ \E db \in {DbOf[c] : c \in Certs} : ResetDatabase(w, v, db)

Surroundings == \/ \E v \in VMs : Pve(v) \/ PowerRequest(v) \/ GuestWrites(v) \/ Reconfigure(v)
                \/ \E p \in Profiles : ReplaceImage(p)

Next == (\E w \in Workers : Ask(w) \/ Step(w)) \/ Crash \/ Surroundings

Spec == Init /\ [][Next]_vars

\* The daemon's threads run; nothing is owed by clients, PVE or the guests.
FairSpec == Spec /\ \A w \in Workers : WF_vars(Step(w))

\* INV-15, "to block concurrent writers and concurrent power-on": a VM does not come
\* to life while its write lock is held. Nothing in PVE heeds the lock, so this is an
\* assumption about whoever starts VMs, the guard's own restart included.
PowerOnBlocked == \A v \in VMs : lock[v] # NoWorker /\ Alive(v)' => Alive(v)

\* The write path where the assumption holds.
BlockingSpec == Init /\ [][Next /\ PowerOnBlocked]_vars

-----------------------------------------------------------------------------
(* Properties. *)

\* INV-15: a VM's guarded section (resolve, check, write, verify) is never
\* shared by two request threads, and its lock is held exactly while one is in it.
OneWriterPerVm ==
  /\ \A w \in Workers : pc[w] \in Guarded => lock[Vm(w)] = w
  /\ \A v \in VMs : lock[v] # NoWorker => pc[lock[v]] \in Guarded /\ Vm(lock[v]) = v

\* INV-05/07, INV-15, INV-16: the content of a volume changes only when its
\* running guest writes it, or when writes are enabled and dd runs for the VM
\* the volume is named after, by the thread that holds that VM's lock.
DiskChangesAreGuarded ==
  [][\A d \in Volumes : disk'[d] # disk[d] =>
        \/ \E v \in VMs : VmIsRunning(v) /\ efiConf[v].volume = d
        \/ \E w \in Workers : /\ AllowWrite
                              /\ pc[w] \in {"dd", "copying"}
                              /\ req[w].target = d /\ d \notin SmallVolumes
                              /\ lock[VolumeVm[d]] = w]_vars

\* A sidecar that claims an image was applied (not a dry run) names a content
\* that was on that VM's disk: a half-done, failed or swapped write is never
\* recorded, whatever crashes, faults and other threads do.
SidecarTruthful ==
  \A v \in VMs : sidecar[v].content # NoImage /\ ~sidecar[v].dry
                    => sidecar[v].content \in installed[v]

\* INV-11: a profile with a catalogued hash is only ever reported applied (or
\* checked, in a dry run) with exactly the image catalogued, even if an operator
\* replaces the file at any moment.
PinnedProfileIsItsImage ==
  \A v \in VMs : LET p == sidecar[v].profile IN
    p \in Profiles /\ ProfileInfo[p].pinned => sidecar[v].content = p

\* INV-08/09: no QEMU process holds the disk while dd writes it, although the VM may be
\* started at any moment up to the lock and is looked at only before it and under it.
WriteWhileStopped ==
  \A w \in Workers : pc[w] = "copying" => ~Alive(Vm(w))

\* With one request thread, the keys a GET reports after a success response are those
\* enrolled in the image on the VM's disk, whatever was installed or failed before, until
\* the guest changes them.
ReportedKeysAreEnrolled ==
  [][\A w \in Workers : pc[w] = "sidecar" /\ pc'[w] = "answered" /\ req[w].result # "dry" =>
       LET content == disk[req[w].target]
           reported == sidecar'[Vm(w)].keys
       IN /\ content \in Profiles => reported = ProfileInfo[content].keys
          /\ content \notin Profiles \cup {Foreign, GuestVars} => reported = Keys(content)]_vars

\* A request that was no dry run gives the lock back for success only with the image on
\* the VM's disk, also when an earlier attempt crashed or failed half way: the retry
\* repairs it. When the success is answered, the guest at most has changed it since.
AnsweredMeansInstalled ==
  [][\A w \in Workers : req[w].result # "dry" =>
       /\ pc[w] = "unlock" /\ pc'[w] \in {"restart", "sidecar"} =>
            disk[req[w].target] = req[w].checked
       /\ pc[w] = "sidecar" /\ pc'[w] = "answered" =>
            disk[req[w].target] \in {req[w].checked, GuestVars}]_vars

\* Every request ends: a thread never waits for ever for the VM, the lock or dd.
RequestsEnd == \A w \in Workers : pc[w] \notin Done ~> pc[w] \in Done

\* INV-08, as it is written: the guard lets a request through only if the VM is
\* stopped (not just "not running").
GuardSeesStopped ==
  [][\A w \in Workers : pc[w] = "recheck" /\ pc'[w] = "locate" => ~Alive(Vm(w))]_vars

\* stopped_vm_guard's docstring: a VM that was stopped for a request is running
\* again, or its start is queued, when the request ends, however it ends.
RestartedOnExit ==
  [][\A w \in Workers : req[w].wasRunning /\ pc'[w] \in Done
        => Alive(Vm(w)) \/ "start" \in tasks'[Vm(w)]]_vars

\* Past locate, a request's disk is its VM's own; past the image check, it is
\* large enough; dd runs only when writes are enabled.
TargetIsOwn(w) ==
  /\ pc[w] \in {"check", "compare", "dd", "copying", "verify", "unlock"} => VolumeVm[req[w].target] = Vm(w)
  /\ pc[w] \in {"compare", "dd", "copying", "verify"} => req[w].target \notin SmallVolumes
  /\ pc[w] \in {"dd", "copying"} => AllowWrite

\* The staged certificates are built only for a request that installs them, and
\* a pinned profile is compared with its own hash and no other.
SourceIsPinned(w) ==
  /\ pc[w] \in {"list", "build", "building", "hash"} => req[w].source = "staged"
  /\ pc[w] \notin Done /\ req[w].source \in Profiles /\ ProfileInfo[req[w].source].pinned =>
        /\ req[w].expected = req[w].source
        /\ pc[w] \in Located \ {"check"} => req[w].checked = req[w].source

\* What a request is about to record has been seen on its VM's disk.
SeenBeforeRecorded(w) ==
  pc[w] \in {"unlock", "restart", "sidecar"} /\ req[w].result # "dry"
     => req[w].checked \in installed[Vm(w)]

\* Together these imply the safety properties above, and every step keeps them.
WritePathInv ==
  /\ TypeOK /\ OneWriterPerVm
  /\ \A w \in Workers : TargetIsOwn(w) /\ SourceIsPinned(w) /\ SeenBeforeRecorded(w)
  /\ SidecarTruthful /\ PinnedProfileIsItsImage

\* The write path implements the varstore swap: the lock is its session, a
\* sidecar that is not a dry run's is its claim.
Swap == INSTANCE VarstoreSwap WITH
          Threads <- Workers, NoThread <- NoWorker, NoContent <- NoImage,
          store <- disk, holder <- lock, confirmed <- installed,
          claim <- [v \in VMs |-> IF sidecar[v].dry THEN NoImage ELSE sidecar[v].content]
ImplementsSwap == Swap!Spec
=============================================================================
