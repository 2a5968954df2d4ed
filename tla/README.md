# proxmox-redfish: verification project

proxmox-redfish is a daemon on a Proxmox VE (PVE) node that answers Redfish
requests for its virtual machines. Almost everything it does is a short sequence
of calls to PVE, to a few shared files and, for Secure Boot, to a block device,
while PVE's own tasks, the guests, other PVE clients and operators change the same
things. This directory holds TLA+ models of that core, their TLC configurations,
and theorems about them with proofs that TLAPS checks.

In what follows `PR` is `src/src/proxmox_redfish/proxmox_redfish.py`, `HO`
`hostops.py`, `SB` `secureboot.py`, `CO` `redfish_core.py`, `SV`
`redfish_services.py`, `SC` `serial_capture.py` and `LK` `loki_logging.py`, all in
the same directory.

## 1. Inventory

| Part | State it keeps or changes | Operations | What is hard | What makes it correct | Here |
|---|---|---|---|---|---|
| Secure Boot write path (SB, HO) | EFI disk of a VM, sidecar `vm-<id>.sb.json`, staged certificates, `built-vm-<id>.fd`, per-VM lock | PATCH SecureBoot, ResetKeys, add/delete/reset certificates | two requests, a VM that starts, an operator that edits config or images, a crash or a dead `dd` half way, retries | one writer per VM, only its own disk, only while it is stopped, sidecar never claims more than was seen on the disk | `SecureBoot` |
| Power control (PR 583-728, 2279-2329) | none; PVE tasks | Reset, PowerCycle | tasks run later and in any order | the right task is posted | `ComputerSystem` |
| Boot override, firmware mode (PR 2502-2754, 987-1056, 1681-1716) | VM configuration in PVE | PATCH System, PATCH Bios | two reads and a later POST, devices that come and go | the new order starts with the device asked for and loses none; no EFI disk is replaced | `ComputerSystem` |
| Virtual media and ISO store (PR 519-579, 732-967) | ISO storage, per-file lock, `ide2`, boot order | InsertMedia, EjectMedia | downloads of minutes between check and use, files that share a name, failing uploads | no ISO is overwritten, none is mounted for another, the one mounted exists | `IsoStore`, `ComputerSystem` |
| UpdateConfig (PR 971-984) | VM configuration | pass-through | races with the above | | `ComputerSystem` (boot order only) |
| Sessions, authentication (PR 111-126, 220-227, 323-380, 466-516, 1177-1212, 2209-2258, CO 308-316) | `sessions` | login, check, expiry, eviction, logout | expiry between two look-ups, the cap | the store stays near its cap, only the oldest are evicted, a token acts for its user only | `Sessions` |
| If-Match and ETags (PR 1653-1678, 2472-2500) | none | check before PATCH | another client's update between check and PATCH, updates accepted but still queued | a stale update is refused | `ComputerSystem` (of a System) |
| Event service (SV 48-112, 499-568, 692-752) | `subscriptions` | create, delete, deliver | cap, re-subscription, failing receivers | bounded table, re-subscribing always works, each subscriber served once | `EventService` |
| Accounts (SV 637-686) | none (PVE's users) | create, delete | | | not modelled |
| Serial capture (SC) | collectors, ring buffers | connect, read, snapshot | threads, reconnects | lines are whole, in order, bounded; one reader per socket; capture resumes | `SerialCapture` |
| Loki shipping (LK) | queue | emit, flush, close | two flushing threads, two locks, failed pushes, the end of the program | each record is pushed at most once, the queue drains, logging returns | `LokiHandler` |
| Error mapping, tasks (PR 238-320, CO 335-402) | none | | | | as "refused" |
| GET views, routing, TLS, start-up | none | | | | not modelled |

How they interact. One request handler calls PVE through `proxmoxer`; a status or
config POST only queues a PVE task, a config PUT (`set`) is done when it returns.
Secure Boot requests share the disk, files and lock of a VM with one another and
share its power state with Reset requests, PVE's other clients and the guest. Media
requests share the ISO store. Boot overrides, InsertMedia and UpdateConfig all
write the boot order. Sessions, subscriptions, serial capture and log shipping each keep
tables of their own, share none of them with the VM requests or with one another, and
have threads of their own where they wait: one per captured port, and one that flushes
the log.

The shipped server is `socketserver.TCPServer`, which handles one request at a time
(PR 2961); the code nevertheless takes locks and has tests for concurrent requests.
An instance with one worker is the shipped daemon, one with two workers is the
threaded one the locks are for. A property that relies on one worker says so.

## 2. Modules

| Module | What it is |
|---|---|
| `PveVm` | PVE's side: QEMU states and the set of queued tasks. External, from how the code uses the API. |
| `SecureBoot` | The whole write path, one action per access to something shared. |
| `VarstoreSwap` | Abstract: varstores swapped in sessions, contents confirmed, then claimed. |
| `IsoStore` | `_ensure_iso_available` with the web server and the store around it. |
| `ComputerSystem` | All other requests on a VM, with and without If-Match; extends `PveVm` and `IsoStore`. |
| `Sessions` | Login, checks, look-up of credentials, expiry and logout. |
| `EventService` | The subscription table, its cap, and the delivery of an event. |
| `SerialCapture` | Collector threads, lines, ring buffers, and VMs that come and go. |
| `LokiHandler` | The log queue, the threads that flush it, and the end of the program. |
| `MCSecureBoot`, `MCComputerSystem`, `MCServices` | Instances for TLC. `MCServices` takes the last four modules, which share no variable. |
| `MCWritePath` | The two passing instances of `SecureBoot`, each behaviour with a focus. |
| `SecureBoot_proofs` | Types, the inductive invariant of `SecureBoot` and what follows from it, and that it implements `VarstoreSwap`. |
| `SecureBootBlocking_proofs` | What holds of it where a held write lock blocks power-on: no write under a QEMU process and, with one thread, answers that say what the disk holds. |
| `IsoStore_proofs` | The store's inductive invariant and two action properties. |
| `ComputerSystem_proofs` | `ComputerSystem` uses the store only by its own steps; its types; what `reorder_boot_order` computes; two properties of one thread. |
| `Sessions_proofs` | The session store's invariant and two action properties. |
| `EventService_proofs` | The table's bound, delivery and re-subscription. |
| `SerialCapture_proofs` | Types and bounds of the collectors, one of them per port, and that the buffer is what was heard. |
| `LokiHandler_proofs` | The handler's bound, and that nothing is pushed twice. |

### PveVm

`qmp[v]` is the QMP state of a VM, `tasks[v]` the kinds of tasks queued. `Post`
queues, `RunTask` runs one, in any order; a shutdown or reboot may time out. A
task that does not apply (start of a live VM) changes nothing. A reboot stops the
guest and queues its start. Two queued tasks of one kind count as one: the second
would not apply.

### SecureBoot

`pc[w]` is the next access of request thread `w`, `req[w]` its local variables.
The actions follow the code: `Receive` (the two handlers), `ListStaged`, `StartBuild`,
`EndBuild`, `HashBuilt` (apply_staged_certs), `EnterGuard`, `WaitStopped`, `Acquire`,
`Recheck`, `Unlock`, `Restart` (stopped_vm_guard), `Locate` (locate_efidisk), `CheckImage`,
`Compare`, `StartCopy`, `EndCopy`, `Verify` (write_varstore_image), `WriteSidecar`,
`Escapes` (exceptions nobody catches), and the certificate handlers. Around them
are PVE's tasks, guest writes, edits of `efidisk0`, replaced images and crashes. A disk
that cannot be read, or only in part, differs from any image, in `Compare` and in
`Verify` (`Differs`, with the fault "io").

Abstractions: an image's content is named by its catalogue profile or by the set of
certificates built into it; a hash is the content it is of. `virt-fw-vars` gives
the same image for the same certificates. The staged directory is listed in one
step. `dd` reads its input in one block of 1 MiB, so it copies one content, and the
disk is `Torn` from its start to its end; `virt-fw-vars` writes its output in place, so
the built file is `HalfBuilt` from its start to its end, and for another thread to see.
`efidisk0` is edited only while the VM is stopped. A crash ends a running `dd` too, as it is in the service's control group.
`installed` is a history variable: which contents were seen on a VM's disk.

`BlockingSpec` is `SecureBoot` under one assumption, `PowerOnBlocked`: a VM does not come
to life while its write lock is held. It is what INV-15 says the lock is for ("to block
concurrent writers and concurrent power-on"). PVE does not know of the lock, and the
daemon's own restart does not heed it (run `restart_overlaps_write`), so it is a condition
on whoever starts VMs. VMs may be started, stopped and restarted at any other moment: up
to the acquisition, between the two checks of the guard too, and after the release.

`MCWritePath` gives each behaviour a focus, as everything at once is too much. In
"faults" two threads meet on one VM while it is started and stopped, the pinned image is replaced
and everything fails that can; in "builds" they stage two certificates and build into one
file; in "edits" there are two VMs, four volumes and every kind of wrong `efidisk0`.
"alone" is the one thread of the shipped daemon, "waiting" two threads of which one
waits for the lock with a request that is refused once it has it.

### IsoStore and ComputerSystem

A store file is a file name, alone or with the hash of a content; `iso` gives what
it holds. `fetch[w]` is how far a call is: `Fetch` (URL check, storage look-up),
`LockFile`, `Look`, `Download`, `CompareIso`, `Upload` (the POST), `UploadRuns` (PVE's
task), `Await` (the polls), `Copy`, and `Taken` by the caller. The web server may publish
another ISO at any time and an operator may delete one. A poll may fail before or after
the task has written the file; in the second case the copy meets the upload. The storage
is "local", as shipped: for another one the code takes the storage's root for its ISO
directory (PR 768-788), so it looks and copies where PVE keeps no ISOs. Also not in the
model: an operator's own upload of the same file
name while a download is under way (the lock is the daemon's, so this upload would
be overwritten), an upload that PVE completes after a poll of it has failed or the daemon
has died, a
client's file name that happens to look like a suffixed one, and two contents whose
hashes agree in the first eight digits.

In `ComputerSystem`, `config[v]` is the configured (pending included) value of the
devices, medium, boot order, firmware and EFI disk, `updates[v]` the queued
configuration tasks. `Reorder` is `reorder_boot_order`: PVE's value starts with
`order=`, and the code splits it at `;`, so the first device is not recognised
(`Parsed`, `Listed`); the scan then adds those it looks for (`Recognised`), and of a
device that occurs twice the first place counts (`Distinct`). A selection from a list is
written without recursion, as its members at a set of places (`Pick`), so that it can be
proved about. `WellFormed` says what PVE's keys mean: a `netN` is a NIC and a drive's key
is not. An unsupported target goes on like the others,
because the 400 is overwritten. Requests that PVE fails are answered with an error,
except a failing efidisk (a warning), a failing mode, and a failing status read, after
which `status` is unbound and the exception escapes.

A tag is the hash of what a GET shows. `seen[v]` is the last one a client got; what of
it can change here is the power state, the boot order and the firmware mode (`Tags`). A
PATCH that carries a tag begins with the two reads of a GET (`ReadPower`, `Represent`)
and goes on only if they give that tag; if PVE cannot be read the tag of the error body
is compared, so the PATCH is refused with 412. `*` is as no tag. A tag is of the
configuration PVE reports: an order that was accepted and is still queued in PVE is not
in it, so If-Match protects the firmware mode (a PUT, done when it returns) but not yet
the boot order. Other PVE clients add and remove devices (`Rewire`); that they change
firmware modes or EFI disks is left out.

`MCComputerSystem` looks at one of two things in a behaviour. In the focus "system" one
thread takes requests one after another, none of them names a URL, and the third is
taken only where a GET has given a tag. In the focus "iso" two threads insert media by
URL. The two meet only in the medium that is mounted, and the first half mounts one
too, by its name in the store.

### Sessions

`sessions` is the dictionary, `now` the clock, `owner` a history variable: whom each
token was issued to. `Login` is PVE's verdict, `Prune` is `_prune_sessions`, `Insert`
the store after it. A request is checked by its handler (`Request`, `AskLogout`) and
again by `get_proxmox_api` (`MakeApi`); then `_client_credentials` looks its token up
once more without looking at its age (`Credentials`, in `CallPve`). The clock may
advance between any two of these. If `get_proxmox_api` raises, do_PATCH answers 500
("refused") and the other handlers drop the connection ("dropped"): `Raised`. A check and
the deletion of an expired token are one step, and so is the pruning. With the one thread
of the shipped daemon nothing can come between, so this is exact; with several it is
coarser than the code. Tokens are
random, so no two logins get the same. A Basic header that does not parse and a
header with an empty password are left out. PVE's verdict on a header is a choice.

`AUTH` is a constant of the program, shipped as `"Basic"` (PR 111), where sessions are
still stored and pruned but a token is never accepted, though the README (lines 146
and 207) counts sessions among the ways to authenticate. The run sets `"Session"`,
where tokens matter; the theorems hold for each value.

### EventService

A subscription is its destination, as its id is a hash of it; Context and Name are
stored unseen. `handler[h]` is where a request thread is; a step is one access to the
shared table, one resolution of a host or one POST. `Resolve`, `CheckCap`, `Store` are
`create_subscription`, `Find`, `Delete` `delete_subscription`, `SubmitEvent`, `Deliver`
`submit_test_event` with `emit_event`'s loop over a copy of the table. Whether a host is
allowed is a choice at each resolution, as DNS answers change; so is what a receiver
does. The copy and the start of the loop are one step. `outcome[h]` is a history
variable: what became of each subscriber. If two threads delete one subscription the
second `del` raises and nobody catches it ("died").

### SerialCapture

`collector[c]` is a collector thread: its port, its place in `_run`, its stop flag,
the data it has read and not yet made an entry of, and the ring buffer. Steps are a look
at the socket's path, a connect, a recv, a sleep and, in `_ingest`, each line cut from
the data (`CutLine`) and the end of the loop (`EndChunk`): a request may take its
snapshot between two lines. Decoding, the stripping of a `\r` and the times of lines are
left out, so a line end is one character. A socket is gone, refuses or accepts, so a
connect may fail though the path is there; `peer` says whether a collector's connection is
to the QEMU that accepts now. When a VM stops its connections end, and a recv on one
returns nothing or raises even if the VM is back by then. `Ensure` is what a GET of the
entries does before it takes the snapshot. `stop_all` exists but the daemon never calls it; it is in
the model because it is what makes two collectors of one port possible. `heard` and
`began` are history variables. The reference for the ring buffer, `Cuts`, says by places
in the whole output where its entries begin and end; the code sees one chunk at a time.

### LokiHandler

`at[p]` is where a thread is. Logging threads and `logging.shutdown` hold Python's
handler lock while they are in the handler, the flushing thread does not; the handler's
own `_lock` guards the queue, and each of its short sections is a step (`Enqueue`,
`Swap`). `Push` is one POST and ends in "received" or "lost": in both the batch is
dropped. The handler is attached to the daemon's logger and to the root logger (PR
79-86), and the former propagates, so each record is handled twice: `Emissions` are
pairs of a record and which of its handlings it is, and "pushed once" is said of those.
The records urllib3 would log at DEBUG during a push are left out. `Kill` ends the
process at any moment.

`MCServices` picks one of the four services (`part`) and takes only its steps. As they
share no variable, what a behaviour of all shows of one is what that one shows alone.

## 3. Runs

Bounds. `MaxRequests` caps the requests received, 1 to 3. Two are enough for two
threads to meet anywhere in the path and for a retry after a failure. Three are used
where a history matters (write, change, repair; read, change, write under If-Match). In
`writers` and `retry` the focuses bound it further: images are replaced and VMs started
by others where the focus says so, and `retry`'s second thread asks only in "waiting".
In `services` three tokens pass the cap of a store of one twice, and the clock (to 3,
lifetime 2) lets the first ones expire while younger ones do not; three destinations and
two threads pass the cap of a table of one, and four requests let one leave and come
back during a delivery; three characters in chunks of up to two are enough for a line to
end inside a chunk, at its end and in the next, for an over-long line (more than one
character) and for a ring of one to drop a line, over a reconnect, and a second
collector is there for one that is started twice; two records, handled twice each, with
batches of two, let a flush find the queue empty, part filled and full. Everything else
is finite by itself. Tokens, users and, in `writers`, threads are interchangeable; no
liveness property names any of them. `CHECK_DEADLOCK FALSE` is set because clients may
stop asking.

| Run | Instance | Shows |
|---|---|---|
| `writers` | 2 threads; "faults": 1 VM, all faults, crash, operator, starts and stops; "builds": 2 certificates, one built file; "edits": 2 VMs, 4 volumes, every kind of wrong `efidisk0` | mutual exclusion per VM, truthful sidecars, pinned images, the inductive invariant, guarded disk changes (no VM's volume is changed for another), refinement of `VarstoreSwap` |
| `retry` | `BlockingSpec`, autostop on; "alone": 1 thread, 3 requests, a certificate, all faults, crash, images replaced, starts and stops; "waiting": 2 threads at one lock | writes only without a QEMU process; a success means that the image is on the disk, also after a failed attempt; keys reported are those on the disk; every request ends |
| `requests` | all ComputerSystem requests, PVE faults, crash; 1 thread with devices re-wired and If-Match, or 2 threads, 2 URLs with one file name, republished and removed ISOs | types; an override's order is complete and starts right; no mode is lost under If-Match; one EFI disk; the store's invariant, no ISO replaced or confused; every request ends |
| `services` | 1 thread, 2 users, 3 tokens; or 2 threads, 3 destinations; or 1 port, 2 collectors; or 2 logging threads, the flusher and shutdown | sessions: the bound, eviction of the oldest only, a token acts for its user; events: the bound, re-subscription, each subscriber served once; serial: the buffer is the last lines heard, one collector goes on, capture resumes, a stopped collector ends; log: what is held is bounded, nothing pushed twice, the queue drains, logging returns |

Eight runs show disagreements between the code and what it says of itself; TLC
finds a counterexample, and PROJECT.json quotes the line:

| Run | Disagreement |
|---|---|
| `paused_vm` | `vm_is_running` (HO 348) is true only for `running`, so the guard admits a paused VM whose QEMU process holds the disk; SECURITY.md INV-08 says the VM is confirmed stopped. |
| `restart_overlaps_write` | The restart posted after the lock is released (HO 400) runs while the next request writes; INV-15 says power-on is blocked. |
| `autostop_not_undone` | The restart is skipped when the guarded body raises; secureboot-dd-write.md says "on exit". |
| `boot_devices_lost` | A first boot device that the scan does not add again is lost; `reorder_boot_order` says "preserving all devices". |
| `other_iso_missing` | An ISO that differs is given a suffixed name but not uploaded; the log says "will upload with hash suffix". |
| `sessions_over_cap` | A login prunes the store and then adds to it (PR 2223), so it holds `MAX_SESSIONS` + 1 until the next login; the code calls `MAX_SESSIONS` a "hard cap [...] on the number of concurrent sessions". What does hold is `SurplusBounded`: one session too many for each thread. |
| `loki_blocks` | A record that fills the batch is pushed by the thread that logs, under the handler lock (LK 78); the module says delivery "never blocks". |
| `serial_lines_glued` | The partial line outlives its connection (SC 92), so the first line of a VM's next boot is joined to the rest of its last; "Each output line becomes an OEM LogEntry". |

`requests` leaves out the fault "unreadable": if the stored file cannot be hashed, the
code returns its name unseen, and `NeverAnotherIso` is false. The action is in the
model, and the theorem has the same assumption. `EfidiskKept` and `ModeUpdatesNotLost`
are false with two threads (`ensure_efidisk` reads and then creates, If-Match compares
and then sets, without a lock), which is why the system half of `requests` has one.

What the write path claims of answers (`AnsweredMeansInstalled`, `ReportedKeysAreEnrolled`)
is about requests that were no dry run: after one GET reports a profile that was not
written, as the code has it. That an exception nobody catches leaves the client without a
response is in the model ("dropped") and counts as an end of the request.

Fairness. `FairSpec`, and the instances of it with a focus, have weak fairness on each
thread's own steps, as a runnable thread is scheduled; nothing is assumed of clients,
guests or PVE's tasks, and `RequestsEnd` needs no PowerOnBlocked, though `retry` has it.
`threading.Lock` is not fair. Weak fairness is enough because only finitely many
requests can pass a waiting thread under the bound. In `IsoStore` it includes that an
upload accepted by PVE ends: the code polls without a limit (PR 853). Serial
collectors run, and a recv of a silent console returns by its timeout (SC 98) (`Proceed`);
nothing is assumed of VMs or of what they write. Threads that log, the flusher and the end
of the program run, a POST ends by its timeout, and the flush interval passes. That no thread is kept off
the handler lock for ever again needs only the bound on records.

## 4. What is proved

Every safety property that a passing run checks is also a theorem, for every number of
threads, VMs, volumes, certificates, devices, files, ISOs, ports and records, with crashes
and faults, from the named assumptions on the constants; where a theorem needs more (one
thread, power-on blocked by the lock), the hypothesis is in its statement and below.

- `TypeCorrect`: `[]TypeOK` of `SecureBoot`. It includes what a thread knows: a VM
  and a source while a request is under way, an existing volume past `locate`.
- `Exclusion`: `[]OneWriterPerVm`. Inductive with `TypeOK`: each step ends the
  request (and gives back every lock it has), moves within or outside the guarded
  section, or is `Acquire` or `Unlock` (lemma `StepForm`).
- `Invariant`: `[]WritePathInv`. The safety properties are not inductive as they
  stand: that a recorded content was seen on the disk needs that the content a
  request is about to record was (`SeenBeforeRecorded`); that a pinned profile is
  its image needs that the pinned hash is what was compared (`SourceIsPinned`);
  that only the own disk changes needs that the located volume is the VM's own,
  however the configuration is edited afterwards (`TargetIsOwn`). `WritePathInv`
  is the conjunction of these with types and exclusion. The proof has one part for
  what a thread knows outside the guard, one for inside, and one for sidecars.
- `TruthfulSidecars`, `PinnedImages` and `GuardedChanges` follow from it.
- `Refinement`: every step of `SecureBoot` is a step or a stutter of
  `VarstoreSwap`, under a mapping that takes the disk for the store, the lock for
  the session, `installed` for what is confirmed, and a sidecar (not of a dry run)
  for the claim.
- `StoppedWhileWriting`: `[]WriteWhileStopped` of `BlockingSpec`, for any number of threads
  and VMs, with autostop on or off, assuming `NeverPaused`: others post any power task,
  starts included, but no suspend. What goes wrong without the two assumptions is what the
  runs `restart_overlaps_write` and `paused_vm` show. A start that runs after the first
  check is what the second one, under the lock, is there to see: without it the theorem is
  false (the mutant `Recheck_Trusts`). The invariant `StoppedInv` says that no VM is paused
  or about to be, and that the VM of a request past the second check is stopped.
- `WritePathUsesPve`: `PveVm` is one specification, parameterised by the kinds of task that
  are posted (`PveSpec(kinds)`), and every behaviour of `SecureBoot` is one of it, with
  what others post and, only if autostop is on, a stop and a start.
- `AnswersInstalled` and `KeysReported`: `AnsweredMeansInstalled` and
  `ReportedKeysAreEnrolled` of `BlockingSpec`, assuming `NeverPaused` and in addition one
  thread (`OneThread`) and no VM given a
  disk named after another one (`OwnDisks`). The invariant `OneThreadInv` follows a
  request from the image it built (`built` holds the certificates it listed until the
  image is checked), over what was checked (the certificates, the profile's own image or
  a foreign file in its place) to the disk: once the guarded section is left, the disk
  holds what was checked, because the VM is stopped, no other thread writes, and the
  guests of other VMs write other disks. Two threads with different certificates for one
  VM, or a guest that is started during the write, do break both, so the assumptions are
  needed; the run `retry` is an instance of them. Once the lock is given back the VM may
  run before the answer, so of the moment of the answer the theorems say that the guest at
  most has changed the disk.
- `IsoInvariant`: `[]IsoInv`. That no ISO is replaced rests on `StillAbsent`: from
  the look at the store to the end of the upload the file stays absent, and from then
  to the end of a copy it is absent or the thread's own upload. This is kept because
  only the thread with the file's lock writes it (`HoldsLock`, `HeldInside`), and
  removal only helps.
- `NeverReplaced`, and `NeverAnother` (assuming stored files can be read), follow
  from it and a look at each step.
- `StoreInSystem`: every behaviour of `ComputerSystem` is one of `IsoStore`, so the
  three theorems above hold of the whole daemon.
- `SystemUsesPve`: every behaviour of `ComputerSystem` is one of `PveSpec` with the tasks
  of the ResetTypes asked for. It needs that only a PowerCycle gets to the two steps
  that post its stop and its start (`CyclesAsked`). `OnlyPauseSuspends` follows: if
  clients ask for any reset but Pause, no task the daemon posts suspends a VM, which is
  what `NeverPaused` asks of this daemon.
- `SystemTypeCorrect`: `[]SystemTypeOK`. What a request remembers has to be well-typed
  too: the order it is about to post is a sequence of devices (lemma `ReorderIsComplete`
  and those before it), and the mode it is about to set is one of PVE's. `SystemInv` is
  the conjunction with the types and invariant of the ISO store.
- `OverridesAreComplete`: `OverrideIsComplete`, from the same invariant and what `Reorder`
  computes for every configuration and every order: lemmas `PickIs` (a selection has the
  members at the places given, in their order, none left out), `DistinctIs` (no member
  twice, none lost, each at its first place), `FirstIsLeast`, `PartKeepsOrder` and
  `Joined` (where members stand in a selection and in a concatenation).
- `OneEfidisk` and `ModesUnderIfMatch`, for one thread (`SingleThread`). The invariant
  `OneThreadInv` says that a thread about to create an EFI disk found none (`Found`), and
  that one about to set a mode under a tag has seen the mode there is (`Matched`).
  Between the look and the call only PVE's tasks and other clients' devices change,
  and neither touches modes or EFI disks.
- `SessionsInvariant`: `[]SessionsInv`. The bound counts the threads about to store a
  session: pruning leaves `MAX_SESSIONS`, and each of those adds one (`SurplusBounded`).
- `OldestEvicted`, from it and a look at each step.
- `OneThreadCallsAsTheCaller`, for one thread: a token that passed the second check
  is still stored at the look-up (`CheckedIsLive`), because only a request deletes
  sessions. With two threads a logout in between would make the fallback to the
  daemon's own account reachable, so the assumption is needed.

- `EventsInvariant`: `[]EventsInv`. The bound counts the table together with what
  threads are about to store: a thread passes the check only while the table has room,
  and each of the others adds at most one. It is inductive with the types.
- `EventDelivery`: what is still to do in a thread's loop is what is still due, and its
  counter is the number of subscribers that accepted (`LoopInv`).
- `Resubscribe`, by a look at each step.
- `LokiInvariant`: `[]LokiInv`. That at most `batch_size` records wait needs to know who
  holds the handler lock (`HoldsLock`), that only a push keeps a batch (`OnlyPushers`),
  and that there is room for one record more whenever the lock is free or its holder has
  still to append (`HasRoom`).
- `EmissionsPushedOnce`: `[]PushedOnce`. What a thread is about to queue is new: the
  records of threads differ (`OwnRecord`), and the second handling of a record is not
  known before the first is over (`NotYet`).
- `SerialTypeCorrect`: `[]SerialTypeOK`, with the bounds: a ring of at most `MAX_LINES`,
  and unterminated data of at most `MAX_LINE_BYTES` between chunks.
- `OnePerPort`: `[]OneCollector`. It is inductive with two facts about the table: a
  collector in it is of the port it is in (`InTable`), and one not yet started is in no
  port's place and has none (`Unstarted`).
- `CaptureIsFaithful`: `[]CapturedIsHeard`. The witness, the places at which the output is
  cut, is carried from step to step: a line cut adds a place behind the last, or shifts
  them by one when the ring is full; a chunk read adds output behind all of them.

Two lemmas go by induction without the library's induction theorems: `LeastNat`, that a
non-empty set of numbers has a least member, follows from the well-foundedness of `<`
on the naturals, and the lemmas on `Pick` count with it.

Only model-checked: the liveness properties `RequestsEnd`, `CaptureResumes`,
`StoppedEnds`, `QueueDrains` and `LoggingReturns`. Liveness under fairness, and the
ENABLED predicates it needs, are out of the prover's reach.

## 5. Not modelled, and why

- If-Match on a SecureBoot resource: the same check, on a tag of that resource's view.
  It comes before `Receive`; everything after it is modelled, and none of the
  properties of the write path rely on it.
- GET builders, routing, schemas: functions of one request and a few PVE reads that
  keep no state. Of the GETs only that of a System is here, for its tag.
- TLS, start-up, packaging, tools: no part of a request.
- Accounts: each operation is one PVE call behind a switch.
- Error mapping: which HTTP status an error gets depends on one exception alone; here
  each is a refusal. The TaskService shows PVE's tasks and keeps none.
- Address checks of URLs and destinations: library code; here the set `AllowedUrls`,
  or a choice at each resolution.
- Certificate parsing and `virt-fw-vars`: external; a build is a function of the staged
  certificates that may fail.
- The order in which batches reach Loki, and the times of lines and records: nothing
  claims one, each carries its own time.
