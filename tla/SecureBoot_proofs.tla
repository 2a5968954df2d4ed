-------------------------- MODULE SecureBoot_proofs --------------------------
(***************************************************************************)
(* Proofs about SecureBoot, for every number of request threads, VMs,      *)
(* volumes, profiles and certificates and every setting of the daemon.     *)
(***************************************************************************)
EXTENDS SecureBoot, TLAPS

-----------------------------------------------------------------------------
(* Requests and the three ways a step moves one. *)

LEMMA NoRequestType == NoRequest \in Requests
BY DEF NoRequest, Requests, Contents

\* The fields of a request have the types Requests gives them.
LEMMA RequestFields ==
  ASSUME NEW r \in Requests
  PROVE  /\ r.vm \in VMs \cup {NoVm}
         /\ r.source \in Profiles \cup {"staged", NoProfile}
         /\ r.certs \in SUBSET Certs
         /\ r.expected \in Contents /\ r.checked \in Contents /\ r.copied \in Contents
         /\ r.target \in Volumes \cup {NoVolume}
BY DEF Requests

\* A step that ends a request (Finish) keeps the control state well-formed.
LEMMA FinishControl ==
  ASSUME ControlOK, NEW w \in Workers, NEW how \in Done, Finish(w, how)
  PROVE  ControlOK'
BY NoRequestType DEF ControlOK, RequestOK, Finish, Goto, Done

\* A step that moves a request on (Advance) does, if what it now knows fits its
\* new place.
LEMMA AdvanceControl ==
  ASSUME ControlOK, NEW w \in Workers, NEW label \in Done \cup Guarded \cup Unguarded,
         NEW r \in Requests, Advance(w, label, r),
         label \notin Done => /\ r.vm \in VMs
                              /\ label # "unlink" => r.source # NoProfile
                              /\ label \in Located => r.target \in Volumes
  PROVE  ControlOK'
BY DEF ControlOK, RequestOK, Advance, Goto

\* What is known of a request under way.
LEMMA UnderWay ==
  ASSUME TypeOK, NEW w \in Workers, pc[w] \notin Done
  PROVE  /\ req[w] \in Requests /\ Vm(w) \in VMs
         /\ pc[w] # "unlink" => req[w].source \in Profiles \cup {"staged"}
         /\ pc[w] \in Located => req[w].target \in Volumes
         /\ pc[w] # "unlink" => SourceFile(w) \in Contents
BY RequestFields DEF TypeOK, ControlOK, DataOK, RequestOK, Vm, SourceFile

-----------------------------------------------------------------------------
(* Type correctness. *)

LEMMA InitType == Init => TypeOK
<1> SUFFICES ASSUME Init PROVE TypeOK
  OBVIOUS
<1>1. PveTypeOK
  BY DEF Init, PveInit, PveTypeOK, QmpStates
<1>2. efiConf \in [VMs -> [volume : Volumes \cup {NoVolume}, efitype : {"4m", "2m"}]]
  BY ConstantsAssumption DEF Init
<1>3. sidecar \in [VMs -> Sidecars]
  BY DEF Init, NoSidecar, Sidecars, Contents
<1>4. ControlOK
  BY NoRequestType DEF Init, ControlOK, RequestOK, Done
<1>5. QED
  BY <1>1, <1>2, <1>3, <1>4 DEF Init, TypeOK, DataOK, Contents

\* The PVE state stays well-typed under each thing that changes it.
LEMMA PveType ==
  ASSUME PveTypeOK, NEW v \in VMs
  PROVE  /\ Pve(v) => PveTypeOK'
         /\ \A kind \in TaskKinds : Post(v, kind) /\ UNCHANGED qmp => PveTypeOK'
<1>1. ASSUME RunTask(v) PROVE PveTypeOK'
  <2>1. PICK kind \in tasks[v] :
          /\ qmp' = [qmp EXCEPT ![v] = AfterTask(v, kind)]
          /\ tasks' = [tasks EXCEPT ![v] =
                (@ \ {kind}) \cup (IF kind = "reboot" /\ qmp[v] = "running" THEN {"start"} ELSE {})]
    BY <1>1 DEF RunTask
  <2>2. AfterTask(v, kind) \in QmpStates
    BY DEF AfterTask, QmpStates, PveTypeOK
  <2>3. QED
    BY <2>1, <2>2 DEF PveTypeOK, TaskKinds
<1>2. ASSUME TaskTimesOut(v) PROVE PveTypeOK'
  BY <1>2 DEF TaskTimesOut, PveTypeOK
<1>3. ASSUME NEW kind \in TaskKinds, Post(v, kind), UNCHANGED qmp PROVE PveTypeOK'
  BY <1>3 DEF Post, PveTypeOK
<1>4. QED
  BY <1>1, <1>2, <1>3 DEF Pve

\* What a worker learns about its request keeps the request well-formed.
LEMMA Learns ==
  ASSUME NEW r \in Requests
  PROVE  /\ \A x \in Volumes \cup {NoVolume} : [r EXCEPT !.target = x] \in Requests
         /\ [r EXCEPT !.wasRunning = TRUE] \in Requests
BY DEF Requests

LEMMA LearnsContent ==
  ASSUME NEW r \in Requests, NEW x \in Contents
  PROVE  /\ [r EXCEPT !.expected = x] \in Requests
         /\ [r EXCEPT !.checked = x] \in Requests
         /\ [r EXCEPT !.copied = x] \in Requests
BY DEF Requests

LEMMA LearnsResult ==
  ASSUME NEW r \in Requests, NEW x \in {"noop", "dry", "wrote"}
  PROVE  [r EXCEPT !.result = x] \in Requests
BY DEF Requests

LEMMA LearnsCerts ==
  ASSUME NEW r \in Requests, NEW certs \in SUBSET Certs
  PROVE  [r EXCEPT !.certs = certs] \in Requests
BY DEF Requests

\* The steps of a worker keep the control state well-formed.
LEMMA PrepareControl ==
  ASSUME TypeOK, NEW w \in Workers, Prepare(w) \/ Unlink(w) \/ Escapes(w) \/ WriteSidecar(w)
  PROVE  ControlOK'
<1>0. ControlOK /\ DataOK
  BY DEF TypeOK
<1>1. CASE ListStaged(w)
  <2>1. Vm(w) \in VMs /\ req[w] \in Requests /\ req[w].source # NoProfile /\ req[w].vm \in VMs
    BY <1>1, UnderWay DEF ListStaged, Done, TypeOK, ControlOK, RequestOK
  <2>2. staged[Vm(w)] \in SUBSET Certs
    BY <1>0, <2>1 DEF DataOK
  <2>3. DEFINE r == [req[w] EXCEPT !.certs = staged[Vm(w)]]
  <2>4. r \in Requests /\ r.vm \in VMs /\ r.source # NoProfile
    BY <2>1, <2>2, LearnsCerts DEF Requests
  <2>5. Finish(w, "refused") \/ Advance(w, "build", r)
    BY <1>1 DEF ListStaged
  <2>. HIDE DEF r
  <2>6. QED
    BY <1>0, <2>4, <2>5, FinishControl, AdvanceControl DEF Done, Unguarded, Located
<1>2. CASE StartBuild(w) \/ EndBuild(w)
  <2>1. req[w] \in Requests /\ req[w].source # NoProfile /\ req[w].vm \in VMs
    BY <1>2 DEF StartBuild, EndBuild, Done, TypeOK, ControlOK, RequestOK
  <2>2. (\E how \in Done : Finish(w, how)) \/ Advance(w, "building", req[w]) \/ Advance(w, "hash", req[w])
    BY <1>2 DEF StartBuild, EndBuild, ToolFails, Done
  <2>3. QED
    BY <1>0, <2>1, <2>2, FinishControl, AdvanceControl DEF Done, Unguarded, Located
<1>3. CASE HashBuilt(w)
  <2>1. Vm(w) \in VMs /\ req[w] \in Requests /\ req[w].source # NoProfile /\ req[w].vm \in VMs
    BY <1>3, UnderWay DEF HashBuilt, Done, TypeOK, ControlOK, RequestOK
  <2>2. DEFINE r == [req[w] EXCEPT !.expected = built[Vm(w)]]
  <2>3. r \in Requests /\ r.vm \in VMs /\ r.source # NoProfile
    <3>1. built[Vm(w)] \in Contents
      BY <1>0, <2>1 DEF DataOK
    <3>2. r \in Requests
      BY <2>1, <3>1, LearnsContent
    <3>3. QED
      BY <2>1, <3>2 DEF Requests
  <2>4. Advance(w, "guard", r)
    BY <1>3 DEF HashBuilt
  <2>. HIDE DEF r
  <2>5. QED
    BY <1>0, <2>3, <2>4, AdvanceControl DEF Done, Unguarded, Located
<1>4. CASE Unlink(w) \/ Escapes(w) \/ WriteSidecar(w)
  <2>1. Finish(w, "answered") \/ Finish(w, "dropped")
    BY <1>4 DEF Unlink, Escapes, WriteSidecar
  <2>2. QED
    BY <1>0, <2>1, FinishControl DEF Done
<1>5. QED
  BY <1>1, <1>2, <1>3, <1>4 DEF Prepare

LEMMA GuardControl ==
  ASSUME TypeOK, NEW w \in Workers, Guard(w)
  PROVE  ControlOK'
<1>0. ControlOK /\ DataOK
  BY DEF TypeOK
<1>1. /\ pc[w] \notin Done /\ Vm(w) \in VMs /\ req[w] \in Requests
      /\ req[w].source # NoProfile /\ req[w].vm \in VMs
      /\ pc[w] \in Located => req[w].target \in Volumes
  BY UnderWay DEF Guard, EnterGuard, WaitStopped, Acquire, Recheck, Unlock, Restart,
                  Done, TypeOK, ControlOK, RequestOK
<1>2. CASE EnterGuard(w)
  <2>1. DEFINE r == [req[w] EXCEPT !.wasRunning = TRUE]
  <2>2. r \in Requests /\ r.vm \in VMs /\ r.source # NoProfile
    BY <1>1, Learns DEF Requests
  <2>3. Finish(w, "refused") \/ Advance(w, "lock", req[w]) \/ Advance(w, "stopping", r)
    BY <1>2 DEF EnterGuard
  <2>. HIDE DEF r
  <2>4. QED
    BY <1>0, <1>1, <2>2, <2>3, FinishControl, AdvanceControl DEF Done, Unguarded, Located
<1>3. CASE WaitStopped(w) \/ Recheck(w) \/ Restart(w)
  <2>1. \/ Finish(w, "refused") \/ Advance(w, "lock", req[w]) \/ Advance(w, "locate", req[w])
        \/ pc[w] = "restart" /\ Advance(w, "sidecar", req[w])
    BY <1>3 DEF WaitStopped, Recheck, Restart
  <2>2. QED
    BY <1>0, <1>1, <2>1, FinishControl, AdvanceControl DEF Done, Guarded, Unguarded, Located
<1>4. CASE Acquire(w)
  BY <1>0, <1>1, <1>4 DEF Acquire, Goto, ControlOK, RequestOK, Guarded, Done, Located
<1>5. CASE Unlock(w)
  BY <1>0, <1>1, <1>5 DEF Unlock, Goto, ControlOK, RequestOK, Unguarded, Done, Located
<1>6. QED
  BY <1>2, <1>3, <1>4, <1>5 DEF Guard

LEMMA WriteControl ==
  ASSUME TypeOK, NEW w \in Workers, Write(w)
  PROVE  ControlOK'
<1>0. ControlOK /\ DataOK
  BY DEF TypeOK
<1>1. /\ pc[w] \notin Done /\ Vm(w) \in VMs /\ req[w] \in Requests
      /\ req[w].source # NoProfile /\ req[w].vm \in VMs /\ SourceFile(w) \in Contents
      /\ pc[w] \in Located => req[w].target \in Volumes
  BY UnderWay DEF Write, Locate, CheckImage, Compare, StartCopy, EndCopy, Verify,
                  Done, TypeOK, ControlOK, RequestOK
<1>2. CASE Locate(w)
  <2>1. DEFINE r == [req[w] EXCEPT !.target = efiConf[Vm(w)].volume]
  <2>2. CASE DiskVerified(Vm(w))
    <3>1. efiConf[Vm(w)].volume \in Volumes
      BY <1>0, <1>1, <2>2 DEF DataOK, DiskVerified
    <3>2. r \in Requests /\ r.vm \in VMs /\ r.source # NoProfile /\ r.target \in Volumes
      BY <1>1, <3>1, Learns DEF Requests
    <3>3. Advance(w, "check", r)
      BY <1>2, <2>2 DEF Locate
    <3>. HIDE DEF r
    <3>4. QED
      BY <1>0, <3>2, <3>3, AdvanceControl DEF Done, Guarded
  <2>3. CASE ~DiskVerified(Vm(w))
    BY <1>0, <1>2, <2>3, FinishControl DEF Locate, Done
  <2>4. QED
    BY <2>2, <2>3
<1>3. CASE CheckImage(w)
  <2>1. DEFINE r == [req[w] EXCEPT !.checked = SourceFile(w)]
  <2>2. r \in Requests /\ r.vm \in VMs /\ r.source # NoProfile /\ r.target \in Volumes
    <3>1. r \in Requests
      BY <1>1, LearnsContent
    <3>2. req[w].target \in Volumes
      BY <1>1, <1>3 DEF CheckImage, Located
    <3>3. QED
      BY <1>1, <3>1, <3>2 DEF Requests
  <2>3. Finish(w, "refused") \/ Advance(w, "compare", r)
    BY <1>3 DEF CheckImage
  <2>. HIDE DEF r
  <2>4. QED
    BY <1>0, <2>2, <2>3, FinishControl, AdvanceControl DEF Done, Guarded
<1>4. CASE StartCopy(w)
  <2>1. DEFINE r == [req[w] EXCEPT !.copied = SourceFile(w)]
  <2>2. r \in Requests /\ r.vm \in VMs /\ r.source # NoProfile /\ r.target \in Volumes
    <3>1. r \in Requests
      BY <1>1, LearnsContent
    <3>2. req[w].target \in Volumes
      BY <1>1, <1>4 DEF StartCopy, Located
    <3>3. QED
      BY <1>1, <3>1, <3>2 DEF Requests
  <2>3. Finish(w, "refused") \/ Advance(w, "copying", r)
    BY <1>4 DEF StartCopy
  <2>. HIDE DEF r
  <2>4. QED
    BY <1>0, <2>2, <2>3, FinishControl, AdvanceControl DEF Done, Guarded
<1>5. CASE EndCopy(w)
  <2>1. req[w].target \in Volumes
    BY <1>1, <1>5 DEF EndCopy, Located
  <2>2. Advance(w, "verify", req[w]) \/ \E how \in Done : Finish(w, how)
    BY <1>5 DEF EndCopy, Done
  <2>3. QED
    BY <1>0, <1>1, <2>1, <2>2, FinishControl, AdvanceControl DEF Done, Guarded
<1>6. CASE Compare(w) \/ Verify(w)
  <2>1. req[w].target \in Volumes
    BY <1>1, <1>6 DEF Compare, Verify, Located
  <2>2. \/ \E x \in {"noop", "dry", "wrote"} : Advance(w, "unlock", [req[w] EXCEPT !.result = x])
        \/ Finish(w, "refused") \/ Advance(w, "dd", req[w])
    BY <1>6 DEF Compare, Verify
  <2>3. ASSUME NEW x \in {"noop", "dry", "wrote"}, Advance(w, "unlock", [req[w] EXCEPT !.result = x])
        PROVE  ControlOK'
    <3>1. DEFINE r == [req[w] EXCEPT !.result = x]
    <3>2. r \in Requests /\ r.vm \in VMs /\ r.source # NoProfile /\ r.target \in Volumes
      <4>1. r \in Requests
        BY <1>1, LearnsResult
      <4>2. QED
        BY <1>1, <2>1, <4>1 DEF Requests
    <3>3. Advance(w, "unlock", r)
      BY <2>3
    <3>. HIDE DEF r
    <3>4. QED
      BY <1>0, <3>2, <3>3, AdvanceControl DEF Done, Guarded
  <2>4. QED
    BY <1>0, <1>1, <2>1, <2>2, <2>3, FinishControl, AdvanceControl DEF Done, Guarded
<1>7. QED
  BY <1>2, <1>3, <1>4, <1>5, <1>6 DEF Write

\* ... and the data.
LEMMA StepData ==
  ASSUME TypeOK, NEW w \in Workers, Step(w)
  PROVE  PveTypeOK' /\ DataOK'
<1>0. PveTypeOK /\ ControlOK /\ DataOK
  BY DEF TypeOK
<1>1. /\ pc[w] \notin Done /\ Vm(w) \in VMs /\ req[w] \in Requests
      /\ pc[w] # "unlink" => SourceFile(w) \in Contents
      /\ pc[w] \in Located => req[w].target \in Volumes
      /\ pc[w] # "unlink" => req[w].source \in Profiles \cup {"staged"}
  BY UnderWay DEF Step, Prepare, Guard, Write, WriteSidecar, Unlink, Escapes, ListStaged, StartBuild, EndBuild, ToolFails,
                  HashBuilt, EnterGuard, WaitStopped, Acquire, Recheck, Unlock, Restart, Locate,
                  CheckImage, Compare, StartCopy, EndCopy, Verify, Done
<1>2. CASE Prepare(w) \/ Unlink(w) \/ Escapes(w)
  <2>1. /\ req[w].certs \in SUBSET Certs
        /\ UNCHANGED <<pveVars, efiConf, disk, image, sidecar, installed, received>>
    BY <1>1, <1>2, RequestFields DEF Prepare, ListStaged, StartBuild, EndBuild, ToolFails, HashBuilt, Unlink, Escapes, fileVars
  <2>2. \/ UNCHANGED built
        \/ built' = [built EXCEPT ![Vm(w)] = req[w].certs]
        \/ built' = [built EXCEPT ![Vm(w)] = HalfBuilt]
    BY <1>2 DEF Prepare, ListStaged, StartBuild, EndBuild, ToolFails, HashBuilt, Unlink, Escapes, fileVars
  <2>3. UNCHANGED staged \/ staged' = [staged EXCEPT ![Vm(w)] = @ \ req[w].certs]
    BY <1>2 DEF Prepare, ListStaged, StartBuild, EndBuild, ToolFails, HashBuilt, Unlink, Escapes, fileVars
  <2>4. built' \in [VMs -> Contents]
    BY <1>0, <2>1, <2>2 DEF DataOK, Contents
  <2>5. staged' \in [VMs -> SUBSET Certs]
    BY <1>0, <2>1, <2>3 DEF DataOK
  <2>6. QED
    BY <1>0, <2>1, <2>4, <2>5 DEF DataOK, PveTypeOK, pveVars
<1>3. CASE Guard(w)
  <2>1. UNCHANGED <<efiConf, disk, fileVars, installed, received>>
    BY <1>3 DEF Guard, EnterGuard, WaitStopped, Acquire, Recheck, Unlock, Restart
  <2>2. \/ UNCHANGED pveVars
        \/ UNCHANGED qmp /\ \E kind \in TaskKinds : Post(Vm(w), kind)
    BY <1>3 DEF Guard, EnterGuard, WaitStopped, Acquire, Recheck, Unlock, Restart, pveVars, TaskKinds
  <2>3. PveTypeOK'
    BY <1>0, <1>1, <2>2, PveType DEF PveTypeOK, pveVars
  <2>4. QED
    BY <1>0, <2>1, <2>3 DEF DataOK, fileVars
<1>4. CASE Write(w)
  <2>1. UNCHANGED <<pveVars, efiConf, fileVars, received>>
    BY <1>4 DEF Write, Locate, CheckImage, Compare, StartCopy, EndCopy, Verify
  <2>2. UNCHANGED disk \/ \E c \in Contents : disk' = [disk EXCEPT ![req[w].target] = c]
    BY <1>1, <1>4, RequestFields
       DEF Write, Locate, CheckImage, Compare, StartCopy, EndCopy, Verify, Contents
  <2>3. \/ UNCHANGED installed
        \/ /\ NoteInstalled(w)
           /\ req[w].target \in Volumes
    <3>1. CASE pc[w] \in {"compare", "verify"}
      BY <1>1, <1>4, <3>1 DEF Write, Locate, CheckImage, Compare, StartCopy, EndCopy, Verify, Located
    <3>2. CASE pc[w] \notin {"compare", "verify"}
      BY <1>4, <3>2 DEF Write, Locate, CheckImage, Compare, StartCopy, EndCopy, Verify
    <3>3. QED
      BY <3>1, <3>2
  <2>4. disk' \in [Volumes -> Contents]
    BY <1>0, <2>2 DEF DataOK
  <2>5. installed' \in [VMs -> SUBSET Contents]
    BY <1>0, <2>3 DEF DataOK, NoteInstalled
  <2>6. QED
    BY <1>0, <2>1, <2>4, <2>5 DEF DataOK, PveTypeOK, pveVars, fileVars
<1>5. CASE WriteSidecar(w)
  <2>1. pc[w] # "unlink"
    BY <1>5 DEF WriteSidecar
  <2>2. Keys(req[w].certs) \in SUBSET Databases
    BY <1>1, RequestFields, ConstantsAssumption DEF Keys
  <2>3. req[w].source \in Profiles => /\ ProfileInfo[req[w].source].enabled \in BOOLEAN
                                      /\ ProfileInfo[req[w].source].keys \in SUBSET Databases
    BY ConstantsAssumption
  <2>4. SidecarOf(w) \in Sidecars
    <3>1. req[w].checked \in Contents
      BY <1>1, RequestFields
    <3>2. QED
      BY <1>1, <2>1, <2>2, <2>3, <3>1 DEF SidecarOf, Sidecars
  <2>5. sidecar' \in [VMs -> Sidecars]
    BY <1>0, <1>5, <2>4 DEF WriteSidecar, DataOK
  <2>6. QED
    BY <1>0, <1>5, <2>5 DEF WriteSidecar, DataOK, PveTypeOK, pveVars
<1>6. QED
  BY <1>2, <1>3, <1>4, <1>5 DEF Step

\* A client's request to an idle worker.
LEMMA AskType ==
  ASSUME TypeOK, NEW w \in Workers, Ask(w)
  PROVE  TypeOK'
<1>0. PveTypeOK /\ ControlOK /\ DataOK /\ req[w] \in Requests
  BY DEF TypeOK, ControlOK
<1>1. PICK v \in VMs : \/ \E intent \in Intents : Receive(w, v, intent)
                       \/ \E c \in Certs : AddCert(w, v, c) \/ DeleteCert(w, v, c)
                       \/ \E db \in {DbOf[c] : c \in Certs} : ResetDatabase(w, v, db)
  BY DEF Ask
<1>2. ASSUME NEW intent \in Intents, Receive(w, v, intent) PROVE TypeOK'
  <2>1. PICK source \in Profiles \cup {"staged", NoProfile} :
          IF source = NoProfile
            THEN Advance(w, "refused", req[w])
            ELSE Advance(w, IF source = "staged" THEN "list" ELSE "guard",
                   [NoRequest EXCEPT !.vm = v, !.source = source, !.expected = PinnedHash(source)])
    <3>1. ResolveProfile(intent) \in Profiles \cup {NoProfile}
      BY ConstantsAssumption DEF ResolveProfile
    <3>2. QED
      BY <1>2, <3>1 DEF Receive
  <2>2. ASSUME source # NoProfile PROVE ControlOK'
    <3>1. DEFINE r == [NoRequest EXCEPT !.vm = v, !.source = source, !.expected = PinnedHash(source)]
                 label == IF source = "staged" THEN "list" ELSE "guard"
    <3>2. PinnedHash(source) \in Contents
      BY DEF PinnedHash, Contents
    <3>3. r \in Requests /\ r.vm \in VMs /\ r.source # NoProfile
      BY <2>2, <3>2, NoRequestType DEF Requests, NoRequest
    <3>4. label \in {"list", "guard"}
      OBVIOUS
    <3>5. Advance(w, label, r)
      BY <2>1, <2>2
    <3>. HIDE DEF r, label
    <3>6. QED
      BY <1>0, <3>3, <3>4, <3>5, AdvanceControl DEF Done, Unguarded, Located
  <2>3. ASSUME source = NoProfile PROVE ControlOK'
    <3>1. Advance(w, "refused", req[w])
      BY <2>1, <2>3
    <3>2. QED
      BY <1>0, <3>1, AdvanceControl DEF Done
  <2>4. ControlOK'
    BY <2>2, <2>3
  <2>5. received' = received + 1 /\ UNCHANGED <<pveVars, efiConf, disk, fileVars, installed>>
    BY <1>2 DEF Receive
  <2>6. QED
    BY <1>0, <2>4, <2>5 DEF TypeOK, DataOK, PveTypeOK, pveVars, fileVars
<1>3. ASSUME NEW c \in Certs, DeleteCert(w, v, c) PROVE TypeOK'
  <2>1. DEFINE r == [NoRequest EXCEPT !.vm = v, !.certs = {c}]
  <2>2. r \in Requests /\ r.vm \in VMs
    BY NoRequestType DEF Requests, NoRequest
  <2>3. Advance(w, "unlink", r) \/ Advance(w, "refused", req[w])
    BY <1>3 DEF DeleteCert
  <2>. HIDE DEF r
  <2>4. ControlOK'
    BY <1>0, <2>2, <2>3, AdvanceControl DEF Done, Unguarded, Located
  <2>5. QED
    BY <1>0, <1>3, <2>4 DEF DeleteCert, TypeOK, DataOK, PveTypeOK, pveVars, fileVars
<1>4. ASSUME NEW S \in SUBSET Certs, staged' = [staged EXCEPT ![v] = S], Goto(w, "answered"),
             UNCHANGED <<pveVars, efiConf, disk, image, built, sidecar, lock, req, installed, received>>
      PROVE  TypeOK'
  <2>1. ControlOK'
    BY <1>0, <1>4 DEF ControlOK, RequestOK, Goto, Done
  <2>2. QED
    BY <1>0, <1>4, <2>1 DEF TypeOK, DataOK, PveTypeOK, pveVars
<1>5. ASSUME NEW c \in Certs, AddCert(w, v, c) PROVE TypeOK'
  <2>1. staged[v] \cup {c} \in SUBSET Certs
    BY <1>0 DEF DataOK
  <2>2. QED
    BY <1>4, <1>5, <2>1 DEF AddCert
<1>6. ASSUME NEW db, ResetDatabase(w, v, db) PROVE TypeOK'
  <2>1. {c \in staged[v] : DbOf[c] # db} \in SUBSET Certs
    BY <1>0 DEF DataOK
  <2>2. QED
    BY <1>4, <1>6, <2>1 DEF ResetDatabase
<1>7. QED
  BY <1>1, <1>2, <1>3, <1>5, <1>6

LEMMA CrashType == TypeOK /\ Crash => TypeOK'
BY NoRequestType DEF TypeOK, Crash, ControlOK, DataOK, RequestOK, PveTypeOK, pveVars, fileVars, Done

LEMMA SurroundingsType == TypeOK /\ Surroundings => TypeOK'
<1> SUFFICES ASSUME TypeOK, Surroundings PROVE TypeOK'
  OBVIOUS
<1>0. PveTypeOK /\ ControlOK /\ DataOK
  BY DEF TypeOK
<1>1. UNCHANGED <<lock, pc, req>>
  BY DEF Surroundings, Pve, PowerRequest, GuestWrites, Reconfigure, ReplaceImage
<1>2. ControlOK'
  BY <1>0, <1>1 DEF ControlOK, RequestOK
<1>3. ASSUME NEW v \in VMs, Pve(v) \/ PowerRequest(v) PROVE PveTypeOK' /\ DataOK'
  <2>1. PveTypeOK'
    BY <1>0, <1>3, PveType, ConstantsAssumption DEF PowerRequest
  <2>2. UNCHANGED <<efiConf, disk, fileVars, installed, received>>
    BY <1>3 DEF Pve, PowerRequest
  <2>3. QED
    BY <1>0, <2>1, <2>2 DEF DataOK, fileVars
<1>4. ASSUME NEW v \in VMs, GuestWrites(v) PROVE PveTypeOK' /\ DataOK'
  BY <1>0, <1>4 DEF GuestWrites, DataOK, PveTypeOK, pveVars, fileVars, Contents
<1>5. ASSUME NEW v \in VMs, Reconfigure(v) PROVE PveTypeOK' /\ DataOK'
  <2>1. EfiConfs[v] \subseteq [volume : Volumes \cup {NoVolume}, efitype : {"4m", "2m"}]
    BY ConstantsAssumption
  <2>2. QED
    BY <1>0, <1>5, <2>1 DEF Reconfigure, DataOK, PveTypeOK, pveVars, fileVars
<1>6. ASSUME NEW p \in Profiles, ReplaceImage(p) PROVE PveTypeOK' /\ DataOK'
  BY <1>0, <1>6 DEF ReplaceImage, DataOK, PveTypeOK, pveVars, Contents
<1>7. QED
  BY <1>2, <1>3, <1>4, <1>5, <1>6 DEF Surroundings, TypeOK

LEMMA NextType == TypeOK /\ [Next]_vars => TypeOK'
<1> SUFFICES ASSUME TypeOK, [Next]_vars PROVE TypeOK'
  OBVIOUS
<1>1. ASSUME NEW w \in Workers, Step(w) PROVE TypeOK'
  BY <1>1, PrepareControl, GuardControl, WriteControl, StepData DEF Step, TypeOK
<1>2. ASSUME NEW w \in Workers, Ask(w) PROVE TypeOK'
  BY <1>2, AskType
<1>3. CASE UNCHANGED vars
  BY <1>3 DEF vars, fileVars, pveVars, TypeOK, PveTypeOK, ControlOK, DataOK, RequestOK
<1>4. QED
  BY <1>1, <1>2, <1>3, CrashType, SurroundingsType DEF Next

\* Every state the daemon, PVE, the guests and the operators reach together is
\* well-typed: a request that has an EFI disk has one that exists, and one that
\* is under way has a VM and an image to install.
THEOREM TypeCorrect == Spec => []TypeOK
<1>1. QED
  BY InitType, NextType, PTL DEF Spec


-----------------------------------------------------------------------------
(* Mutual exclusion. *)

\* Whatever step a worker takes, it ends its request, moves it on within or
\* outside the guarded section, or passes through the lock.
LEMMA StepForm ==
  ASSUME TypeOK, NEW w \in Workers, Step(w)
  PROVE  /\ pc[w] \notin Done
         /\ \/ \E how \in Done : Finish(w, how)
            \/ /\ pc' = [pc EXCEPT ![w] = pc'[w]] /\ req' = [req EXCEPT ![w] = req'[w]]
               /\ Vm(w)' = Vm(w) /\ UNCHANGED lock
               /\ pc[w] \in Guarded <=> pc'[w] \in Guarded
            \/ Acquire(w)
            \/ Unlock(w)
<1>1. pc[w] \notin Done
  BY DEF Step, Prepare, Guard, Write, WriteSidecar, Unlink, Escapes, ListStaged, StartBuild, EndBuild, ToolFails, HashBuilt,
         EnterGuard, WaitStopped, Acquire, Recheck, Unlock, Restart, Locate, CheckImage, Compare,
         StartCopy, EndCopy, Verify, Done
<1>2. req[w] \in Requests /\ pc \in [Workers -> Done \cup Guarded \cup Unguarded]
      /\ req \in [Workers -> Requests]
  BY DEF TypeOK, ControlOK
<1>3. ASSUME NEW label \in Guarded \cup Unguarded, NEW r, r.vm = req[w].vm, Advance(w, label, r),
             pc[w] \in Guarded <=> label \in Guarded
      PROVE  /\ pc' = [pc EXCEPT ![w] = pc'[w]] /\ req' = [req EXCEPT ![w] = req'[w]]
             /\ Vm(w)' = Vm(w) /\ UNCHANGED lock
             /\ pc[w] \in Guarded <=> pc'[w] \in Guarded
  BY <1>2, <1>3 DEF Advance, Goto, Vm
<1>4. CASE Prepare(w)
  <2>1. pc[w] \in {"list", "build", "building", "hash"}
    BY <1>4 DEF Prepare, ListStaged, StartBuild, EndBuild, ToolFails, HashBuilt
  <2>2. \/ \E how \in Done : Finish(w, how)
        \/ Advance(w, "build", [req[w] EXCEPT !.certs = staged[Vm(w)]])
        \/ Advance(w, "building", req[w])
        \/ Advance(w, "hash", req[w])
        \/ Advance(w, "guard", [req[w] EXCEPT !.expected = built[Vm(w)]])
    BY <1>4 DEF Prepare, ListStaged, StartBuild, EndBuild, ToolFails, HashBuilt, Done
  <2>3. QED
    BY <1>1, <1>2, <1>3, <2>1, <2>2 DEF Requests, Guarded, Unguarded
<1>5. CASE EnterGuard(w) \/ WaitStopped(w) \/ Restart(w)
  <2>1. pc[w] \in {"guard", "stopping", "restart"}
    BY <1>5 DEF EnterGuard, WaitStopped, Restart
  <2>2. \/ \E how \in Done : Finish(w, how)
        \/ Advance(w, "lock", req[w])
        \/ Advance(w, "stopping", [req[w] EXCEPT !.wasRunning = TRUE])
        \/ Advance(w, "sidecar", req[w])
    BY <1>5 DEF EnterGuard, WaitStopped, Restart, Done
  <2>3. QED
    BY <1>1, <1>2, <1>3, <2>1, <2>2 DEF Requests, Guarded, Unguarded
<1>6. CASE Recheck(w) \/ Locate(w) \/ CheckImage(w)
  <2>1. pc[w] \in Guarded
    BY <1>6 DEF Recheck, Locate, CheckImage, Guarded
  <2>2. \/ \E how \in Done : Finish(w, how)
        \/ Advance(w, "locate", req[w])
        \/ Advance(w, "check", [req[w] EXCEPT !.target = efiConf[Vm(w)].volume])
        \/ Advance(w, "compare", [req[w] EXCEPT !.checked = SourceFile(w)])
    BY <1>6 DEF Recheck, Locate, CheckImage, Done
  <2>3. QED
    BY <1>1, <1>2, <1>3, <2>1, <2>2 DEF Requests, Guarded
<1>7. CASE Compare(w) \/ StartCopy(w) \/ EndCopy(w) \/ Verify(w)
  <2>1. pc[w] \in Guarded
    BY <1>7 DEF Compare, StartCopy, EndCopy, Verify, Guarded
  <2>2. \/ \E how \in Done : Finish(w, how)
        \/ Advance(w, "dd", req[w])
        \/ Advance(w, "verify", req[w])
        \/ Advance(w, "copying", [req[w] EXCEPT !.copied = SourceFile(w)])
        \/ \E x \in {"noop", "dry", "wrote"} : Advance(w, "unlock", [req[w] EXCEPT !.result = x])
    BY <1>7 DEF Compare, StartCopy, EndCopy, Verify, Done
  <2>3. QED
    BY <1>1, <1>2, <1>3, <2>1, <2>2 DEF Requests, Guarded
<1>8. CASE WriteSidecar(w) \/ Unlink(w) \/ Escapes(w)
  BY <1>1, <1>8 DEF WriteSidecar, Unlink, Escapes, Done
<1>9. QED
  BY <1>1, <1>4, <1>5, <1>6, <1>7, <1>8 DEF Step, Guard, Write

\* A step of one worker leaves the others where they are.
LEMMA OthersKept ==
  ASSUME TypeOK, NEW w \in Workers, Step(w) \/ Ask(w), NEW u \in Workers \ {w}
  PROVE  pc'[u] = pc[u] /\ req'[u] = req[u]
<1>0. pc \in [Workers -> Done \cup Guarded \cup Unguarded] /\ req \in [Workers -> Requests]
  BY DEF TypeOK, ControlOK
<1>1. CASE Step(w)
  <2>1. ASSUME NEW how \in Done, Finish(w, how) PROVE pc'[u] = pc[u] /\ req'[u] = req[u]
    BY <1>0, <2>1 DEF Finish, Goto
  <2>2. ASSUME Acquire(w) \/ Unlock(w) PROVE pc'[u] = pc[u] /\ req'[u] = req[u]
    BY <1>0, <2>2 DEF Acquire, Unlock, Goto
  <2>3. ASSUME pc' = [pc EXCEPT ![w] = pc'[w]], req' = [req EXCEPT ![w] = req'[w]]
        PROVE  pc'[u] = pc[u] /\ req'[u] = req[u]
    BY <1>0, <2>3
  <2>4. QED
    BY <1>1, <2>1, <2>2, <2>3, StepForm
<1>2. CASE Ask(w)
  <2>1. \/ \E r : \E label \in {"refused", "list", "guard", "unlink"} : Advance(w, label, r)
        \/ Goto(w, "answered") /\ UNCHANGED <<lock, req>>
    BY <1>2 DEF Ask, Receive, AddCert, ResetDatabase, DeleteCert
  <2>2. QED
    BY <1>0, <2>1 DEF Advance, Goto
<1>3. QED
  BY <1>1, <1>2

LEMMA ExclusionInit == Init => OneWriterPerVm
BY ConstantsAssumption DEF Init, OneWriterPerVm, Guarded

LEMMA ExclusionStep == TypeOK /\ OneWriterPerVm /\ [Next]_vars => OneWriterPerVm'
<1> SUFFICES ASSUME TypeOK, OneWriterPerVm, [Next]_vars PROVE OneWriterPerVm'
  OBVIOUS
<1>0. /\ pc \in [Workers -> Done \cup Guarded \cup Unguarded] /\ req \in [Workers -> Requests]
      /\ lock \in [VMs -> Workers \cup {NoWorker}]
      /\ \A w \in Workers : pc[w] \notin Done => Vm(w) \in VMs
      /\ Done \cap Guarded = {} /\ NoWorker \notin Workers
  BY ConstantsAssumption DEF TypeOK, ControlOK, RequestOK, Vm, Done, Guarded
<1>1. ASSUME NEW w \in Workers, Step(w) PROVE OneWriterPerVm'
  <2>1. ASSUME NEW how \in Done, Finish(w, how) PROVE OneWriterPerVm'
    BY <1>0, <2>1 DEF Finish, Goto, OneWriterPerVm, Vm
  <2>2. ASSUME pc' = [pc EXCEPT ![w] = pc'[w]], req' = [req EXCEPT ![w] = req'[w]],
               Vm(w)' = Vm(w), UNCHANGED lock, pc[w] \in Guarded <=> pc'[w] \in Guarded
        PROVE  OneWriterPerVm'
    BY <1>0, <2>2 DEF OneWriterPerVm, Vm
  <2>3. ASSUME Acquire(w) PROVE OneWriterPerVm'
    BY <1>0, <2>3 DEF Acquire, Goto, OneWriterPerVm, Vm, Guarded, Done
  <2>4. ASSUME Unlock(w) PROVE OneWriterPerVm'
    <3>1. pc[w] \in Guarded /\ pc' = [pc EXCEPT ![w] = pc'[w]] /\ pc'[w] \notin Guarded
          /\ lock' = [lock EXCEPT ![Vm(w)] = NoWorker] /\ req' = req /\ Vm(w) \in VMs
      BY <1>0, <2>4 DEF Unlock, Goto, Guarded, Done
    <3>2. QED
      BY <1>0, <3>1 DEF OneWriterPerVm, Vm
  <2>5. QED
    BY <1>1, <2>1, <2>2, <2>3, <2>4, StepForm
<1>2. ASSUME NEW w \in Workers, Ask(w) PROVE OneWriterPerVm'
  <2>1. \/ \E r : \E label \in {"refused", "list", "guard", "unlink"} : Advance(w, label, r)
        \/ Goto(w, "answered") /\ UNCHANGED <<lock, req>>
    BY <1>2 DEF Ask, Receive, AddCert, ResetDatabase, DeleteCert
  <2>2. pc[w] \in Done
    BY <1>2 DEF Ask, Receive, AddCert, ResetDatabase, DeleteCert
  <2>3. /\ pc' = [pc EXCEPT ![w] = pc'[w]] /\ pc'[w] \notin Guarded /\ UNCHANGED lock
        /\ \A u \in Workers \ {w} : req'[u] = req[u]
    BY <1>0, <2>1 DEF Advance, Goto, Guarded
  <2>4. QED
    BY <1>0, <2>2, <2>3 DEF OneWriterPerVm, Vm
<1>3. CASE Crash
  BY <1>0, <1>3 DEF Crash, OneWriterPerVm, Done, Guarded
<1>4. CASE Surroundings \/ UNCHANGED vars
  <2>1. UNCHANGED <<lock, pc, req>>
    BY <1>4 DEF Surroundings, Pve, PowerRequest, GuestWrites, Reconfigure, ReplaceImage, vars
  <2>2. QED
    BY <2>1 DEF OneWriterPerVm, Vm
<1>5. QED
  BY <1>1, <1>2, <1>3, <1>4 DEF Next

\* INV-15 for any number of threads and VMs, through crashes, faults and
\* whatever PVE and the guests do: at most one request thread is between the
\* guard's lock and its release on a VM, and no lock is left behind.
THEOREM Exclusion == Spec => []OneWriterPerVm
<1>1. Init => TypeOK /\ OneWriterPerVm
  BY InitType, ExclusionInit
<1>2. TypeOK /\ OneWriterPerVm /\ [Next]_vars => (TypeOK /\ OneWriterPerVm)'
  BY NextType, ExclusionStep
<1>3. QED
  BY <1>1, <1>2, PTL DEF Spec

-----------------------------------------------------------------------------
(* What a request knows, kept by its own steps and by everybody else's.      *)

WorkerInv(w) == TargetIsOwn(w) /\ SourceIsPinned(w) /\ SeenBeforeRecorded(w)

\* A worker's facts survive any step that leaves its request alone, and hold of
\* a worker that is idle.
LEMMA WorkerFrame ==
  ASSUME NEW w \in Workers
  PROVE  /\ /\ WorkerInv(w) /\ Vm(w) \in VMs
            /\ pc'[w] = pc[w] /\ req'[w] = req[w] /\ \A v \in VMs : installed[v] \subseteq installed'[v]
            => WorkerInv(w)'
         /\ pc'[w] \in Done => WorkerInv(w)'
<1>1. ASSUME WorkerInv(w), Vm(w) \in VMs, pc'[w] = pc[w], req'[w] = req[w],
             \A v \in VMs : installed[v] \subseteq installed'[v]
      PROVE  WorkerInv(w)'
  BY <1>1 DEF WorkerInv, TargetIsOwn, SourceIsPinned, SeenBeforeRecorded, Vm
<1>2. ASSUME pc'[w] \in Done PROVE WorkerInv(w)'
  BY <1>2 DEF WorkerInv, TargetIsOwn, SourceIsPinned, SeenBeforeRecorded, Done
<1>3. QED
  BY <1>1, <1>2

\* Steps before and around the guarded section.
LEMMA WorkerOutside ==
  ASSUME TypeOK, NEW w \in Workers, WorkerInv(w), Prepare(w) \/ Guard(w)
  PROVE  WorkerInv(w)'
<1>0. /\ pc \in [Workers -> Done \cup Guarded \cup Unguarded] /\ req \in [Workers -> Requests]
      /\ req[w] \in Requests
  BY DEF TypeOK, ControlOK
<1>1. UNCHANGED installed
  BY DEF Prepare, Guard, ListStaged, StartBuild, EndBuild, ToolFails, HashBuilt, EnterGuard, WaitStopped, Acquire, Recheck,
         Unlock, Restart
<1>2. ASSUME NEW how \in Done, Finish(w, how) PROVE WorkerInv(w)'
  BY <1>0, <1>2, WorkerFrame DEF Finish, Goto
<1>3. ASSUME NEW label \in {"build", "building", "hash", "guard", "stopping", "lock", "locate"}, NEW r \in Requests,
             Advance(w, label, r), r.vm = req[w].vm, r.source = req[w].source,
             r.expected = req[w].expected \/ req[w].source = "staged",
             label \in {"build", "building", "hash"} => r.source = "staged", pc[w] \notin Done
      PROVE  WorkerInv(w)'
  <2>1. pc'[w] = label /\ req'[w] = r
    BY <1>0, <1>3 DEF Advance, Goto
  <2>2. TargetIsOwn(w)' /\ SeenBeforeRecorded(w)'
    BY <2>1 DEF TargetIsOwn, SeenBeforeRecorded
  <2>3. SourceIsPinned(w)'
    BY <1>3, <2>1, ConstantsAssumption DEF WorkerInv, SourceIsPinned, Located, Done
  <2>4. QED
    BY <2>2, <2>3 DEF WorkerInv
<1>4. CASE Prepare(w)
  <2>1. pc[w] \in {"list", "build", "building", "hash"} /\ req[w].source = "staged"
    BY <1>4 DEF Prepare, ListStaged, StartBuild, EndBuild, ToolFails, HashBuilt, WorkerInv, SourceIsPinned
  <2>2. CASE ListStaged(w)
    <3>1. DEFINE r == [req[w] EXCEPT !.certs = staged[Vm(w)]]
    <3>2. (\E how \in Done : Finish(w, how)) \/ Advance(w, "build", r)
      BY <2>2 DEF ListStaged, Done
    <3>3. r \in Requests
      <4>1. staged[Vm(w)] \in SUBSET Certs
        BY <2>1, UnderWay DEF Done, TypeOK, DataOK
      <4>2. QED
        BY <1>0, <4>1, LearnsCerts
    <3>4. r.vm = req[w].vm /\ r.source = req[w].source /\ r.expected = req[w].expected
      BY <1>0 DEF Requests
    <3>. HIDE DEF r
    <3>5. QED
      BY <1>2, <1>3, <2>1, <3>2, <3>3, <3>4 DEF Done
  <2>3. CASE StartBuild(w) \/ EndBuild(w)
    <3>1. (\E how \in Done : Finish(w, how)) \/ Advance(w, "building", req[w]) \/ Advance(w, "hash", req[w])
      BY <2>3 DEF StartBuild, EndBuild, ToolFails, Done
    <3>2. QED
      BY <1>0, <1>2, <1>3, <2>1, <3>1 DEF Done
  <2>4. CASE HashBuilt(w)
    <3>1. DEFINE r == [req[w] EXCEPT !.expected = built[Vm(w)]]
    <3>2. Advance(w, "guard", r)
      BY <2>4 DEF HashBuilt
    <3>3. r \in Requests
      <4>1. built[Vm(w)] \in Contents
        BY <2>1, UnderWay DEF Done, TypeOK, DataOK
      <4>2. QED
        BY <1>0, <4>1, LearnsContent
    <3>4. r.vm = req[w].vm /\ r.source = req[w].source
      BY <1>0 DEF Requests
    <3>. HIDE DEF r
    <3>5. QED
      BY <1>3, <2>1, <3>2, <3>3, <3>4 DEF Done
  <2>5. QED
    BY <1>4, <2>2, <2>3, <2>4 DEF Prepare
<1>5. CASE EnterGuard(w) \/ WaitStopped(w) \/ Recheck(w)
  <2>1. DEFINE r == [req[w] EXCEPT !.wasRunning = TRUE]
  <2>2. \/ \E how \in Done : Finish(w, how)
        \/ Advance(w, "lock", req[w]) \/ Advance(w, "locate", req[w]) \/ Advance(w, "stopping", r)
    BY <1>5 DEF EnterGuard, WaitStopped, Recheck, Done
  <2>3. r \in Requests
    BY <1>0, Learns
  <2>4. r.vm = req[w].vm /\ r.source = req[w].source /\ r.expected = req[w].expected
    BY <1>0 DEF Requests
  <2>5. pc[w] \notin Done
    BY <1>5 DEF EnterGuard, WaitStopped, Recheck, Done
  <2>. HIDE DEF r
  <2>6. QED
    BY <1>0, <1>2, <1>3, <2>2, <2>3, <2>4, <2>5
<1>6. CASE Acquire(w)
  BY <1>0, <1>1, <1>6 DEF Acquire, Goto, WorkerInv, TargetIsOwn, SourceIsPinned, SeenBeforeRecorded,
                          Located, Done
<1>7. CASE Unlock(w) \/ Restart(w)
  <2>1. pc[w] \in {"unlock", "restart"} /\ pc'[w] \in {"restart", "sidecar"} /\ req'[w] = req[w]
    BY <1>0, <1>7 DEF Unlock, Restart, Advance, Goto
  <2>2. QED
    BY <1>1, <2>1 DEF WorkerInv, TargetIsOwn, SourceIsPinned, SeenBeforeRecorded, Located, Done, Vm
<1>8. QED
  BY <1>4, <1>5, <1>6, <1>7 DEF Guard

\* Steps of the write itself.
LEMMA WorkerInside ==
  ASSUME TypeOK, NEW w \in Workers, WorkerInv(w), Write(w)
  PROVE  WorkerInv(w)'
<1>0. /\ pc \in [Workers -> Done \cup Guarded \cup Unguarded] /\ req \in [Workers -> Requests]
      /\ req[w] \in Requests /\ Vm(w) \in VMs
  BY UnderWay DEF TypeOK, ControlOK, Write, Locate, CheckImage, Compare, StartCopy, EndCopy, Verify, Done
<1>2. ASSUME NEW how \in Done, Finish(w, how) PROVE WorkerInv(w)'
  BY <1>0, <1>2, WorkerFrame DEF Finish, Goto
<1>3. CASE Locate(w)
  <2>1. DEFINE r == [req[w] EXCEPT !.target = efiConf[Vm(w)].volume]
  <2>2. ASSUME DiskVerified(Vm(w)), Advance(w, "check", r) PROVE WorkerInv(w)'
    <3>1. pc'[w] = "check" /\ req'[w] = r
      BY <1>0, <2>2 DEF Advance, Goto
    <3>2. r.source = req[w].source /\ r.expected = req[w].expected /\ r.target = efiConf[Vm(w)].volume
          /\ r.vm = req[w].vm
      BY <1>0 DEF Requests
    <3>3. pc[w] = "locate"
      BY <1>3 DEF Locate
    <3>. HIDE DEF r
    <3>4. TargetIsOwn(w)'
      BY <2>2, <3>1, <3>2 DEF TargetIsOwn, DiskVerified, Vm
    <3>5. SourceIsPinned(w)' /\ SeenBeforeRecorded(w)'
      BY <3>1, <3>2, <3>3 DEF WorkerInv, SourceIsPinned, SeenBeforeRecorded, Done
    <3>6. QED
      BY <3>4, <3>5 DEF WorkerInv
  <2>3. QED
    BY <1>2, <1>3, <2>2 DEF Locate, Done
<1>4. CASE CheckImage(w)
  <2>1. DEFINE r == [req[w] EXCEPT !.checked = SourceFile(w)]
  <2>2. ASSUME ImageAcceptable(w), Advance(w, "compare", r) PROVE WorkerInv(w)'
    <3>1. pc'[w] = "compare" /\ req'[w] = r
      BY <1>0, <2>2 DEF Advance, Goto
    <3>2. r.source = req[w].source /\ r.expected = req[w].expected /\ r.target = req[w].target
          /\ r.vm = req[w].vm /\ r.checked = SourceFile(w)
      BY <1>0 DEF Requests
    <3>3. pc[w] = "check"
      BY <1>4 DEF CheckImage
    <3>. HIDE DEF r
    <3>4. TargetIsOwn(w)' /\ SeenBeforeRecorded(w)'
      BY <2>2, <3>1, <3>2, <3>3 DEF WorkerInv, TargetIsOwn, SeenBeforeRecorded, ImageAcceptable, Vm
    <3>5. SourceIsPinned(w)'
      BY <2>2, <3>1, <3>2, <3>3, ConstantsAssumption
         DEF WorkerInv, SourceIsPinned, ImageAcceptable, Located, Done
    <3>6. QED
      BY <3>4, <3>5 DEF WorkerInv
  <2>3. QED
    BY <1>2, <1>4, <2>2 DEF CheckImage, Done
<1>5. CASE StartCopy(w) \/ EndCopy(w)
  <2>1. DEFINE r == [req[w] EXCEPT !.copied = SourceFile(w)]
  <2>2. ASSUME NEW q, NEW label \in {"copying", "verify"}, Advance(w, label, q), q = r \/ q = req[w],
               label = "copying" => pc[w] = "dd"
        PROVE  WorkerInv(w)'
    <3>1. pc'[w] = label /\ req'[w] = q
      BY <1>0, <2>2 DEF Advance, Goto
    <3>2. q.source = req[w].source /\ q.expected = req[w].expected /\ q.target = req[w].target
          /\ q.vm = req[w].vm /\ q.checked = req[w].checked
      BY <1>0, <2>2 DEF Requests
    <3>3. pc[w] \in {"dd", "copying"}
      BY <1>5 DEF StartCopy, EndCopy
    <3>4. TargetIsOwn(w)' /\ SeenBeforeRecorded(w)'
      BY <2>2, <3>1, <3>2, <3>3 DEF WorkerInv, TargetIsOwn, SeenBeforeRecorded, Vm
    <3>5. SourceIsPinned(w)'
      BY <2>2, <3>1, <3>2, <3>3 DEF WorkerInv, SourceIsPinned, Located, Done
    <3>6. QED
      BY <3>4, <3>5 DEF WorkerInv
  <2>3. \/ \E how \in Done : Finish(w, how)
        \/ pc[w] = "dd" /\ Advance(w, "copying", r)
        \/ Advance(w, "verify", req[w])
    BY <1>5 DEF StartCopy, EndCopy, Done
  <2>. HIDE DEF r
  <2>4. QED
    BY <1>2, <2>2, <2>3
<1>6. CASE Compare(w) \/ Verify(w)
  <2>1. ASSUME NEW x \in {"noop", "dry", "wrote"}, Advance(w, "unlock", [req[w] EXCEPT !.result = x]),
               x # "dry" => req[w].checked \in installed'[Vm(w)]
        PROVE  WorkerInv(w)'
    <3>1. DEFINE r == [req[w] EXCEPT !.result = x]
    <3>2. pc'[w] = "unlock" /\ req'[w] = r
      BY <1>0, <2>1 DEF Advance, Goto
    <3>3. r.source = req[w].source /\ r.expected = req[w].expected /\ r.target = req[w].target
          /\ r.vm = req[w].vm /\ r.checked = req[w].checked /\ r.result = x
      BY <1>0 DEF Requests
    <3>4. pc[w] \in {"compare", "verify"}
      BY <1>6 DEF Compare, Verify
    <3>. HIDE DEF r
    <3>5. TargetIsOwn(w)' /\ SeenBeforeRecorded(w)'
      BY <2>1, <3>2, <3>3, <3>4 DEF WorkerInv, TargetIsOwn, SeenBeforeRecorded, Vm
    <3>6. SourceIsPinned(w)'
      BY <3>2, <3>3, <3>4 DEF WorkerInv, SourceIsPinned, Located, Done
    <3>7. QED
      BY <3>5, <3>6 DEF WorkerInv
  <2>2. ASSUME NoteInstalled(w), disk[req[w].target] = req[w].checked
        PROVE  req[w].checked \in installed'[Vm(w)]
    BY <1>0, <2>2 DEF NoteInstalled, TypeOK, DataOK
  <2>3. ASSUME Advance(w, "dd", req[w]), AllowWrite, pc[w] = "compare" PROVE WorkerInv(w)'
    <3>1. pc'[w] = "dd" /\ req'[w] = req[w]
      BY <1>0, <2>3 DEF Advance, Goto
    <3>2. QED
      BY <2>3, <3>1 DEF WorkerInv, TargetIsOwn, SourceIsPinned, SeenBeforeRecorded, Vm, Located, Done
  <2>4. \/ \E how \in Done : Finish(w, how)
        \/ Advance(w, "dd", req[w]) /\ AllowWrite /\ pc[w] = "compare"
        \/ Advance(w, "unlock", [req[w] EXCEPT !.result = "dry"])
        \/ \E x \in {"noop", "wrote"} : /\ Advance(w, "unlock", [req[w] EXCEPT !.result = x])
                                        /\ NoteInstalled(w) /\ disk[req[w].target] = req[w].checked
    BY <1>6 DEF Compare, Verify, Same, Done
  <2>5. QED
    BY <1>2, <2>1, <2>2, <2>3, <2>4
<1>7. QED
  BY <1>3, <1>4, <1>5, <1>6 DEF Write

\* A new request starts with its profile's own hash.
LEMMA WorkerAsked ==
  ASSUME TypeOK, NEW w \in Workers, Ask(w)
  PROVE  WorkerInv(w)'
<1>0. pc \in [Workers -> Done \cup Guarded \cup Unguarded] /\ req \in [Workers -> Requests]
  BY DEF TypeOK, ControlOK
<1>1. ASSUME NEW v \in VMs, NEW intent \in Intents, Receive(w, v, intent) PROVE WorkerInv(w)'
  <2>1. PICK source : \/ Advance(w, "refused", req[w])
                      \/ /\ source = "staged" \/ source \in Profiles
                         /\ Advance(w, IF source = "staged" THEN "list" ELSE "guard",
                              [NoRequest EXCEPT !.vm = v, !.source = source, !.expected = PinnedHash(source)])
    BY <1>1, ConstantsAssumption DEF Receive, ResolveProfile
  <2>2. CASE Advance(w, "refused", req[w])
    BY <1>0, <2>2, WorkerFrame DEF Advance, Goto, Done
  <2>3. ASSUME NEW label \in {"list", "guard"}, NEW r, Advance(w, label, r), r.source = source,
               r.expected = PinnedHash(source), label = "list" => source = "staged"
        PROVE  WorkerInv(w)'
    <3>1. pc'[w] = label /\ req'[w] = r
      BY <1>0, <2>3 DEF Advance, Goto
    <3>2. QED
      BY <2>3, <3>1, ConstantsAssumption
         DEF WorkerInv, TargetIsOwn, SourceIsPinned, SeenBeforeRecorded, PinnedHash, Located
  <2>4. LET r == [NoRequest EXCEPT !.vm = v, !.source = source, !.expected = PinnedHash(source)]
        IN  r.source = source /\ r.expected = PinnedHash(source)
    BY DEF NoRequest
  <2>5. QED
    BY <2>1, <2>2, <2>3, <2>4
<1>2. ASSUME NEW v \in VMs, NEW c \in Certs, DeleteCert(w, v, c) PROVE WorkerInv(w)'
  <2>1. PICK r : \/ Advance(w, "refused", r)
                 \/ Advance(w, "unlink", r) /\ r.source = NoProfile
    <3>1. [NoRequest EXCEPT !.vm = v, !.certs = {c}].source = NoProfile
      BY DEF NoRequest
    <3>2. QED
      BY <1>2, <3>1 DEF DeleteCert
  <2>2. pc'[w] \in Done \/ (pc'[w] = "unlink" /\ req'[w].source = NoProfile)
    BY <1>0, <2>1 DEF Advance, Goto, Done
  <2>3. QED
    BY <2>2, WorkerFrame, ConstantsAssumption
       DEF WorkerInv, TargetIsOwn, SourceIsPinned, SeenBeforeRecorded
<1>3. ASSUME NEW v \in VMs, NEW x, AddCert(w, v, x) \/ ResetDatabase(w, v, x) PROVE WorkerInv(w)'
  BY <1>0, <1>3, WorkerFrame DEF AddCert, ResetDatabase, Goto, Done
<1>4. QED
  BY <1>1, <1>2, <1>3 DEF Ask

-----------------------------------------------------------------------------
(* The sidecars, and the whole invariant. *)

\* Only WriteSidecar changes a sidecar; what is confirmed is never forgotten.
LEMMA SidecarStep ==
  ASSUME WritePathInv, [Next]_vars
  PROVE  /\ SidecarTruthful' /\ PinnedProfileIsItsImage'
         /\ \A v \in VMs : installed[v] \subseteq installed'[v]
<1>0. TypeOK /\ DataOK /\ SidecarTruthful /\ PinnedProfileIsItsImage
  BY DEF WritePathInv, TypeOK
<1>1. \/ UNCHANGED installed
      \/ \E w \in Workers : Write(w) /\ NoteInstalled(w)
  <2>1. ASSUME NEW w \in Workers, Write(w), ~UNCHANGED installed PROVE NoteInstalled(w)
    BY <2>1 DEF Write, Locate, CheckImage, Compare, StartCopy, EndCopy, Verify
  <2>2. ASSUME NEW w \in Workers, Prepare(w) \/ Guard(w) \/ WriteSidecar(w) \/ Unlink(w) \/ Escapes(w)
        PROVE  UNCHANGED installed
    BY <2>2 DEF Prepare, Guard, WriteSidecar, Unlink, Escapes, ListStaged, StartBuild, EndBuild, ToolFails, HashBuilt,
                EnterGuard, WaitStopped, Acquire, Recheck, Unlock, Restart
  <2>3. ASSUME NEW w \in Workers, Ask(w) PROVE UNCHANGED installed
    BY <2>3 DEF Ask, Receive, AddCert, ResetDatabase, DeleteCert
  <2>4. ASSUME Crash \/ Surroundings \/ UNCHANGED vars PROVE UNCHANGED installed
    BY <2>4 DEF Crash, Surroundings, Pve, PowerRequest, GuestWrites, Reconfigure, ReplaceImage, vars
  <2>5. QED
    BY <2>1, <2>2, <2>3, <2>4 DEF Next, Step
<1>2. \A v \in VMs : installed[v] \subseteq installed'[v]
  BY <1>0, <1>1 DEF NoteInstalled, DataOK
<1>3. UNCHANGED sidecar \/ \E w \in Workers : WriteSidecar(w)
  <2>1. ASSUME NEW w \in Workers, Write(w) \/ Guard(w) \/ Prepare(w) \/ Unlink(w) \/ Escapes(w)
        PROVE  UNCHANGED sidecar
    BY <2>1 DEF Write, Locate, CheckImage, Compare, StartCopy, EndCopy, Verify, Prepare, Guard, Unlink,
                Escapes, ListStaged, StartBuild, EndBuild, ToolFails, HashBuilt, EnterGuard, WaitStopped, Acquire, Recheck,
                Unlock, Restart, fileVars
  <2>2. ASSUME NEW w \in Workers, Ask(w) PROVE UNCHANGED sidecar
    BY <2>2 DEF Ask, Receive, AddCert, ResetDatabase, DeleteCert, fileVars
  <2>3. ASSUME Crash \/ Surroundings \/ UNCHANGED vars PROVE UNCHANGED sidecar
    BY <2>3 DEF Crash, Surroundings, Pve, PowerRequest, GuestWrites, Reconfigure, ReplaceImage, vars, fileVars
  <2>4. QED
    BY <2>1, <2>2, <2>3 DEF Next, Step
<1>4. CASE UNCHANGED sidecar
  BY <1>0, <1>2, <1>4 DEF SidecarTruthful, PinnedProfileIsItsImage
<1>5. ASSUME NEW w \in Workers, WriteSidecar(w)
      PROVE  SidecarTruthful' /\ PinnedProfileIsItsImage'
  <2>1. /\ pc[w] = "sidecar" /\ sidecar' = [sidecar EXCEPT ![Vm(w)] = SidecarOf(w)]
        /\ UNCHANGED installed
    BY <1>5 DEF WriteSidecar
  <2>2. Vm(w) \in VMs /\ req[w].source \in Profiles \cup {"staged"}
    BY <1>0, <2>1, UnderWay DEF Done
  <2>3. /\ SidecarOf(w).profile = req[w].source /\ SidecarOf(w).content = req[w].checked
        /\ SidecarOf(w).dry <=> req[w].result = "dry"
    BY DEF SidecarOf
  <2>4. /\ req[w].result # "dry" => req[w].checked \in installed[Vm(w)]
        /\ req[w].source \in Profiles /\ ProfileInfo[req[w].source].pinned => req[w].checked = req[w].source
    BY <2>1 DEF WritePathInv, SeenBeforeRecorded, SourceIsPinned, Done, Located
  <2>5. \A v \in VMs : IF v = Vm(w) THEN sidecar'[v] = SidecarOf(w) ELSE sidecar'[v] = sidecar[v]
    BY <1>0, <2>1, <2>2 DEF DataOK
  <2>6. QED
    BY <1>0, <2>1, <2>2, <2>3, <2>4, <2>5 DEF SidecarTruthful, PinnedProfileIsItsImage
<1>6. QED
  BY <1>2, <1>3, <1>4, <1>5

LEMMA InvInit == Init => WritePathInv
<1> SUFFICES ASSUME Init PROVE WritePathInv
  OBVIOUS
<1>1. \A w \in Workers : TargetIsOwn(w) /\ SourceIsPinned(w) /\ SeenBeforeRecorded(w)
  BY DEF Init, TargetIsOwn, SourceIsPinned, SeenBeforeRecorded, Done
<1>2. SidecarTruthful /\ PinnedProfileIsItsImage
  BY ConstantsAssumption DEF Init, NoSidecar, SidecarTruthful, PinnedProfileIsItsImage
<1>3. QED
  BY <1>1, <1>2, InitType, ExclusionInit DEF WritePathInv

LEMMA InvStep == WritePathInv /\ [Next]_vars => WritePathInv'
<1> SUFFICES ASSUME WritePathInv, [Next]_vars PROVE WritePathInv'
  OBVIOUS
<1>0. /\ TypeOK /\ OneWriterPerVm /\ \A w \in Workers : WorkerInv(w)
      /\ pc \in [Workers -> Done \cup Guarded \cup Unguarded] /\ req \in [Workers -> Requests]
  BY DEF WritePathInv, WorkerInv, TypeOK, ControlOK
<1>1. \A v \in VMs : installed[v] \subseteq installed'[v]
  BY SidecarStep
<1>2. ASSUME NEW u \in Workers, pc'[u] = pc[u], req'[u] = req[u] PROVE WorkerInv(u)'
  <2>1. CASE pc[u] \in Done
    BY <1>2, <2>1, WorkerFrame
  <2>2. CASE pc[u] \notin Done
    BY <1>0, <1>1, <1>2, <2>2, WorkerFrame, UnderWay
  <2>3. QED
    BY <2>1, <2>2
<1>3. ASSUME NEW w \in Workers, WorkerInv(w)', \A u \in Workers \ {w} : pc'[u] = pc[u] /\ req'[u] = req[u]
      PROVE  \A u \in Workers : WorkerInv(u)'
  BY <1>2, <1>3
<1>4. ASSUME NEW w \in Workers, Step(w) PROVE \A u \in Workers : WorkerInv(u)'
  <2>1. WorkerInv(w)'
    <3>1. CASE Prepare(w) \/ Guard(w)
      BY <1>0, <3>1, WorkerOutside
    <3>2. CASE Write(w)
      BY <1>0, <3>2, WorkerInside
    <3>3. CASE WriteSidecar(w) \/ Unlink(w) \/ Escapes(w)
      BY <1>0, <3>3, WorkerFrame DEF WriteSidecar, Unlink, Escapes, Finish, Goto, Done
    <3>4. QED
      BY <1>4, <3>1, <3>2, <3>3 DEF Step
  <2>2. QED
    BY <1>0, <1>3, <1>4, <2>1, OthersKept
<1>5. ASSUME NEW w \in Workers, Ask(w) PROVE \A u \in Workers : WorkerInv(u)'
  BY <1>0, <1>3, <1>5, WorkerAsked, OthersKept
<1>6. ASSUME Crash PROVE \A u \in Workers : WorkerInv(u)'
  BY <1>6, WorkerFrame DEF Crash, Done
<1>7. ASSUME Surroundings \/ UNCHANGED vars PROVE \A u \in Workers : WorkerInv(u)'
  <2>1. UNCHANGED <<pc, req>>
    BY <1>7 DEF Surroundings, Pve, PowerRequest, GuestWrites, Reconfigure, ReplaceImage, vars
  <2>2. QED
    BY <1>2, <2>1
<1>8. \A u \in Workers : WorkerInv(u)'
  BY <1>4, <1>5, <1>6, <1>7 DEF Next
<1>9. QED
  BY <1>0, <1>8, NextType, ExclusionStep, SidecarStep DEF WritePathInv, WorkerInv

\* The invariant holds for any number of threads, VMs, volumes, profiles and
\* certificates, whatever is misconfigured and whatever faults occur.
THEOREM Invariant == Spec => []WritePathInv
BY InvInit, InvStep, PTL DEF Spec

\* A sidecar never claims an image that was not seen on its VM's disk, whatever
\* crashes, failed writes and other threads come between.
THEOREM TruthfulSidecars == Spec => []SidecarTruthful
<1>1. WritePathInv => SidecarTruthful
  BY DEF WritePathInv
<1>2. QED
  BY <1>1, Invariant, PTL

\* INV-11: a pinned profile is never reported with another image than its own,
\* even when its file is replaced while the request runs.
THEOREM PinnedImages == Spec => []PinnedProfileIsItsImage
<1>1. WritePathInv => PinnedProfileIsItsImage
  BY DEF WritePathInv
<1>2. QED
  BY <1>1, Invariant, PTL

\* INV-05/07, INV-15, INV-16: whoever changes a volume is its running guest, or
\* the one thread that holds the lock of the VM the volume is named after, with
\* writes enabled and the volume large enough.
THEOREM GuardedChanges == Spec => DiskChangesAreGuarded
<1>1. DEFINE Guarding ==
        \A d \in Volumes : disk'[d] # disk[d] =>
          \/ \E v \in VMs : VmIsRunning(v) /\ efiConf[v].volume = d
          \/ \E w \in Workers : /\ AllowWrite
                                /\ pc[w] \in {"dd", "copying"}
                                /\ req[w].target = d /\ d \notin SmallVolumes
                                /\ lock[VolumeVm[d]] = w
<1>2. WritePathInv /\ [Next]_vars => [Guarding]_vars
  <2> SUFFICES ASSUME WritePathInv, [Next]_vars PROVE Guarding
    OBVIOUS
  <2>1. disk \in [Volumes -> Contents]
    BY DEF WritePathInv, TypeOK, DataOK
  <2>2. ASSUME NEW w \in Workers, StartCopy(w) \/ EndCopy(w) PROVE Guarding
    <3>1. pc[w] \in {"dd", "copying"}
      BY <2>2 DEF StartCopy, EndCopy
    <3>2. /\ AllowWrite /\ req[w].target \notin SmallVolumes
          /\ lock[VolumeVm[req[w].target]] = w
      BY <3>1 DEF WritePathInv, TargetIsOwn, OneWriterPerVm, Guarded
    <3>3. \A d \in Volumes : disk'[d] # disk[d] => d = req[w].target
      BY <2>1, <2>2 DEF StartCopy, EndCopy
    <3>4. QED
      BY <3>1, <3>2, <3>3
  <2>3. ASSUME NEW v \in VMs, GuestWrites(v) PROVE Guarding
    BY <2>1, <2>3 DEF GuestWrites
  <2>4. ASSUME UNCHANGED disk PROVE Guarding
    BY <2>4
  <2>5. ASSUME NEW w \in Workers, Step(w), ~StartCopy(w), ~EndCopy(w) PROVE UNCHANGED disk
    BY <2>5 DEF Step, Prepare, Guard, Write, WriteSidecar, Unlink, Escapes, ListStaged, StartBuild, EndBuild, ToolFails, HashBuilt,
                EnterGuard, WaitStopped, Acquire, Recheck, Unlock, Restart, Locate, CheckImage, Compare,
                Verify
  <2>6. ASSUME NEW w \in Workers, Ask(w) PROVE UNCHANGED disk
    BY <2>6 DEF Ask, Receive, AddCert, ResetDatabase, DeleteCert
  <2>7. ASSUME NEW v \in VMs, Pve(v) \/ PowerRequest(v) \/ Reconfigure(v) PROVE UNCHANGED disk
    BY <2>7 DEF Pve, PowerRequest, Reconfigure
  <2>8. ASSUME Crash \/ UNCHANGED vars \/ \E p \in Profiles : ReplaceImage(p) PROVE UNCHANGED disk
    BY <2>8 DEF Crash, ReplaceImage, vars
  <2>. HIDE DEF Guarding
  <2>9. QED
    BY <2>2, <2>3, <2>4, <2>5, <2>6, <2>7, <2>8 DEF Next, Surroundings
<1>3. QED
  BY <1>2, Invariant, PTL DEF Spec, DiskChangesAreGuarded

-----------------------------------------------------------------------------
(* SecureBoot implements VarstoreSwap: every step of the daemon, of PVE and  *)
(* of the guests is a step of the abstract swap, or none at all.             *)


\* What is claimed of each VM (the substitution for VarstoreSwap's claim).
Claimed == [v \in VMs |-> IF sidecar[v].dry THEN NoImage ELSE sidecar[v].content]

LEMMA SwapInit == Init => Swap!Init
BY DEF Init, Swap!Init, NoSidecar

\* A request ending (or the daemon dying) closes the sessions it had.
LEMMA FinishCloses ==
  ASSUME NEW w \in Workers, NEW how, Finish(w, how), UNCHANGED <<disk, installed, sidecar>>
  PROVE  Swap!Next
<1>1. DEFINE S == {v \in VMs : lock[v] = w}
<1>2. S \in SUBSET VMs
  OBVIOUS
<1>3. lock' = [v \in VMs |-> IF v \in S THEN NoWorker ELSE lock[v]]
  BY DEF Finish
<1>. HIDE DEF S
<1>4. Swap!Close(S)
  BY <1>3 DEF Swap!Close
<1>5. QED
  BY <1>2, <1>4 DEF Swap!Next

LEMMA SwapStep ==
  ASSUME WritePathInv, [Next]_vars
  PROVE  [Swap!Next]_(Swap!svars)
<1>0. /\ TypeOK /\ OneWriterPerVm /\ \A w \in Workers : WorkerInv(w)
      /\ lock \in [VMs -> Workers \cup {NoWorker}] /\ NoWorker \notin Workers
      /\ disk \in [Volumes -> Contents] /\ sidecar \in [VMs -> Sidecars]
  BY ConstantsAssumption DEF WritePathInv, WorkerInv, TypeOK, ControlOK, DataOK
\* A step that changes none of the four is a stutter.
<1>1. ASSUME UNCHANGED <<disk, lock, installed, sidecar>> PROVE UNCHANGED Swap!svars
  BY <1>1 DEF Swap!svars
<1>2. ASSUME NEW w \in Workers, Prepare(w) \/ Unlink(w) \/ Escapes(w) \/ EnterGuard(w) \/ WaitStopped(w)
                                \/ Recheck(w) \/ Restart(w) \/ Locate(w) \/ CheckImage(w)
      PROVE  [Swap!Next]_(Swap!svars)
  <2>1. UNCHANGED <<disk, installed, sidecar>>
    BY <1>2 DEF Prepare, ListStaged, StartBuild, EndBuild, ToolFails, HashBuilt, Unlink, Escapes, EnterGuard, WaitStopped,
                Recheck, Restart, Locate, CheckImage, fileVars
  <2>2. (\E how \in Done : Finish(w, how)) \/ UNCHANGED lock
    BY <1>2 DEF Prepare, ListStaged, StartBuild, EndBuild, ToolFails, HashBuilt, Unlink, Escapes, EnterGuard, WaitStopped,
                Recheck, Restart, Locate, CheckImage, Advance, Done
  <2>3. QED
    BY <1>1, <2>1, <2>2, FinishCloses
<1>3. ASSUME NEW w \in Workers, Acquire(w) PROVE Swap!Next
  <2>1. Vm(w) \in VMs
    BY <1>0, <1>3, UnderWay DEF Acquire, Done
  <2>2. Swap!Open(Vm(w), w)
    BY <1>3 DEF Acquire, fileVars, Swap!Open
  <2>3. QED
    BY <2>1, <2>2 DEF Swap!Next
<1>4. ASSUME NEW w \in Workers, Unlock(w) PROVE Swap!Next
  <2>1. Vm(w) \in VMs
    BY <1>0, <1>4, UnderWay DEF Unlock, Done
  <2>2. Swap!Close({Vm(w)})
    BY <1>0, <1>4, <2>1 DEF Unlock, fileVars, Swap!Close
  <2>3. QED
    BY <2>1, <2>2 DEF Swap!Next
<1>5. ASSUME NEW w \in Workers, Compare(w) \/ StartCopy(w) \/ EndCopy(w) \/ Verify(w)
      PROVE  [Swap!Next]_(Swap!svars)
  <2>1. /\ pc[w] \in {"compare", "dd", "copying", "verify"} /\ UNCHANGED sidecar
        /\ \/ UNCHANGED <<disk, installed, lock>>
           \/ (\E how \in Done : Finish(w, how)) /\ UNCHANGED <<disk, installed>>
           \/ NoteInstalled(w) /\ UNCHANGED <<disk, lock>>
           \/ /\ \E c \in {Torn, req[w].copied} : disk' = [disk EXCEPT ![req[w].target] = c]
              /\ UNCHANGED <<lock, installed>>
    BY <1>5 DEF Compare, StartCopy, EndCopy, Verify, Advance, fileVars, Done
  <2>2. /\ Vm(w) \in VMs /\ req[w].target \in Swap!Own(Vm(w)) /\ lock[Vm(w)] # NoWorker
        /\ req[w].copied \in Contents
    <3>1. Vm(w) \in VMs /\ req[w].target \in Volumes /\ req[w] \in Requests
      BY <1>0, <2>1, UnderWay DEF Done, Located
    <3>2. VolumeVm[req[w].target] = Vm(w) /\ lock[Vm(w)] = w
      BY <1>0, <2>1 DEF WorkerInv, TargetIsOwn, OneWriterPerVm, Guarded
    <3>3. QED
      BY <1>0, <3>1, <3>2, RequestFields DEF Swap!Own
  <2>3. CASE UNCHANGED <<disk, installed, lock>>
    BY <1>1, <2>1, <2>3
  <2>4. ASSUME NEW how \in Done, Finish(w, how), UNCHANGED <<disk, installed>> PROVE Swap!Next
    BY <2>1, <2>4, FinishCloses
  <2>5. ASSUME NoteInstalled(w), UNCHANGED <<disk, lock>> PROVE Swap!Next
    <3>1. Swap!Confirm(Vm(w))
      BY <2>1, <2>2, <2>5 DEF NoteInstalled, Swap!Confirm
    <3>2. QED
      BY <2>2, <3>1 DEF Swap!Next
  <2>6. ASSUME NEW c \in {Torn, req[w].copied}, disk' = [disk EXCEPT ![req[w].target] = c],
               UNCHANGED <<lock, installed>>
        PROVE  Swap!Next
    <3>1. c \in Contents
      BY <2>2 DEF Contents
    <3>2. Swap!Change(Vm(w))
      BY <2>1, <2>2, <2>6, <3>1 DEF Swap!Change
    <3>3. QED
      BY <2>2, <3>2 DEF Swap!Next
  <2>7. QED
    BY <2>1, <2>3, <2>4, <2>5, <2>6
<1>6. ASSUME NEW w \in Workers, WriteSidecar(w) PROVE Swap!Next
  <2>1. /\ pc[w] = "sidecar" /\ sidecar' = [sidecar EXCEPT ![Vm(w)] = SidecarOf(w)]
        /\ Finish(w, "answered") /\ UNCHANGED <<disk, installed>>
    BY <1>6 DEF WriteSidecar
  <2>2. Vm(w) \in VMs
    BY <1>0, <2>1, UnderWay DEF Done
  <2>3. UNCHANGED lock
    <3>1. \A v \in VMs : lock[v] # w
      BY <1>0, <2>1 DEF OneWriterPerVm, Guarded
    <3>2. QED
      BY <1>0, <2>1, <3>1 DEF Finish
  <2>4. DEFINE c == IF SidecarOf(w).dry THEN NoImage ELSE SidecarOf(w).content
  <2>5. c \in installed[Vm(w)] \cup {NoImage}
    BY <1>0, <2>1 DEF WorkerInv, SeenBeforeRecorded, SidecarOf
  <2>6. Claimed' = [Claimed EXCEPT ![Vm(w)] = c]
    BY <1>0, <2>1, <2>2 DEF Claimed
  <2>. HIDE DEF c
  <2>7. PICK v \in VMs : v = Vm(w)
    BY <2>2
  <2>8. Swap!Claim(v)
    <3>1. \E x \in installed[v] \cup {NoImage} : Claimed' = [Claimed EXCEPT ![v] = x]
      BY <2>5, <2>6, <2>7
    <3>2. UNCHANGED <<disk, lock, installed>>
      BY <2>1, <2>3
    <3>3. QED
      BY <3>1, <3>2, Zenon DEF Swap!Claim, Claimed
  <2>9. QED
    BY <2>8 DEF Swap!Next
<1>7. ASSUME NEW w \in Workers, Ask(w) PROVE [Swap!Next]_(Swap!svars)
  <2>1. UNCHANGED <<disk, lock, installed, sidecar>>
    BY <1>7 DEF Ask, Receive, AddCert, ResetDatabase, DeleteCert, Advance, fileVars
  <2>2. QED
    BY <1>1, <2>1
<1>8. ASSUME Crash PROVE Swap!Next
  <2>1. Swap!Close(VMs)
    BY <1>8 DEF Crash, fileVars, Swap!Close
  <2>2. QED
    BY <2>1 DEF Swap!Next
<1>9. ASSUME Surroundings \/ UNCHANGED vars PROVE [Swap!Next]_(Swap!svars)
  <2>1. ASSUME NEW v \in VMs, GuestWrites(v) PROVE [Swap!Next]_(Swap!svars)
    <3>1. CASE efiConf[v].volume \in Volumes
      <4>1. Swap!GuestWrites
        BY <2>1, <3>1 DEF GuestWrites, fileVars, Swap!GuestWrites
      <4>2. QED
        BY <4>1 DEF Swap!Next
    <3>2. CASE efiConf[v].volume \notin Volumes
      <4>1. UNCHANGED <<disk, lock, installed, sidecar>>
        BY <1>0, <2>1, <3>2 DEF GuestWrites, fileVars
      <4>2. QED
        BY <1>1, <4>1
    <3>3. QED
      BY <3>1, <3>2
  <2>2. ASSUME NEW v \in VMs, Pve(v) \/ PowerRequest(v) \/ Reconfigure(v)
        PROVE  UNCHANGED <<disk, lock, installed, sidecar>>
    BY <2>2 DEF Pve, PowerRequest, Reconfigure, fileVars
  <2>3. ASSUME UNCHANGED vars \/ \E p \in Profiles : ReplaceImage(p)
        PROVE  UNCHANGED <<disk, lock, installed, sidecar>>
    BY <2>3 DEF ReplaceImage, vars, fileVars
  <2>4. QED
    BY <1>1, <1>9, <2>1, <2>2, <2>3 DEF Surroundings
<1>10. QED
  BY <1>2, <1>3, <1>4, <1>5, <1>6, <1>7, <1>8, <1>9 DEF Next, Step, Guard, Write

\* The write path refines the varstore swap: sessions are exclusive, volumes
\* change only in their own VM's session or by a guest, and nothing is claimed
\* of a VM that was not confirmed on its disk in a session.
THEOREM Refinement == Spec => ImplementsSwap
<1>1. WritePathInv /\ [Next]_vars => [Swap!Next]_(Swap!svars)
  BY SwapStep
<1>2. QED
  BY SwapInit, <1>1, Invariant, PTL DEF Spec, ImplementsSwap, Swap!Spec

-----------------------------------------------------------------------------
(* What the write path makes of PVE's tasks.                                 *)

\* The kinds of task that others post, and that the write path posts itself.
Posted == PowerKinds \cup (IF AllowAutostop THEN {"stop", "start"} ELSE {})

\* Only with autostop is a request about to start its VM again.
RestartsAllowed == \A w \in Workers : pc[w] = "restart" => AllowAutostop

LEMMA RestartsStep == TypeOK /\ RestartsAllowed /\ [Next]_vars => RestartsAllowed'
<1> SUFFICES ASSUME TypeOK, RestartsAllowed, [Next]_vars PROVE RestartsAllowed'
  OBVIOUS
<1>0. pc \in [Workers -> Done \cup Guarded \cup Unguarded]
  BY DEF TypeOK, ControlOK
<1>1. ASSUME NEW w \in Workers, Ask(w) PROVE RestartsAllowed'
  BY <1>0, <1>1 DEF Ask, Receive, AddCert, ResetDatabase, DeleteCert, Advance, Goto, Unguarded, RestartsAllowed
<1>2. ASSUME NEW w \in Workers, Step(w) PROVE RestartsAllowed'
  <2>1. ASSUME NEW how \in Done, Finish(w, how) PROVE RestartsAllowed'
    BY <1>0, <2>1 DEF Finish, Goto, Done, RestartsAllowed
  <2>2. CASE Prepare(w)
    BY <1>0, <2>1, <2>2 DEF Prepare, ListStaged, StartBuild, EndBuild, ToolFails, HashBuilt, Advance, Goto, Done, RestartsAllowed
  <2>3. CASE EnterGuard(w) \/ WaitStopped(w) \/ Acquire(w) \/ Recheck(w)
    BY <1>0, <2>1, <2>3 DEF EnterGuard, WaitStopped, Acquire, Recheck, Advance, Goto, Done, RestartsAllowed
  <2>4. CASE Unlock(w) \/ Restart(w)
    BY <1>0, <2>4 DEF Unlock, Restart, Goto, RestartsAllowed
  <2>5. CASE Write(w)
    BY <1>0, <2>1, <2>5 DEF Write, Locate, CheckImage, Compare, StartCopy, EndCopy, Verify, Advance, Goto,
       Done, RestartsAllowed
  <2>6. CASE WriteSidecar(w) \/ Unlink(w) \/ Escapes(w)
    BY <1>0, <2>1, <2>6 DEF WriteSidecar, Unlink, Escapes, Done, RestartsAllowed
  <2>7. QED
    BY <1>2, <2>2, <2>3, <2>4, <2>5, <2>6 DEF Step, Guard
<1>3. CASE Crash
  BY <1>3 DEF Crash, RestartsAllowed
<1>4. CASE Surroundings \/ UNCHANGED vars
  BY <1>4 DEF Surroundings, Pve, PowerRequest, GuestWrites, Reconfigure, ReplaceImage, vars, RestartsAllowed
<1>5. QED
  BY <1>1, <1>2, <1>3, <1>4 DEF Next

\* What a step does to the VMs and their tasks is PVE's own, or posts one of those kinds.
LEMMA StepIsPveStep == TypeOK /\ RestartsAllowed /\ [Next]_vars => [PveNext(Posted)]_pveVars
<1> SUFFICES ASSUME TypeOK, RestartsAllowed, [Next]_vars PROVE [PveNext(Posted)]_pveVars
  OBVIOUS
<1>1. ASSUME NEW w \in Workers, Step(w) PROVE [PveNext(Posted)]_pveVars
  <2>1. CASE EnterGuard(w) \/ Restart(w)
    <3>1. Vm(w) \in VMs
      BY <2>1, UnderWay DEF EnterGuard, Restart, Done
    <3>2. UNCHANGED pveVars \/ \E kind \in {"stop", "start"} : Post(Vm(w), kind) /\ UNCHANGED qmp /\ AllowAutostop
      BY <2>1 DEF EnterGuard, Restart, RestartsAllowed, pveVars
    <3>3. QED
      BY <3>1, <3>2 DEF PveNext, Posted
  <2>2. CASE ~EnterGuard(w) /\ ~Restart(w)
    BY <1>1, <2>2 DEF Step, Prepare, Guard, Write, WriteSidecar, Unlink, Escapes, ListStaged, StartBuild, EndBuild, ToolFails,
       HashBuilt, WaitStopped, Acquire, Recheck, Unlock, Locate, CheckImage,
       Compare, StartCopy, EndCopy, Verify, pveVars
  <2>3. QED
    BY <2>1, <2>2
<1>2. ASSUME NEW w \in Workers, Ask(w) PROVE UNCHANGED pveVars
  BY <1>2 DEF Ask, Receive, AddCert, ResetDatabase, DeleteCert
<1>3. ASSUME NEW v \in VMs, GuestWrites(v) \/ Reconfigure(v) PROVE UNCHANGED pveVars
  BY <1>3 DEF GuestWrites, Reconfigure
<1>4. ASSUME Crash \/ UNCHANGED vars \/ \E p \in Profiles : ReplaceImage(p) PROVE UNCHANGED pveVars
  BY <1>4 DEF Crash, ReplaceImage, vars
<1>5. ASSUME NEW v \in VMs, Pve(v) \/ PowerRequest(v) PROVE PveNext(Posted)
  BY <1>5 DEF Pve, PowerRequest, PveNext, Posted
<1>6. QED
  BY <1>1, <1>2, <1>3, <1>4, <1>5 DEF Next, Surroundings

\* What the write path and its surroundings do to VMs and their tasks, PVE's own
\* specification allows: the daemon stops and starts a VM through tasks only, and
\* not at all with autostop off.
THEOREM WritePathUsesPve == Spec => PveSpec(Posted)
<1>1. Init => PveInit /\ RestartsAllowed
  BY DEF Init, RestartsAllowed
<1>2. QED
  BY <1>1, RestartsStep, StepIsPveStep, TypeCorrect, PTL DEF Spec, PveSpec
=============================================================================
