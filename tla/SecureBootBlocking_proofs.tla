----------------------- MODULE SecureBootBlocking_proofs -----------------------
(***************************************************************************)
(* Proofs about SecureBoot where a held write lock blocks power-on, as     *)
(* INV-15 has it (BlockingSpec), and nobody suspends VMs.  VMs may still   *)
(* be started, by the daemon's own resets too, up to the moment a request  *)
(* takes the lock, and stopped, restarted or edited at any time.  Then the *)
(* disk is not in use while dd writes it, and, with the one request thread *)
(* the daemon ships with, what a request answers is what the disk holds.   *)
(***************************************************************************)
EXTENDS SecureBoot_proofs

\* A paused VM is alive, but to vm_is_running it is not running.
NeverPaused == "suspend" \notin PowerKinds

\* Where a request is while it relies on its second check of the VM's state.
Checked == {"locate", "check", "compare", "dd", "copying", "verify", "unlock"}

\* No VM is paused or about to be, and the VM of a request that has passed the
\* second check is stopped.
StoppedInv ==
  /\ RestartsAllowed
  /\ \A v \in VMs : qmp[v] # "paused" /\ "suspend" \notin tasks[v]
  /\ \A w \in Workers : pc[w] \in Checked => ~Alive(Vm(w))

-----------------------------------------------------------------------------
(* A VM found not running under the lock stays stopped until the unlock. *)

\* Without a suspend no task pauses a VM.
LEMMA NoPause ==
  ASSUME NeverPaused, TypeOK, StoppedInv, [Next]_vars
  PROVE  \A v \in VMs : qmp'[v] # "paused" /\ "suspend" \notin tasks'[v]
<1>0. /\ qmp \in [VMs -> QmpStates] /\ tasks \in [VMs -> SUBSET TaskKinds]
      /\ \A v \in VMs : qmp[v] # "paused" /\ "suspend" \notin tasks[v]
  BY DEF TypeOK, PveTypeOK, StoppedInv
<1>1. CASE UNCHANGED pveVars
  BY <1>0, <1>1 DEF pveVars
<1>2. ASSUME NEW v \in VMs, NEW kind \in Posted, Post(v, kind), UNCHANGED qmp
      PROVE  \A x \in VMs : qmp'[x] # "paused" /\ "suspend" \notin tasks'[x]
  <2>1. kind # "suspend"
    BY DEF NeverPaused, Posted
  <2>2. QED
    BY <1>0, <1>2, <2>1 DEF Post
<1>3. ASSUME NEW v \in VMs, RunTask(v)
      PROVE  \A x \in VMs : qmp'[x] # "paused" /\ "suspend" \notin tasks'[x]
  <2>1. PICK kind \in tasks[v] :
          /\ qmp' = [qmp EXCEPT ![v] = AfterTask(v, kind)]
          /\ tasks' = [tasks EXCEPT ![v] =
                (@ \ {kind}) \cup (IF kind = "reboot" /\ qmp[v] = "running" THEN {"start"} ELSE {})]
    BY <1>3 DEF RunTask
  <2>2. AfterTask(v, kind) # "paused"
    BY <1>0, <2>1 DEF AfterTask
  <2>3. \A x \in VMs : "suspend" \notin tasks'[x]
    BY <1>0, <2>1
  <2>4. QED
    BY <1>0, <2>1, <2>2, <2>3
<1>4. ASSUME NEW v \in VMs, TaskTimesOut(v)
      PROVE  \A x \in VMs : qmp'[x] # "paused" /\ "suspend" \notin tasks'[x]
  BY <1>0, <1>4 DEF TaskTimesOut
<1>5. PveNext(Posted) \/ UNCHANGED pveVars
  BY StepIsPveStep DEF StoppedInv
<1>6. QED
  BY <1>1, <1>2, <1>3, <1>4, <1>5 DEF PveNext

\* A request gets to rely on its VM being stopped only by finding it not running,
\* with the lock in hand.
LEMMA PassesCheck ==
  ASSUME TypeOK, NEW w \in Workers, Step(w), pc'[w] \in Checked
  PROVE  /\ Vm(w)' = Vm(w) /\ pc[w] \in Guarded
         /\ pc[w] \in Checked \/ ~VmIsRunning(Vm(w))
<1>0. /\ pc \in [Workers -> Done \cup Guarded \cup Unguarded] /\ req \in [Workers -> Requests]
      /\ pc[w] \notin Done /\ req[w] \in Requests
  BY StepForm DEF TypeOK, ControlOK
<1>1. ~(\E how \in Done : Finish(w, how))
  BY <1>0 DEF Finish, Goto, Done, Checked
<1>2. ASSUME NEW label, NEW r, Advance(w, label, r) PROVE pc'[w] = label /\ req'[w] = r
  BY <1>0, <1>2 DEF Advance, Goto
<1>3. ~(Prepare(w) \/ EnterGuard(w) \/ WaitStopped(w) \/ Acquire(w) \/ Unlock(w) \/ Restart(w))
  <2>1. ASSUME Prepare(w) \/ EnterGuard(w) \/ WaitStopped(w) \/ Acquire(w) \/ Unlock(w) \/ Restart(w)
        PROVE  \/ \E how \in Done : Finish(w, how)
               \/ pc'[w] \in {"build", "building", "hash", "guard", "stopping", "lock", "recheck",
                              "restart", "sidecar"}
    BY <1>0, <2>1 DEF Prepare, ListStaged, StartBuild, EndBuild, ToolFails, HashBuilt, EnterGuard,
                      WaitStopped, Acquire, Unlock, Restart, Advance, Goto, Done
  <2>2. QED
    BY <1>1, <2>1 DEF Checked
<1>4. CASE Recheck(w)
  <2>1. pc[w] = "recheck" /\ ~VmIsRunning(Vm(w)) /\ Advance(w, "locate", req[w])
    BY <1>1, <1>4 DEF Recheck, Done
  <2>2. QED
    BY <1>2, <2>1 DEF Vm, Guarded
<1>5. CASE Write(w)
  <2>1. pc[w] \in Checked /\ pc[w] \in Guarded
    BY <1>5 DEF Write, Locate, CheckImage, Compare, StartCopy, EndCopy, Verify, Checked, Guarded
  <2>2. ~Acquire(w) /\ ~Unlock(w)
    BY <1>3
  <2>3. QED
    BY <1>1, <2>1, <2>2, StepForm
<1>6. ~(WriteSidecar(w) \/ Unlink(w) \/ Escapes(w))
  BY <1>1 DEF WriteSidecar, Unlink, Escapes, Done
<1>7. QED
  BY <1>3, <1>4, <1>5, <1>6 DEF Step, Guard

LEMMA StoppedInit == Init => StoppedInv
BY DEF Init, PveInit, StoppedInv, Checked, RestartsAllowed

LEMMA StoppedStep == NeverPaused /\ WritePathInv /\ StoppedInv /\ [Next /\ PowerOnBlocked]_vars => StoppedInv'
<1> SUFFICES ASSUME NeverPaused, WritePathInv, StoppedInv, [Next /\ PowerOnBlocked]_vars PROVE StoppedInv'
  OBVIOUS
<1>0. /\ TypeOK /\ OneWriterPerVm /\ [Next]_vars
      /\ pc \in [Workers -> Done \cup Guarded \cup Unguarded]
      /\ qmp \in [VMs -> QmpStates]
      /\ NoWorker \notin Workers
      /\ Checked \cap Done = {} /\ Checked \subseteq Guarded
  BY ConstantsAssumption DEF WritePathInv, TypeOK, ControlOK, PveTypeOK, Done, Checked, Guarded
<1>1. (\A v \in VMs : qmp'[v] # "paused" /\ "suspend" \notin tasks'[v]) /\ RestartsAllowed'
  BY <1>0, NoPause, RestartsStep DEF StoppedInv
\* What the lock is for: the VM of a request inside the guarded section does not come to life.
<1>2. ASSUME NEW w \in Workers, pc[w] \in Guarded, ~Alive(Vm(w)) PROVE Vm(w) \in VMs /\ qmp'[Vm(w)] = "stopped"
  <2>1. Vm(w) \in VMs /\ lock[Vm(w)] # NoWorker
    BY <1>0, <1>2, UnderWay DEF OneWriterPerVm, Guarded, Done
  <2>2. CASE UNCHANGED vars
    BY <1>2, <2>1, <2>2 DEF vars, pveVars, Alive
  <2>3. CASE PowerOnBlocked
    <3>1. PICK v \in VMs : v = Vm(w)
      BY <2>1
    <3>2. Alive(v)' => Alive(v)
      BY <2>1, <2>3, <3>1 DEF PowerOnBlocked
    <3>3. QED
      BY <1>2, <3>1, <3>2 DEF Alive
  <2>4. QED
    BY <2>2, <2>3
<1>3. ASSUME NEW u \in Workers, pc'[u] = pc[u], req'[u] = req[u], pc'[u] \in Checked PROVE ~Alive(Vm(u))'
  BY <1>0, <1>2, <1>3 DEF StoppedInv, Vm, Alive
<1>4. ASSUME NEW w \in Workers, Step(w), pc'[w] \in Checked PROVE ~Alive(Vm(w))'
  <2>1. Vm(w)' = Vm(w) /\ pc[w] \in Guarded /\ (pc[w] \in Checked \/ ~VmIsRunning(Vm(w)))
    BY <1>0, <1>4, PassesCheck
  <2>2. Vm(w) \in VMs
    BY <1>0, <2>1, UnderWay DEF Guarded, Done
  <2>3. ~Alive(Vm(w))
    BY <1>0, <2>1, <2>2 DEF StoppedInv, VmIsRunning, Alive, QmpStates
  <2>4. QED
    BY <1>2, <2>1, <2>3 DEF Alive
<1>5. ASSUME NEW w \in Workers, Ask(w) PROVE pc'[w] \notin Checked
  <2>1. \/ \E r : \E label \in {"refused", "list", "guard", "unlink"} : Advance(w, label, r)
        \/ Goto(w, "answered")
    BY <1>5 DEF Ask, Receive, AddCert, ResetDatabase, DeleteCert
  <2>2. QED
    BY <1>0, <2>1 DEF Advance, Goto, Checked
<1>6. ASSUME NEW w \in Workers, Step(w) \/ Ask(w), NEW u \in Workers, pc'[u] \in Checked PROVE ~Alive(Vm(u))'
  BY <1>0, <1>3, <1>4, <1>5, <1>6, OthersKept
<1>7. ASSUME Crash, NEW u \in Workers PROVE pc'[u] \notin Checked
  BY <1>7 DEF Crash, Done, Checked
<1>8. ASSUME Surroundings \/ UNCHANGED vars PROVE UNCHANGED <<pc, req>>
  BY <1>8 DEF Surroundings, Pve, PowerRequest, GuestWrites, Reconfigure, ReplaceImage, vars
<1>9. \A u \in Workers : pc'[u] \in Checked => ~Alive(Vm(u))'
  BY <1>0, <1>3, <1>6, <1>7, <1>8 DEF Next
<1>10. QED
  BY <1>1, <1>9 DEF StoppedInv

\* INV-08/09 for any number of threads and VMs, with starts posted by anyone at any moment
\* up to the lock, and with autostop: while nobody pauses VMs, and the lock blocks power-on,
\* no QEMU process holds a disk dd is writing. It takes the second check, made under the
\* lock: a start that runs after the first check is seen there.
THEOREM StoppedWhileWriting == ASSUME NeverPaused PROVE BlockingSpec => []WriteWhileStopped
<1>1. Init => WritePathInv /\ StoppedInv
  BY InvInit, StoppedInit
<1>2. WritePathInv /\ StoppedInv /\ [Next /\ PowerOnBlocked]_vars => (WritePathInv /\ StoppedInv)'
  BY InvStep, StoppedStep
<1>3. StoppedInv => WriteWhileStopped
  BY DEF StoppedInv, WriteWhileStopped, Checked
<1>4. QED
  BY <1>1, <1>2, <1>3, PTL DEF BlockingSpec

-----------------------------------------------------------------------------
(* One request thread: what it checked is what it answers.                   *)

\* The daemon serves one request at a time.
OneThread == \A u, w \in Workers : u = w

\* No VM is given a disk that is named after another VM.
OwnDisks == \A v \in VMs : \A conf \in EfiConfs[v] :
              conf.volume \in Volumes => VolumeVm[conf.volume] \in {v, NoVm}

\* A request for staged certificates finds them in the image it built until the
\* image is checked; what was checked is what the request is for (or a foreign
\* file in the place of a profile's); and unless the run was dry, it is on the VM's disk
\* when the guarded section is left, where only the guest may change it from then on.
Faithful(w) ==
  /\ /\ req[w].source = "staged"
     /\ pc[w] \in {"hash", "guard", "stopping", "lock", "recheck", "locate", "check"}
     => built[Vm(w)] = req[w].certs
  /\ pc[w] \in {"compare", "dd", "copying", "verify", "unlock", "restart", "sidecar"} =>
       req[w].checked \in (IF req[w].source = "staged" THEN {req[w].certs} ELSE {req[w].source, Foreign})
  /\ req[w].result # "dry" =>
       /\ pc[w] = "unlock" => disk[req[w].target] = req[w].checked
       /\ pc[w] \in {"restart", "sidecar"} => disk[req[w].target] \in {req[w].checked, GuestVars}

\* Files and configurations are where they belong.
TidyHost ==
  /\ \A v \in VMs : efiConf[v].volume \in Volumes => VolumeVm[efiConf[v].volume] \in {v, NoVm}
  /\ \A p \in Profiles : image[p] \in {p, Foreign, NoImage}

OneThreadInv == TidyHost /\ \A w \in Workers : Faithful(w)

LEMMA OneThreadInit == OwnDisks /\ Init => OneThreadInv
BY DEF OwnDisks, Init, OneThreadInv, TidyHost, Faithful

LEMMA TidyStep == OwnDisks /\ TypeOK /\ TidyHost /\ [Next]_vars => TidyHost'
<1> SUFFICES ASSUME OwnDisks, TypeOK, TidyHost, [Next]_vars PROVE TidyHost'
  OBVIOUS
<1>0. /\ efiConf \in [VMs -> [volume : Volumes \cup {NoVolume}, efitype : {"4m", "2m"}]]
      /\ image \in [Profiles -> Contents]
  BY DEF TypeOK, DataOK
<1>1. CASE UNCHANGED <<efiConf, image>>
  BY <1>1 DEF TidyHost
<1>2. ASSUME NEW v \in VMs, Reconfigure(v) PROVE TidyHost'
  BY <1>0, <1>2 DEF Reconfigure, OwnDisks, TidyHost, fileVars
<1>3. ASSUME NEW p \in Profiles, ReplaceImage(p) PROVE TidyHost'
  BY <1>0, <1>3 DEF ReplaceImage, TidyHost
<1>4. ASSUME NEW w \in Workers, Step(w) PROVE UNCHANGED <<efiConf, image>>
  BY <1>4 DEF Step, Prepare, Guard, Write, WriteSidecar, Unlink, Escapes, ListStaged, StartBuild, EndBuild, ToolFails, HashBuilt,
     EnterGuard, WaitStopped, Acquire, Recheck, Unlock, Restart, Locate, CheckImage, Compare, StartCopy,
     EndCopy, Verify, fileVars
<1>5. ASSUME NEW w \in Workers, Ask(w) PROVE UNCHANGED <<efiConf, image>>
  BY <1>5 DEF Ask, Receive, AddCert, ResetDatabase, DeleteCert, fileVars
<1>6. ASSUME NEW v \in VMs, Pve(v) \/ PowerRequest(v) \/ GuestWrites(v) PROVE UNCHANGED <<efiConf, image>>
  BY <1>6 DEF Pve, PowerRequest, GuestWrites, fileVars
<1>7. ASSUME Crash \/ UNCHANGED vars PROVE UNCHANGED <<efiConf, image>>
  BY <1>7 DEF Crash, vars, fileVars
<1>8. QED
  BY <1>1, <1>2, <1>3, <1>4, <1>5, <1>6, <1>7 DEF Next, Surroundings

\* A request that has ended, or has not built its image yet, owes nothing.
LEMMA FaithfulIdle ==
  ASSUME NEW w \in Workers, pc'[w] \in Done \cup {"list", "build", "building", "unlink"}
  PROVE  Faithful(w)'
BY DEF Faithful, Done

\* The steps up to the image check.
LEMMA FaithfulBefore ==
  ASSUME TypeOK, NEW w \in Workers, WorkerInv(w), TidyHost, Faithful(w),
         Prepare(w) \/ EnterGuard(w) \/ WaitStopped(w) \/ Acquire(w) \/ Recheck(w) \/ Locate(w) \/ CheckImage(w)
  PROVE  Faithful(w)'
<1>0. /\ pc \in [Workers -> Done \cup Guarded \cup Unguarded] /\ req \in [Workers -> Requests]
      /\ built \in [VMs -> Contents] /\ req[w] \in Requests
      /\ Vm(w) \in VMs /\ req[w].source \in Profiles \cup {"staged"}
  <2>1. pc[w] \notin Done \cup {"unlink"}
    BY DEF Prepare, ListStaged, StartBuild, EndBuild, ToolFails, HashBuilt, EnterGuard, WaitStopped, Acquire, Recheck, Locate,
           CheckImage, Done
  <2>2. QED
    BY <2>1, UnderWay DEF TypeOK, ControlOK, DataOK
<1>1. ASSUME NEW how \in Done, Finish(w, how) PROVE Faithful(w)'
  BY <1>0, <1>1, FaithfulIdle DEF Finish, Goto
<1>2. ASSUME NEW label, NEW r, Advance(w, label, r) PROVE pc'[w] = label /\ req'[w] = r
  BY <1>0, <1>2 DEF Advance, Goto
<1>3. ASSUME req[w].source = "staged" => built'[Vm(w)] = req[w].certs,
             NEW label \in {"hash", "guard", "stopping", "lock", "recheck", "locate", "check"},
             NEW r, pc'[w] = label, req'[w] = r,
             r.source = req[w].source, r.certs = req[w].certs, r.vm = req[w].vm
      PROVE  Faithful(w)'
  BY <1>3 DEF Faithful, Vm
<1>4. CASE ListStaged(w)
  <2>1. (\E how \in Done : Finish(w, how)) \/ pc'[w] = "build"
    BY <1>0, <1>4 DEF ListStaged, Advance, Goto, Done
  <2>2. QED
    BY <1>1, <2>1, FaithfulIdle
<1>5. CASE StartBuild(w) \/ EndBuild(w)
  <2>1. \/ \E how \in Done : Finish(w, how)
        \/ Advance(w, "building", req[w])
        \/ built' = [built EXCEPT ![Vm(w)] = req[w].certs] /\ Advance(w, "hash", req[w])
    BY <1>5 DEF StartBuild, EndBuild, ToolFails, Done
  <2>2. ASSUME built' = [built EXCEPT ![Vm(w)] = req[w].certs], Advance(w, "hash", req[w])
        PROVE  Faithful(w)'
    <3>1. built'[Vm(w)] = req[w].certs
      BY <1>0, <2>2
    <3>2. QED
      BY <1>2, <1>3, <2>2, <3>1
  <2>3. ASSUME Advance(w, "building", req[w]) PROVE Faithful(w)'
    BY <1>2, <2>3, FaithfulIdle
  <2>4. QED
    BY <1>1, <2>1, <2>2, <2>3
<1>6. CASE HashBuilt(w) \/ EnterGuard(w) \/ WaitStopped(w) \/ Acquire(w) \/ Recheck(w) \/ Locate(w)
  <2>1. /\ UNCHANGED built
        /\ pc[w] \in {"hash", "guard", "stopping", "lock", "recheck", "locate"}
    BY <1>6 DEF HashBuilt, EnterGuard, WaitStopped, Acquire, Recheck, Locate, fileVars
  <2>2. req[w].source = "staged" => built'[Vm(w)] = req[w].certs
    BY <2>1 DEF Faithful
  <2>3. DEFINE h == [req[w] EXCEPT !.expected = built[Vm(w)]]
               s == [req[w] EXCEPT !.wasRunning = TRUE]
               t == [req[w] EXCEPT !.target = efiConf[Vm(w)].volume]
  <2>4. /\ h.source = req[w].source /\ h.certs = req[w].certs /\ h.vm = req[w].vm
        /\ s.source = req[w].source /\ s.certs = req[w].certs /\ s.vm = req[w].vm
        /\ t.source = req[w].source /\ t.certs = req[w].certs /\ t.vm = req[w].vm
    BY <1>0 DEF Requests
  <2>5. \/ \E how \in Done : Finish(w, how)
        \/ Advance(w, "guard", h) \/ Advance(w, "lock", req[w]) \/ Advance(w, "stopping", s)
        \/ Advance(w, "locate", req[w]) \/ Advance(w, "check", t)
        \/ pc'[w] = "recheck" /\ req'[w] = req[w]
    BY <1>0, <1>6 DEF HashBuilt, EnterGuard, WaitStopped, Acquire, Recheck, Locate, Goto, Done
  <2>. HIDE DEF h, s, t
  <2>6. QED
    BY <1>1, <1>2, <1>3, <2>2, <2>4, <2>5
<1>7. CASE CheckImage(w)
  <2>1. DEFINE r == [req[w] EXCEPT !.checked = SourceFile(w)]
  <2>2. r.source = req[w].source /\ r.certs = req[w].certs /\ r.checked = SourceFile(w)
    BY <1>0 DEF Requests
  <2>3. CASE ImageAcceptable(w)
    <3>1. pc'[w] = "compare" /\ req'[w] = r /\ pc[w] = "check"
      BY <1>2, <1>7, <2>3 DEF CheckImage
    <3>2. SourceFile(w) \in (IF req[w].source = "staged" THEN {req[w].certs} ELSE {req[w].source, Foreign})
      BY <1>0, <2>3, <3>1 DEF Faithful, TidyHost, SourceFile, ImageAcceptable
    <3>. HIDE DEF r
    <3>3. QED
      BY <2>2, <3>1, <3>2 DEF Faithful
  <2>4. CASE ~ImageAcceptable(w)
    BY <1>1, <1>7, <2>4 DEF CheckImage, Done
  <2>5. QED
    BY <2>3, <2>4
<1>8. QED
  BY <1>4, <1>5, <1>6, <1>7 DEF Prepare

\* The write, and leaving the guarded section.
LEMMA FaithfulAfter ==
  ASSUME TypeOK, NEW w \in Workers, Faithful(w),
         Compare(w) \/ StartCopy(w) \/ EndCopy(w) \/ Verify(w) \/ Unlock(w) \/ Restart(w)
  PROVE  Faithful(w)'
<1>0. /\ pc \in [Workers -> Done \cup Guarded \cup Unguarded] /\ req \in [Workers -> Requests]
      /\ req[w] \in Requests
      /\ pc[w] \in {"compare", "dd", "copying", "verify", "unlock", "restart"}
  BY DEF TypeOK, ControlOK, Compare, StartCopy, EndCopy, Verify, Unlock, Restart
<1>1. ASSUME NEW how \in Done, Finish(w, how) PROVE Faithful(w)'
  BY <1>0, <1>1, FaithfulIdle DEF Finish, Goto
<1>2. ASSUME NEW label, NEW r, Advance(w, label, r) PROVE pc'[w] = label /\ req'[w] = r
  BY <1>0, <1>2 DEF Advance, Goto
<1>3. ASSUME NEW label \in {"dd", "copying", "verify", "unlock"}, NEW r, pc'[w] = label, req'[w] = r,
             r.source = req[w].source, r.certs = req[w].certs, r.checked = req[w].checked,
             r.vm = req[w].vm, pc[w] # "restart",
             label = "unlock" /\ r.result # "dry" => disk'[r.target] = r.checked
      PROVE  Faithful(w)'
  BY <1>0, <1>3 DEF Faithful, Vm
<1>4. CASE StartCopy(w) \/ EndCopy(w)
  <2>1. DEFINE r == [req[w] EXCEPT !.copied = SourceFile(w)]
  <2>2. /\ r.source = req[w].source /\ r.certs = req[w].certs /\ r.checked = req[w].checked
        /\ r.vm = req[w].vm /\ pc[w] # "restart"
    BY <1>0, <1>4 DEF Requests, StartCopy, EndCopy
  <2>3. (\E how \in Done : Finish(w, how)) \/ Advance(w, "copying", r) \/ Advance(w, "verify", req[w])
    BY <1>4 DEF StartCopy, EndCopy, Done
  <2>. HIDE DEF r
  <2>4. QED
    BY <1>1, <1>2, <1>3, <2>2, <2>3
<1>5. CASE Compare(w) \/ Verify(w)
  <2>1. UNCHANGED disk /\ pc[w] # "restart"
    BY <1>5 DEF Compare, Verify
  <2>2. \/ Finish(w, "refused") \/ Advance(w, "dd", req[w])
        \/ \E x \in {"noop", "dry", "wrote"} :
              /\ Advance(w, "unlock", [req[w] EXCEPT !.result = x])
              /\ x # "dry" => disk[req[w].target] = req[w].checked
    BY <1>5 DEF Compare, Verify, Same
  <2>3. ASSUME NEW x \in {"noop", "dry", "wrote"}, Advance(w, "unlock", [req[w] EXCEPT !.result = x]),
               x # "dry" => disk[req[w].target] = req[w].checked
        PROVE  Faithful(w)'
    <3>1. DEFINE r == [req[w] EXCEPT !.result = x]
    <3>2. /\ r.source = req[w].source /\ r.certs = req[w].certs /\ r.checked = req[w].checked
          /\ r.vm = req[w].vm /\ r.target = req[w].target /\ r.result = x
      BY <1>0 DEF Requests
    <3>3. pc'[w] = "unlock" /\ req'[w] = r
      BY <1>2, <2>3
    <3>. HIDE DEF r
    <3>4. QED
      BY <1>3, <2>1, <2>3, <3>2, <3>3
  <2>4. QED
    BY <1>0, <1>1, <1>2, <1>3, <2>1, <2>2, <2>3 DEF Done
<1>6. CASE Unlock(w) \/ Restart(w)
  <2>1. /\ pc[w] \in {"unlock", "restart"} /\ pc'[w] \in {"restart", "sidecar"}
        /\ req'[w] = req[w] /\ UNCHANGED disk
    BY <1>0, <1>6 DEF Unlock, Restart, Advance, Goto
  <2>2. QED
    BY <2>1 DEF Faithful
<1>7. QED
  BY <1>4, <1>5, <1>6

\* What a client asks of the idle thread.
LEMMA FaithfulAsked ==
  ASSUME TypeOK, NEW w \in Workers, Ask(w)
  PROVE  Faithful(w)'
<1>0. pc \in [Workers -> Done \cup Guarded \cup Unguarded] /\ req \in [Workers -> Requests]
  BY DEF TypeOK, ControlOK
<1>1. ASSUME NEW label, NEW r, Advance(w, label, r) PROVE pc'[w] = label /\ req'[w] = r
  BY <1>0, <1>1 DEF Advance, Goto
<1>2. ASSUME NEW v \in VMs, NEW intent \in Intents, Receive(w, v, intent) PROVE Faithful(w)'
  <2>1. PICK source : IF source = NoProfile
                        THEN Advance(w, "refused", req[w])
                        ELSE Advance(w, IF source = "staged" THEN "list" ELSE "guard",
                       [NoRequest EXCEPT !.vm = v, !.source = source, !.expected = PinnedHash(source)])
    BY <1>2 DEF Receive
  <2>2. DEFINE r == [NoRequest EXCEPT !.vm = v, !.source = source, !.expected = PinnedHash(source)]
  <2>3. r.source = source
    BY DEF NoRequest
  <2>4. \/ Advance(w, "refused", req[w]) \/ Advance(w, "list", r)
        \/ source # "staged" /\ Advance(w, "guard", r)
    BY <2>1
  <2>. HIDE DEF r
  <2>5. pc'[w] \in {"refused", "list"} \/ (pc'[w] = "guard" /\ req'[w].source # "staged")
    BY <1>1, <2>3, <2>4
  <2>6. QED
    BY <2>5 DEF Faithful
<1>3. ASSUME NEW v \in VMs, NEW c \in Certs, DeleteCert(w, v, c) PROVE Faithful(w)'
  <2>1. pc'[w] \in {"unlink", "refused"}
    BY <1>0, <1>3 DEF DeleteCert, Advance, Goto
  <2>2. QED
    BY <2>1, FaithfulIdle DEF Done
<1>4. ASSUME Goto(w, "answered") PROVE Faithful(w)'
  BY <1>0, <1>4, FaithfulIdle DEF Goto, Done
<1>5. QED
  BY <1>2, <1>3, <1>4 DEF Ask, AddCert, ResetDatabase

\* The surroundings: files of other profiles and guests of other VMs do not
\* reach what the one request thread is doing.
LEMMA FaithfulAround ==
  ASSUME TypeOK, StoppedInv, TidyHost, NEW w \in Workers, WorkerInv(w), Faithful(w),
         Surroundings \/ UNCHANGED vars
  PROVE  Faithful(w)'
<1>0. disk \in [Volumes -> Contents]
  BY DEF TypeOK, DataOK
<1>1. UNCHANGED <<pc, req, built>>
  BY DEF Surroundings, Pve, PowerRequest, GuestWrites, Reconfigure, ReplaceImage, vars, fileVars
<1>2. CASE UNCHANGED disk
  BY <1>1, <1>2 DEF Faithful, Vm
<1>3. ASSUME NEW v \in VMs, GuestWrites(v) PROVE Faithful(w)'
  <2>1. CASE pc[w] = "unlock"
    <3>1. /\ Vm(w) \in VMs /\ ~Alive(Vm(w)) /\ Alive(v)
          /\ VolumeVm[req[w].target] = Vm(w)
      BY <1>3, <2>1, UnderWay
         DEF StoppedInv, Checked, WorkerInv, TargetIsOwn, GuestWrites, VmIsRunning, Alive, Done
    <3>2. req[w].target \in Volumes
      BY <2>1, UnderWay DEF Located, Done
    <3>3. req[w].target # efiConf[v].volume
      <4>1. ASSUME req[w].target = efiConf[v].volume PROVE FALSE
        <5>1. VolumeVm[req[w].target] \in {v, NoVm}
          BY <3>2, <4>1 DEF TidyHost
        <5>2. QED
          BY <3>1, <5>1, NoVmAssumption
      <4>2. QED
        BY <4>1
    <3>4. disk'[req[w].target] = disk[req[w].target]
      BY <1>0, <1>3, <3>2, <3>3 DEF GuestWrites
    <3>5. QED
      BY <1>1, <2>1, <3>4 DEF Faithful, Vm
  <2>2. CASE pc[w] \in {"restart", "sidecar"}
    <3>1. req[w].target \in Volumes
      BY <2>2, UnderWay DEF Located, Done
    <3>2. disk'[req[w].target] \in {disk[req[w].target], GuestVars}
      BY <1>0, <1>3, <3>1 DEF GuestWrites
    <3>3. QED
      BY <1>1, <2>2, <3>2 DEF Faithful, Vm
  <2>3. CASE pc[w] \notin {"unlock", "restart", "sidecar"}
    BY <1>1, <2>3 DEF Faithful, Vm
  <2>4. QED
    BY <2>1, <2>2, <2>3
<1>4. ASSUME ~(\E v \in VMs : GuestWrites(v)) PROVE UNCHANGED disk
  BY <1>4 DEF Surroundings, Pve, PowerRequest, Reconfigure, ReplaceImage, vars
<1>5. QED
  BY <1>2, <1>3, <1>4

LEMMA OneThreadStep ==
  ASSUME OneThread, OwnDisks, WritePathInv, StoppedInv, OneThreadInv, [Next]_vars
  PROVE  OneThreadInv'
<1>0. TypeOK /\ TidyHost /\ \A w \in Workers : WorkerInv(w) /\ Faithful(w)
  BY DEF WritePathInv, WorkerInv, OneThreadInv
<1>1. ASSUME NEW w \in Workers, Step(w) PROVE Faithful(w)'
  <2>1. CASE Prepare(w) \/ EnterGuard(w) \/ WaitStopped(w) \/ Acquire(w) \/ Recheck(w) \/ Locate(w) \/ CheckImage(w)
    BY <1>0, <2>1, FaithfulBefore
  <2>2. CASE Compare(w) \/ StartCopy(w) \/ EndCopy(w) \/ Verify(w) \/ Unlock(w) \/ Restart(w)
    BY <1>0, <2>2, FaithfulAfter
  <2>3. CASE WriteSidecar(w) \/ Unlink(w) \/ Escapes(w)
    <3>1. pc'[w] \in Done
      BY <1>0, <2>3 DEF WriteSidecar, Unlink, Escapes, Finish, Goto, Done, TypeOK, ControlOK
    <3>2. QED
      BY <3>1, FaithfulIdle
  <2>4. QED
    BY <1>1, <2>1, <2>2, <2>3 DEF Step, Guard, Write
<1>2. ASSUME NEW w \in Workers, Faithful(w)' PROVE \A u \in Workers : Faithful(u)'
  BY <1>2 DEF OneThread
<1>3. ASSUME Crash, NEW w \in Workers PROVE Faithful(w)'
  BY <1>3, FaithfulIdle DEF Crash, Done
<1>4. \A w \in Workers : Faithful(w)'
  <2>1. ASSUME NEW w \in Workers, Ask(w) \/ Step(w) PROVE \A u \in Workers : Faithful(u)'
    BY <1>0, <1>1, <1>2, <2>1, FaithfulAsked
  <2>2. ASSUME Surroundings \/ UNCHANGED vars PROVE \A w \in Workers : Faithful(w)'
    BY <1>0, <2>2, FaithfulAround
  <2>3. QED
    BY <1>3, <2>1, <2>2 DEF Next
<1>5. QED
  BY <1>0, <1>4, TidyStep DEF OneThreadInv

\* All that is known together, with one thread.
LEMMA OneThreadInvariant ==
  ASSUME NeverPaused, OneThread, OwnDisks
  PROVE  BlockingSpec => [](WritePathInv /\ StoppedInv /\ OneThreadInv)
<1>1. Init => WritePathInv /\ StoppedInv /\ OneThreadInv
  BY InvInit, StoppedInit, OneThreadInit
<1>2. /\ WritePathInv /\ StoppedInv /\ OneThreadInv /\ [Next /\ PowerOnBlocked]_vars
      => (WritePathInv /\ StoppedInv /\ OneThreadInv)'
  BY InvStep, StoppedStep, OneThreadStep
<1>3. QED
  BY <1>1, <1>2, PTL DEF BlockingSpec

\* With one request thread, no pauses, power-on blocked by the lock and no VM on another's
\* disk: a request that was no dry run leaves the guarded section for success only with its
\* image on the VM's disk, whatever crashed, failed or was left half written before, and
\* when it is answered the guest at most has changed it.
THEOREM AnswersInstalled ==
  ASSUME NeverPaused, OneThread, OwnDisks PROVE BlockingSpec => AnsweredMeansInstalled
<1>1. DEFINE Answered ==
        \A w \in Workers : req[w].result # "dry" =>
          /\ pc[w] = "unlock" /\ pc'[w] \in {"restart", "sidecar"} =>
               disk[req[w].target] = req[w].checked
          /\ pc[w] = "sidecar" /\ pc'[w] = "answered" =>
               disk[req[w].target] \in {req[w].checked, GuestVars}
<1>2. OneThreadInv => Answered
  BY DEF OneThreadInv, Faithful
<1>. HIDE DEF Answered
<1>3. BlockingSpec => [][Answered]_vars
  BY <1>2, OneThreadInvariant, PTL DEF BlockingSpec
<1>4. QED
  BY <1>3 DEF AnsweredMeansInstalled, Answered

\* Only the recording of the sidecar turns "sidecar" into "answered".
LEMMA AnsweredBySidecar ==
  ASSUME TypeOK, [Next]_vars, NEW w \in Workers, pc[w] = "sidecar", pc'[w] = "answered"
  PROVE  WriteSidecar(w)
<1>0. pc \in [Workers -> Done \cup Guarded \cup Unguarded] /\ pc[w] \notin Done
  BY DEF TypeOK, ControlOK, Done
<1>1. ASSUME NEW u \in Workers, Step(u) \/ Ask(u), u # w PROVE FALSE
  BY <1>1, OthersKept
<1>2. ~Ask(w)
  BY <1>0 DEF Ask, Receive, AddCert, ResetDatabase, DeleteCert
<1>3. ~Crash
  BY <1>0 DEF Crash
<1>4. ~Surroundings /\ ~UNCHANGED vars
  BY DEF Surroundings, Pve, PowerRequest, GuestWrites, Reconfigure, ReplaceImage, vars
<1>5. ~Prepare(w) /\ ~Guard(w) /\ ~Write(w) /\ ~Unlink(w)
  BY DEF Prepare, ListStaged, StartBuild, EndBuild, ToolFails, HashBuilt, Guard, EnterGuard, WaitStopped, Acquire, Recheck, Unlock,
         Restart, Write, Locate, CheckImage, Compare, StartCopy, EndCopy, Verify, Unlink
<1>6. ~Escapes(w)
  BY <1>0 DEF Escapes, Finish, Goto
<1>7. QED
  BY <1>1, <1>2, <1>3, <1>4, <1>5, <1>6 DEF Next, Step

\* Under the same assumptions, the keys a GET reports after a success response
\* are the ones enrolled in the image on the VM's disk, until the guest changes them.
THEOREM KeysReported ==
  ASSUME NeverPaused, OneThread, OwnDisks PROVE BlockingSpec => ReportedKeysAreEnrolled
<1>1. DEFINE Enrolled ==
        \A w \in Workers : pc[w] = "sidecar" /\ pc'[w] = "answered" /\ req[w].result # "dry" =>
          LET content == disk[req[w].target]
              reported == sidecar'[Vm(w)].keys
          IN /\ content \in Profiles => reported = ProfileInfo[content].keys
             /\ content \notin Profiles \cup {Foreign, GuestVars} => reported = Keys(content)
<1>2. WritePathInv /\ OneThreadInv /\ [Next]_vars => [Enrolled]_vars
  <2> SUFFICES ASSUME WritePathInv, OneThreadInv, [Next]_vars, NEW w \in Workers,
                      pc[w] = "sidecar", pc'[w] = "answered", req[w].result # "dry"
               PROVE  LET content == disk[req[w].target]
                          reported == sidecar'[Vm(w)].keys
                      IN /\ content \in Profiles => reported = ProfileInfo[content].keys
                         /\ content \notin Profiles \cup {Foreign, GuestVars} => reported = Keys(content)
    OBVIOUS
  <2>1. TypeOK /\ sidecar \in [VMs -> Sidecars] /\ req[w] \in Requests
    BY DEF WritePathInv, TypeOK, DataOK, ControlOK
  <2>2. WriteSidecar(w)
    BY <2>1, AnsweredBySidecar
  <2>3. Vm(w) \in VMs /\ req[w].source \in Profiles \cup {"staged"} /\ req[w].certs \in SUBSET Certs
    BY <2>1, UnderWay, RequestFields DEF Done
  <2>4. sidecar'[Vm(w)].keys = IF req[w].source = "staged" THEN Keys(req[w].certs)
                                                           ELSE ProfileInfo[req[w].source].keys
    BY <2>1, <2>2, <2>3 DEF WriteSidecar, SidecarOf
  <2>5. /\ disk[req[w].target] \in {req[w].checked, GuestVars}
        /\ req[w].checked \in (IF req[w].source = "staged" THEN {req[w].certs} ELSE {req[w].source, Foreign})
    BY DEF OneThreadInv, Faithful
  <2>6. Foreign \notin Profiles /\ GuestVars \notin Profiles /\ \A certs \in SUBSET Certs : certs \notin Profiles
    BY ConstantsAssumption
  <2>7. CASE req[w].source = "staged"
    BY <2>3, <2>4, <2>5, <2>6, <2>7
  <2>8. CASE req[w].source # "staged"
    BY <2>3, <2>4, <2>5, <2>6, <2>8
  <2>9. QED
    BY <2>7, <2>8
<1>. HIDE DEF Enrolled
<1>3. BlockingSpec => [][Enrolled]_vars
  BY <1>2, OneThreadInvariant, PTL DEF BlockingSpec
<1>4. QED
  BY <1>3 DEF ReportedKeysAreEnrolled, Enrolled
=============================================================================
