------------------------- MODULE ComputerSystem_proofs -------------------------
(***************************************************************************)
(* The ISO store's theorems carry over to the whole system; what one       *)
(* request thread, as shipped, never does to a VM's EFI disk and firmware  *)
(* mode; what an override makes of every boot order; and the types of the  *)
(* whole system: for any number of VMs, requests and other PVE clients.    *)
(***************************************************************************)
EXTENDS ComputerSystem, IsoStore_proofs, FiniteSetTheorems, SequenceTheorems, WellFoundedInduction, TLAPS

\* What a step of the system does to the ISO store is a step of the store, or none.
LEMMA StepIsStoreStep == [Next]_vars => [IsoNext]_isoVars
<1> SUFFICES ASSUME [Next]_vars, ~(UNCHANGED isoVars) PROVE IsoNext
  OBVIOUS
<1>1. ASSUME NEW w \in Workers, Step(w) PROVE IsoNext
  BY <1>1 DEF Step, ReadPower, Represent, CycleStop, CycleStart, ReadStatus, ReadBoot, ReadDevices,
     SetOrder, SetMode, ReadEfidisk, CreateEfidisk, Fetching, Fetched, Mount, BootFromMedium, Fails, IsoNext, isoVars
<1>2. ASSUME NEW w \in Workers, NEW v \in VMs, Ask(w, v) PROVE IsoNext
  BY <1>2 DEF Ask, GetSystem, Reset, PowerCycle, AskBoot, AskMode, SetFirmwareMode, InsertLocal,
     InsertUrl, Eject, UpdateConfig, FailsAtOnce, IsoNext, isoVars
<1>3. CASE Crash
  BY <1>3 DEF Crash, IsoNext
<1>4. CASE Surroundings
  BY <1>4 DEF Surroundings, Pve, ApplyBoot, ApplyIde2, Rewire, StoreChanges, IsoNext, isoVars
<1>5. CASE UNCHANGED vars
  BY <1>5 DEF vars, isoVars
<1> QED  BY <1>1, <1>2, <1>3, <1>4, <1>5 DEF Next

\* ComputerSystem implements IsoStore: the requests around InsertMedia, PVE's tasks
\* and a crash of the daemon never use the store in another way than the store's
\* own specification, with the theorems of IsoStore_proofs, allows.
THEOREM StoreInSystem == Spec => IsoSpec
<1>1. Init => IsoInit  BY DEF Init
<1> QED  BY <1>1, StepIsStoreStep, PTL DEF Spec, IsoSpec

-----------------------------------------------------------------------------
(* One request thread.                                                       *)

SingleThread == \A w, x \in Workers : w = x

\* The fields the properties are about are there.
Shape ==
  /\ DOMAIN config = VMs /\ \A v \in VMs : {"bios", "efidisks"} \subseteq DOMAIN config[v]
  /\ pc \in [Workers -> Done \cup Steps]
  /\ DOMAIN req = Workers
  /\ \A w \in Workers : {"kind", "vm", "match", "target"} \subseteq DOMAIN req[w]
  /\ \A w \in Workers : pc[w] \notin Done => Vm(w) \in VMs
  /\ \A w \in Workers : pc[w] \in {"power", "represent"} => req[w].kind \in {"get", "boot", "mode"}

\* A thread about to create an EFI disk found none; one about to set a mode under
\* If-Match has seen the mode there is.
Found == \A w \in Workers : pc[w] = "create" => config[Vm(w)].efidisks = 0
Matched == \A w \in Workers : pc[w] = "mode" /\ req[w].match # NoTag => config[Vm(w)].bios = req[w].match.bios
AtMostOne == \A v \in VMs : config[v].efidisks \in {0, 1}

OneThreadInv == Shape /\ AtMostOne /\ Found /\ Matched

\* What a step may leave of a VM's configuration.
SameFirmware ==
  /\ DOMAIN config' = VMs
  /\ \A v \in VMs : /\ {"bios", "efidisks"} \subseteq DOMAIN config'[v]
                     /\ config'[v].bios = config[v].bios
                     /\ config'[v].efidisks = config[v].efidisks

\* The surroundings leave firmware modes and EFI disks, and the threads, alone.
LEMMA SurroundingsKeep ==
  ASSUME Shape, Surroundings
  PROVE  SameFirmware /\ UNCHANGED <<pc, req>>
<1>1. ASSUME NEW v \in VMs, Pve(v) \/ ApplyBoot(v) \/ ApplyIde2(v) \/ Rewire(v)
      PROVE  SameFirmware /\ UNCHANGED <<pc, req>>
  <2>1. CASE Pve(v)
    BY <2>1 DEF Pve, Shape, SameFirmware
  <2>2. CASE ApplyBoot(v)
    BY <2>2 DEF ApplyBoot, Shape, SameFirmware
  <2>3. CASE ApplyIde2(v)
    BY <2>3 DEF ApplyIde2, Shape, SameFirmware
  <2>4. CASE Rewire(v)
    BY <2>4 DEF Rewire, Shape, SameFirmware
  <2> QED  BY <1>1, <2>1, <2>2, <2>3, <2>4
<1>2. CASE StoreChanges
  BY <1>2 DEF StoreChanges, Shape, SameFirmware
<1> QED  BY <1>1, <1>2 DEF Surroundings

\* How a request begins: what its thread then knows, and what has become of the VM's mode.
Begins(w, v, label, r) ==
  /\ Receive(w, label, r)
  /\ {"kind", "vm", "match", "target"} \subseteq DOMAIN r /\ r.vm = v
  /\ label \in Done \cup {"power", "stop", "start", "status", "mode", "efidisk", "mount", "fetch"}
  /\ label = "power" => r.kind \in {"get", "boot", "mode"}
  /\ label = "mode" => r.match = NoTag
  /\ UNCHANGED config \/ (label # "mode" /\ \E mode : config' = [config EXCEPT ![v].bios = mode])

\* Each request begins so.
LEMMA AskBegins ==
  ASSUME NEW w, NEW v, Ask(w, v)
  PROVE  \E label, r : Begins(w, v, label, r)
<1>1. ASSUME NEW kind PROVE /\ {"kind", "vm", "match", "target"} \subseteq DOMAIN New(kind, v)
                            /\ New(kind, v).vm = v /\ New(kind, v).kind = kind /\ New(kind, v).match = NoTag
  BY DEF New, NoRequest
<1>2. CASE GetSystem(w, v)
  <2>1. Begins(w, v, "power", New("get", v))  BY <1>1, <1>2 DEF GetSystem, Begins
  <2> QED  BY <2>1
<1>3. ASSUME NEW type, Reset(w, v, type) PROVE \E label, r : Begins(w, v, label, r)
  <2>1. Begins(w, v, "accepted", New("reset", v))  BY <1>1, <1>3 DEF Reset, Begins, Done
  <2> QED  BY <2>1
<1>4. CASE PowerCycle(w, v)
  <2>1. Begins(w, v, IF Alive(v) THEN "stop" ELSE "start", New("cycle", v))
    BY <1>1, <1>4 DEF PowerCycle, Begins
  <2> QED  BY <2>1
<1>5. ASSUME NEW target, NEW conditional, AskBoot(w, v, target, conditional)
      PROVE  \E label, r : Begins(w, v, label, r)
  <2> DEFINE tag == Condition(v, conditional)
             r == [New("boot", v) EXCEPT !.target = target, !.match = tag]
  <2>1. Receive(w, Begin(tag, "status"), r) /\ UNCHANGED config
    BY <1>5 DEF AskBoot
  <2>2. {"kind", "vm", "match", "target"} \subseteq DOMAIN r /\ r.vm = v /\ r.kind = "boot"
    BY <1>1
  <2>3. Begin(tag, "status") \in {"power", "status"}
    BY DEF Begin
  <2>4. Begins(w, v, Begin(tag, "status"), r)
    BY <2>1, <2>2, <2>3 DEF Begins
  <2> QED  BY <2>4
<1>6. ASSUME NEW mode, NEW conditional, AskMode(w, v, mode, conditional)
      PROVE  \E label, r : Begins(w, v, label, r)
  <2> DEFINE tag == Condition(v, conditional)
             r == [New("mode", v) EXCEPT !.target = mode, !.match = tag]
  <2>1. Receive(w, Begin(tag, "mode"), r) /\ UNCHANGED config
    BY <1>6 DEF AskMode
  <2>2. {"kind", "vm", "match", "target"} \subseteq DOMAIN r /\ r.vm = v /\ r.kind = "mode" /\ r.match = tag
    BY <1>1
  <2>3. Begin(tag, "mode") = IF tag = NoTag THEN "mode" ELSE "power"
    BY DEF Begin
  <2>4. Begins(w, v, Begin(tag, "mode"), r)
    BY <2>1, <2>2, <2>3 DEF Begins
  <2> QED  BY <2>4
<1>7. ASSUME NEW mode, SetFirmwareMode(w, v, mode) PROVE \E label, r : Begins(w, v, label, r)
  <2>1. Begins(w, v, IF mode = "ovmf" THEN "efidisk" ELSE "accepted", New("mode", v))
    BY <1>1, <1>7 DEF SetFirmwareMode, Begins, Done
  <2> QED  BY <2>1
<1>8. ASSUME NEW name, InsertLocal(w, v, name) PROVE \E label, r : Begins(w, v, label, r)
  <2> DEFINE r == [New("insert", v) EXCEPT !.image = name]
  <2>1. {"kind", "vm", "match", "target"} \subseteq DOMAIN r /\ r.vm = v
    BY <1>1
  <2>2. Begins(w, v, "mount", r)
    BY <2>1, <1>8 DEF InsertLocal, Begins
  <2> QED  BY <2>2
<1>9. ASSUME NEW u, InsertUrl(w, v, u) PROVE \E label, r : Begins(w, v, label, r)
  <2>1. Begins(w, v, "fetch", New("insert", v))  BY <1>1, <1>9 DEF InsertUrl, Begins
  <2> QED  BY <2>1
<1>10. CASE Eject(w, v)
  <2>1. Begins(w, v, "accepted", New("eject", v))  BY <1>1, <1>10 DEF Eject, Begins, Done
  <2> QED  BY <2>1
<1>11. ASSUME NEW order, UpdateConfig(w, v, order) PROVE \E label, r : Begins(w, v, label, r)
  <2>1. Begins(w, v, "accepted", New("update", v))  BY <1>1, <1>11 DEF UpdateConfig, Begins, Done
  <2> QED  BY <2>1
<1>12. CASE FailsAtOnce(w, v)
  <2>1. PICK kind : Receive(w, "refused", New(kind, v))
    BY <1>12 DEF FailsAtOnce
  <2>2. Begins(w, v, "refused", New(kind, v))
    BY <1>1, <1>12, <2>1 DEF FailsAtOnce, Begins, Done
  <2> QED  BY <2>2
<1> QED
  BY <1>2, <1>3, <1>4, <1>5, <1>6, <1>7, <1>8, <1>9, <1>10, <1>11, <1>12 DEF Ask

\* A request is taken up.
LEMMA AskKeeps ==
  ASSUME SingleThread, OneThreadInv, NEW w \in Workers, NEW v \in VMs, Ask(w, v)
  PROVE  OneThreadInv'
<1> USE DEF OneThreadInv
<1>1. PICK label, r : Begins(w, v, label, r)
  BY AskBegins
<1>2. /\ pc'[w] = label /\ req'[w] = r /\ DOMAIN req' = Workers /\ pc' \in [Workers -> Done \cup Steps]
      /\ \A x \in Workers : x = w
  BY <1>1 DEF Begins, Receive, Advance, Goto, Shape, Steps, SingleThread
<1>3. /\ DOMAIN config' = VMs
      /\ \A u \in VMs : {"bios", "efidisks"} \subseteq DOMAIN config'[u] /\ config'[u].efidisks = config[u].efidisks
  BY <1>1 DEF Begins, Shape
<1> QED  BY <1>1, <1>2, <1>3 DEF Begins, Shape, AtMostOne, Found, Matched, Vm, Done

\* A step of a request.
LEMMA StepKeeps ==
  ASSUME SingleThread, OneThreadInv, NEW w \in Workers, Step(w)
  PROVE  OneThreadInv'
<1> USE DEF OneThreadInv
<1>1. \A x \in Workers : x = w
  BY DEF SingleThread
<1>2. CASE ReadPower(w)
  BY <1>1, <1>2 DEF ReadPower, Advance, Goto, Shape, AtMostOne, Found, Matched, Vm, Done, Steps
<1>3. CASE Represent(w)
  BY <1>1, <1>3 DEF Represent, Representation, Goto, Shape, AtMostOne, Found, Matched, Vm, Done, Steps
<1>4. CASE CycleStop(w) \/ CycleStart(w) \/ ReadStatus(w) \/ SetOrder(w) \/ Mount(w) \/ BootFromMedium(w)
  BY <1>1, <1>4 DEF CycleStop, CycleStart, ReadStatus, SetOrder, Mount, BootFromMedium, Goto, Shape,
     AtMostOne, Found, Matched, Vm, Done, Steps
<1>5. CASE ReadBoot(w) \/ Fetched(w)
  BY <1>1, <1>5 DEF ReadBoot, Fetched, Advance, Goto, Shape, AtMostOne, Found, Matched, Vm, Done, Steps
<1>6. CASE ReadDevices(w)
  BY <1>1, <1>6 DEF ReadDevices, Advance, Goto, Shape, AtMostOne, Found, Matched, Vm, Done, Steps
<1>7. CASE SetMode(w)
  BY <1>1, <1>7 DEF SetMode, Goto, Shape, AtMostOne, Found, Matched, Vm, Done, Steps
<1>8. CASE ReadEfidisk(w)
  BY <1>1, <1>8 DEF ReadEfidisk, Goto, Shape, AtMostOne, Found, Matched, Vm, Done, Steps
<1>9. CASE CreateEfidisk(w)
  BY <1>1, <1>9 DEF CreateEfidisk, Goto, Shape, AtMostOne, Found, Matched, Vm, Done, Steps
<1>10. CASE Fetching(w)
  BY <1>10 DEF Fetching, Shape, AtMostOne, Found, Matched, Vm
<1>11. CASE Fails(w)
  BY <1>1, <1>11 DEF Fails, Goto, Shape, AtMostOne, Found, Matched, Vm, Done, Steps
<1> QED  BY <1>2, <1>3, <1>4, <1>5, <1>6, <1>7, <1>8, <1>9, <1>10, <1>11 DEF Step

\* The invariant of one thread is inductive.
LEMMA OneThreadStep == SingleThread /\ OneThreadInv /\ [Next]_vars => OneThreadInv'
<1> SUFFICES ASSUME SingleThread, OneThreadInv, [Next]_vars PROVE OneThreadInv'
  OBVIOUS
<1>1. CASE Crash
  BY <1>1 DEF Crash, OneThreadInv, Shape, AtMostOne, Found, Matched, Vm, Done
<1>2. CASE Surroundings
  BY <1>2, SurroundingsKeep DEF SameFirmware, OneThreadInv, Shape, AtMostOne, Found, Matched, Vm, Steps, Done
<1>3. CASE UNCHANGED vars
  BY <1>3 DEF vars, OneThreadInv, Shape, AtMostOne, Found, Matched, Vm
<1> QED  BY <1>1, <1>2, <1>3, AskKeeps, StepKeeps DEF Next

\* It holds at first.
LEMMA OneThreadInit == Init => OneThreadInv
BY DEF Init, OneThreadInv, Shape, AtMostOne, Found, Matched, NoRequest, Done

\* With one request thread no EFI disk, with the keys in it, is ever replaced by a new
\* one, whatever fails and whatever other PVE clients re-wire.
THEOREM OneEfidisk ==
  ASSUME SingleThread
  PROVE  Spec => []EfidiskKept
<1>1. OneThreadInv => EfidiskKept
  BY DEF OneThreadInv, AtMostOne, EfidiskKept
<1> QED  BY <1>1, OneThreadInit, OneThreadStep, PTL DEF Spec

\* What ModeUpdatesNotLost says of one step.
ReplacesWhatWasSeen ==
  \A w \in Workers : pc[w] = "mode" /\ pc'[w] = "accepted" /\ req[w].match # NoTag
     => config[Vm(w)].bios = req[w].match.bios

\* With one request thread a firmware mode set under If-Match replaces the mode the
\* client had seen.
THEOREM ModesUnderIfMatch ==
  ASSUME SingleThread
  PROVE  Spec => ModeUpdatesNotLost
<1>1. OneThreadInv => [ReplacesWhatWasSeen]_vars
  BY DEF OneThreadInv, Matched, ReplacesWhatWasSeen
<1> QED
  BY <1>1, OneThreadInit, OneThreadStep, PTL DEF Spec, ModeUpdatesNotLost, ReplacesWhatWasSeen

-----------------------------------------------------------------------------
(* The lists that reorder_boot_order makes.                                  *)

\* A set of natural numbers that is not empty has a least member.
LEMMA LeastNat ==
  ASSUME NEW T \in SUBSET Nat, T # {}
  PROVE  \E m \in T : \A k \in T : m <= k
<1>1. PICK m \in T : \A k \in T : <<k, m>> \notin OpToRel(<, Nat)
  BY WFMin, NatLessThanWellFounded, Zenon
<1>2. \A k \in T : ~(k < m)
  BY <1>1, Zenon DEF OpToRel
<1> QED  BY <1>2

\* How many of the places I there are up to n.
Count(I, n) == Cardinality({j \in I : j <= n})

LEMMA Counting ==
  ASSUME NEW N \in Nat, NEW I \in SUBSET (1..N)
  PROVE  /\ IsFiniteSet(I) /\ Cardinality(I) \in Nat
         /\ Count(I, 0) = 0 /\ Count(I, N) = Cardinality(I)
         /\ \A n \in 0..N : Count(I, n) \in Nat
         /\ \A n \in 1..N : Count(I, n) = IF n \in I THEN Count(I, n - 1) + 1 ELSE Count(I, n - 1)
         /\ \A i \in 0..N : \A j \in I : i < j => Count(I, i) < Count(I, j)
         /\ \A i \in 0..N : Count(I, i) <= Cardinality(I)
<1> DEFINE upto(n) == {j \in I : j <= n}
<1>0. \A j \in I : j \in Nat /\ 1 <= j /\ j <= N
  OBVIOUS
<1>1. IsFiniteSet(1..N) /\ IsFiniteSet(I) /\ Cardinality(I) \in Nat
  <2>1. 1 \in Int /\ N \in Int
    OBVIOUS
  <2>2. IsFiniteSet(1..N)
    BY <2>1, FS_Interval
  <2>3. IsFiniteSet(I)
    BY <2>2, FS_Subset, Zenon
  <2> QED  BY <2>2, <2>3, FS_CardinalityType
<1>2. ASSUME NEW n \in 0..N PROVE IsFiniteSet(upto(n)) /\ Count(I, n) \in Nat /\ Count(I, n) <= Cardinality(I)
  <2>1. upto(n) \subseteq I
    OBVIOUS
  <2> HIDE DEF upto
  <2>2. IsFiniteSet(upto(n)) /\ Cardinality(upto(n)) <= Cardinality(I) /\ Cardinality(upto(n)) \in Nat
    BY <1>1, <2>1, FS_Subset, FS_CardinalityType
  <2> QED  BY <2>2 DEF Count, upto
<1>3. Count(I, 0) = 0
  <2>1. \A j \in I : ~(j <= 0)
    BY <1>0
  <2>2. upto(0) = {}
    BY <2>1, Zenon
  <2> QED  BY <2>2, FS_EmptySet DEF Count
<1>4. Count(I, N) = Cardinality(I)
  <2>1. upto(N) = I
    BY <1>0, Zenon
  <2> QED  BY <2>1 DEF Count
<1>5. ASSUME NEW n \in 1..N
      PROVE  Count(I, n) = IF n \in I THEN Count(I, n - 1) + 1 ELSE Count(I, n - 1)
  <2>1. CASE n \in I
    <3>0. n \in Nat /\ n <= n /\ ~(n <= n - 1) /\ \A j \in I : j <= n <=> j <= n - 1 \/ j = n
      BY <1>0
    <3>1. upto(n) = upto(n - 1) \cup {n} /\ n \notin upto(n - 1)
      BY <2>1, <3>0, Zenon
    <3>2. n - 1 \in 0..N
      OBVIOUS
    <3>3. IsFiniteSet(upto(n - 1))
      BY <1>2, <3>2
    <3> HIDE DEF upto
    <3>4. Cardinality(upto(n)) = Cardinality(upto(n - 1)) + 1
      BY <3>1, <3>3, FS_AddElement
    <3> QED  BY <2>1, <3>4 DEF Count, upto
  <2>2. CASE n \notin I
    <3>0. \A j \in I : j <= n <=> j <= n - 1
      BY <1>0, <2>2
    <3>1. upto(n) = upto(n - 1)
      BY <3>0, Zenon
    <3> QED  BY <2>2, <3>1 DEF Count
  <2> QED  BY <2>1, <2>2
<1>6. ASSUME NEW i \in 0..N, NEW j \in I, i < j PROVE Count(I, i) < Count(I, j)
  <2>0. j <= j /\ ~(j <= i) /\ \A k \in I : k <= i => k <= j
    BY <1>0, <1>6
  <2>1. upto(i) \subseteq upto(j) /\ j \in upto(j) /\ j \notin upto(i)
    BY <2>0, Zenon
  <2>2. j \in 0..N
    OBVIOUS
  <2>3. IsFiniteSet(upto(j))
    BY <1>2, <2>2
  <2> HIDE DEF upto
  <2>4. Cardinality(upto(i)) < Cardinality(upto(j))
    <3>1. upto(i) # upto(j)
      BY <2>1
    <3>2. Cardinality(upto(i)) <= Cardinality(upto(j)) /\ Cardinality(upto(i)) # Cardinality(upto(j))
      BY <2>1, <2>3, <3>1, FS_Subset
    <3> QED  BY <2>3, <2>1, <3>2, FS_Subset, FS_CardinalityType
  <2> QED  BY <2>4 DEF Count, upto
<1> QED  BY <1>1, <1>2, <1>3, <1>4, <1>5, <1>6

\* There is a k-th place, for every k up to their number.
LEMMA NthPlace ==
  ASSUME NEW N \in Nat, NEW I \in SUBSET (1..N), NEW k \in 1..Cardinality(I)
  PROVE  \E i \in I : Count(I, i) = k
<1> DEFINE T == {n \in 0..N : Count(I, n) >= k}
<1>1. N \in T
  BY Counting
<1>2. PICK n \in T : \A m \in T : n <= m
  <2>1. T \in SUBSET Nat
    OBVIOUS
  <2> HIDE DEF T
  <2> QED  BY <1>1, <2>1, LeastNat
<1>3. n # 0
  BY Counting
<1>4. n \in 1..N /\ n - 1 \in 0..N /\ n - 1 \notin T
  BY <1>2, <1>3
<1>5. Count(I, n) \in Nat /\ Count(I, n - 1) \in Nat /\ Count(I, n) >= k /\ ~(Count(I, n - 1) >= k)
  BY <1>4, Counting
<1>6. Count(I, n) = IF n \in I THEN Count(I, n - 1) + 1 ELSE Count(I, n - 1)
  BY <1>4, Counting
<1>7. n \in I /\ Count(I, n) = k
  BY <1>5, <1>6
<1> QED  BY <1>7

\* at is the places of I in their order, and t what s has there.
InOrder(t, s, I, at) ==
  /\ t \in Seq(Devices) /\ at \in [1..Len(t) -> I]
  /\ \A k \in 1..Len(t) : t[k] = s[at[k]]
  /\ \A j, k \in 1..Len(t) : j < k => at[j] < at[k]
  /\ \A i \in I : \E k \in 1..Len(t) : at[k] = i

LEMMA PickIs ==
  ASSUME NEW s \in Seq(Devices), NEW I \in SUBSET (1..Len(s))
  PROVE  \E at : InOrder(Pick[s][I], s, I, at)
<1> DEFINE n == Cardinality(I)
           t == Pick[s][I]
           at == [k \in 1..n |-> CHOOSE i \in I : Count(I, i) = k]
<1>1. Len(s) \in Nat /\ n \in Nat /\ \A i \in I : i \in 1..Len(s) /\ i \in 0..Len(s) /\ i \in Nat
  <2>1. Len(s) \in Nat
    BY LenProperties
  <2>2. n \in Nat
    BY <2>1, Counting, Zenon
  <2> QED  BY <2>1, <2>2
<1>2. ASSUME NEW k \in 1..n PROVE at[k] \in I /\ Count(I, at[k]) = k
  <2>1. \E i \in I : Count(I, i) = k
    BY <1>1, NthPlace
  <2> QED  BY <2>1
<1>3. t = [k \in 1..n |-> s[at[k]]]
  <2>1. I \in SUBSET Nat
    BY <1>1
  <2>2. t = [k \in 1..n |-> s[CHOOSE i \in I : Cardinality({j \in I : j <= i}) = k]]
    BY <2>1 DEF Pick
  <2>3. \A k \in 1..n : at[k] = CHOOSE i \in I : Cardinality({j \in I : j <= i}) = k
    BY Zenon DEF Count
  <2> DEFINE nth(k) == CHOOSE i \in I : Cardinality({j \in I : j <= i}) = k
  <2>4. t = [k \in 1..n |-> s[nth(k)]] /\ \A k \in 1..n : at[k] = nth(k)
    BY <2>2, <2>3, Zenon
  <2> HIDE DEF t, at, nth
  <2> QED  BY <2>4
<1> HIDE DEF t, at
<1>4. t \in Seq(Devices) /\ Len(t) = n /\ \A k \in 1..n : t[k] = s[at[k]]
  <2>1. \A k \in 1..n : s[at[k]] \in Devices
    BY <1>1, <1>2, ElementOfSeq
  <2> QED  BY <1>1, <1>3, <2>1
<1>5. ASSUME NEW j \in 1..n, NEW k \in 1..n, j < k PROVE at[j] < at[k]
  <2>1. at[j] \in I /\ at[k] \in I /\ Count(I, at[j]) = j /\ Count(I, at[k]) = k
    BY <1>2
  <2>2. at[k] < at[j] => Count(I, at[k]) < Count(I, at[j])
    BY <1>1, <2>1, Counting
  <2>3. j \in Nat /\ k \in Nat /\ at[j] \in Nat /\ at[k] \in Nat
    <3>1. at[j] \in Nat /\ at[k] \in Nat
      BY <1>1, <2>1, Zenon
    <3> HIDE DEF n
    <3> QED  BY <1>1, <3>1
  <2>4. at[j] = at[k] => j = k
    BY <2>1
  <2>5. ~(at[k] < at[j]) /\ at[j] # at[k]
    BY <1>5, <2>1, <2>2, <2>3, <2>4
  <2> QED  BY <2>3, <2>5
<1>6. ASSUME NEW i \in I PROVE \E k \in 1..n : at[k] = i
  <2> DEFINE k == Count(I, i)
  <2>1. k \in 1..n
    <3>1. i \in 1..Len(s) /\ i - 1 \in 0..Len(s) /\ i \in 0..Len(s)
      BY <1>1
    <3>2. Count(I, i) = Count(I, i - 1) + 1 /\ Count(I, i - 1) \in Nat /\ Count(I, i) <= n
      BY <1>1, <3>1, Counting
    <3> QED  BY <1>1, <3>2
  <2>2. at[k] \in I /\ Count(I, at[k]) = Count(I, i)
    BY <1>2, <2>1
  <2>3. /\ at[k] < i => Count(I, at[k]) < Count(I, i)
        /\ i < at[k] => Count(I, i) < Count(I, at[k])
    BY <1>1, <2>2, Counting
  <2>4. Count(I, i) \in Nat
    BY <1>1, Counting
  <2>5. at[k] = i
    <3>1. at[k] \in Nat /\ i \in Nat
      BY <1>1, <2>2, Zenon
    <3> HIDE DEF k
    <3>2. ~(at[k] < i) /\ ~(i < at[k])
      BY <2>2, <2>3, <2>4
    <3> QED  BY <3>1, <3>2
  <2> QED  BY <2>1, <2>5
<1>7. at \in [1..n -> I]
  BY <1>2 DEF at
<1>8. InOrder(t, s, I, at)
  BY <1>4, <1>5, <1>6, <1>7 DEF InOrder
<1> QED  BY <1>8 DEF t

\* Within keeps what is in T, in the order of s.
LEMMA WithinIs ==
  ASSUME NEW s \in Seq(Devices), NEW T
  PROVE  \E at : /\ InOrder(Within(s, T), s, {i \in 1..Len(s) : s[i] \in T}, at)
                /\ Within(s, T) \in Seq(Devices) /\ ToSet(Within(s, T)) = ToSet(s) \cap T
<1> DEFINE I == {i \in 1..Len(s) : s[i] \in T}
           t == Within(s, T)
<1>1. DOMAIN s = 1..Len(s)
  BY LenProperties
<1>2. t = Pick[s][I]
  BY <1>1 DEF Within
<1>3. I \in SUBSET (1..Len(s)) /\ \A i \in 1..Len(s) : i \in I <=> s[i] \in T
  OBVIOUS
<1> HIDE DEF I, t
<1>4. PICK at : InOrder(t, s, I, at)
  BY <1>2, <1>3, PickIs
<1>5. t \in Seq(Devices) /\ DOMAIN t = 1..Len(t)
  BY <1>4, LenProperties DEF InOrder
<1>6. \A d \in ToSet(t) : d \in ToSet(s) \cap T
  <2> SUFFICES ASSUME NEW k \in 1..Len(t) PROVE t[k] \in ToSet(s) \cap T
    BY <1>5 DEF ToSet
  <2>1. at[k] \in I /\ t[k] = s[at[k]]
    BY <1>4 DEF InOrder
  <2> QED  BY <1>1, <1>3, <2>1 DEF ToSet
<1>7. \A d \in ToSet(s) \cap T : d \in ToSet(t)
  <2> SUFFICES ASSUME NEW i \in 1..Len(s), s[i] \in T PROVE s[i] \in ToSet(t)
    BY <1>1 DEF ToSet
  <2>1. i \in I
    BY <1>3
  <2>2. PICK k \in 1..Len(t) : at[k] = i
    BY <1>4, <2>1 DEF InOrder
  <2>3. t[k] = s[i]
    BY <1>4, <2>2 DEF InOrder
  <2> QED  BY <1>5, <2>3 DEF ToSet
<1> QED  BY <1>4, <1>5, <1>6, <1>7 DEF I, t

\* The places where a member of s stands first.
Firsts(s) == {i \in 1..Len(s) : \A j \in 1..(i - 1) : s[j] # s[i]}

\* Each member of s has a first place.
LEMMA HasFirst ==
  ASSUME NEW s \in Seq(Devices), NEW d \in ToSet(s)
  PROVE  /\ First(s, d) \in 1..Len(s) /\ s[First(s, d)] = d
         /\ \A j \in 1..(First(s, d) - 1) : s[j] # d
         /\ First(s, d) \in Firsts(s)
<1>1. Len(s) \in Nat /\ DOMAIN s = 1..Len(s)
  BY LenProperties
<1> DEFINE T == {i \in 1..Len(s) : s[i] = d}
<1>2. T \in SUBSET Nat /\ T # {}
  BY <1>1 DEF ToSet
<1>3. PICK m \in T : \A k \in T : m <= k
  <2> HIDE DEF T
  <2> QED  BY <1>2, LeastNat
<1>4. m \in DOMAIN s /\ s[m] = d /\ \A j \in 1..(m - 1) : s[j] # d
  <2>1. ASSUME NEW j \in 1..(m - 1), s[j] = d PROVE FALSE
    <3>1. j \in 1..Len(s) /\ ~(m <= j)
      BY <1>1, <1>3
    <3> QED  BY <1>3, <2>1, <3>1
  <2> QED  BY <1>1, <1>3, <2>1
<1>5. /\ First(s, d) \in DOMAIN s /\ s[First(s, d)] = d
      /\ \A j \in 1..(First(s, d) - 1) : s[j] # d
  BY <1>4 DEF First
<1> QED  BY <1>1, <1>5 DEF Firsts

\* Distinct keeps each member at its first place.
LEMMA DistinctIs ==
  ASSUME NEW s \in Seq(Devices)
  PROVE  \E at : /\ InOrder(Distinct[s], s, Firsts(s), at)
                /\ Distinct[s] \in Seq(Devices) /\ ToSet(Distinct[s]) = ToSet(s)
                /\ IsInjective(Distinct[s])
<1> DEFINE I == Firsts(s)
           t == Distinct[s]
<1>1. DOMAIN s = 1..Len(s) /\ Len(s) \in Nat
  BY LenProperties
<1>2. t = Pick[s][I]
  BY <1>1 DEF Distinct, Firsts
<1>3. I \in SUBSET (1..Len(s))
  BY DEF Firsts
<1> HIDE DEF I, t
<1>4. PICK at : InOrder(t, s, I, at)
  BY <1>2, <1>3, PickIs
<1>5. t \in Seq(Devices) /\ DOMAIN t = 1..Len(t)
  BY <1>4, LenProperties DEF InOrder
<1>6. ASSUME NEW k \in 1..Len(t)
      PROVE  at[k] \in 1..Len(s) /\ t[k] = s[at[k]] /\ \A j \in 1..(at[k] - 1) : s[j] # t[k]
  <2>1. at[k] \in I /\ t[k] = s[at[k]]
    BY <1>4 DEF InOrder
  <2> QED  BY <2>1 DEF I, Firsts
<1>7. ToSet(t) \subseteq ToSet(s)
  BY <1>1, <1>5, <1>6 DEF ToSet
<1>8. ASSUME NEW d \in ToSet(s) PROVE d \in ToSet(t)
  <2>1. First(s, d) \in I /\ s[First(s, d)] = d
    BY HasFirst DEF I
  <2>2. PICK k \in 1..Len(t) : at[k] = First(s, d)
    BY <1>4, <2>1 DEF InOrder
  <2>3. t[k] = d
    BY <1>6, <2>1, <2>2
  <2> QED  BY <1>5, <2>3 DEF ToSet
<1>9. ASSUME NEW j \in 1..Len(t), NEW k \in 1..Len(t), t[j] = t[k] PROVE j = k
  <2>1. ~(at[j] < at[k]) /\ ~(at[k] < at[j])
    <3>1. /\ at[j] \in 1..Len(s) /\ s[at[j]] = t[j] /\ \A i \in 1..(at[j] - 1) : s[i] # t[j]
          /\ at[k] \in 1..Len(s) /\ s[at[k]] = t[k] /\ \A i \in 1..(at[k] - 1) : s[i] # t[k]
      BY <1>6
    <3>2. /\ at[j] < at[k] => at[j] \in 1..(at[k] - 1)
          /\ at[k] < at[j] => at[k] \in 1..(at[j] - 1)
      BY <1>1, <3>1
    <3> QED  BY <1>9, <3>1, <3>2
  <2>2. ~(j < k) /\ ~(k < j)
    BY <1>4, <2>1 DEF InOrder
  <2>3. j \in Nat /\ k \in Nat
    BY <1>5, LenProperties
  <2> QED  BY <2>2, <2>3
<1>10. IsInjective(t)
  BY <1>5, <1>9 DEF IsInjective
<1>11. ToSet(t) = ToSet(s)
  BY <1>7, <1>8
<1> QED  BY <1>4, <1>5, <1>10, <1>11 DEF I, t

AtMostOneDevice == {s \in Seq(Devices) : Len(s) <= 1}

\* The devices a VM has, by the lists reorder_boot_order makes of them.
LEMMA DeviceLists ==
  ASSUME NEW hw, WellFormed(hw)
  PROVE  /\ Disks(hw) \in Seq(Devices) /\ ToSet(Disks(hw)) = {d \in ToSet(Drives) \cap DOMAIN hw : hw[d] = "disk"}
         /\ CdDrive(hw) \in AtMostOneDevice /\ \A d \in ToSet(CdDrive(hw)) : d \in DOMAIN hw /\ hw[d] = "cdrom"
         /\ Nic(hw) \in AtMostOneDevice /\ \A d \in ToSet(Nic(hw)) : d \in DOMAIN hw /\ hw[d] = "nic"
         /\ FirstOf[Disks(hw)] \in AtMostOneDevice /\ ToSet(FirstOf[Disks(hw)]) \subseteq ToSet(Disks(hw))
<1>1. Drives \in Seq(Devices) /\ Nics \in Seq(Devices)
  BY SystemAssumption
<1>2. ASSUME NEW s \in Seq(Devices)
      PROVE  /\ FirstOf[s] \in AtMostOneDevice /\ ToSet(FirstOf[s]) \subseteq ToSet(s)
             /\ LastOf[s] \in AtMostOneDevice /\ ToSet(LastOf[s]) \subseteq ToSet(s)
  <2>1. FirstOf[s] = (IF s = <<>> THEN s ELSE <<s[1]>>) /\ LastOf[s] = (IF s = <<>> THEN s ELSE <<s[Len(s)]>>)
    BY DEF FirstOf, LastOf, Last
  <2>2. CASE s = <<>>
    <3>1. Len(s) = 0
      BY <2>2
    <3> QED  BY <2>1, <2>2, <3>1 DEF AtMostOneDevice
  <2>3. CASE s # <<>>
    <3>1. Len(s) \in Nat \ {0} /\ DOMAIN s = 1..Len(s)
      BY <2>3, EmptySeq, LenProperties
    <3>2. s[1] \in ToSet(s) /\ s[Len(s)] \in ToSet(s) /\ s[1] \in Devices /\ s[Len(s)] \in Devices
      BY <3>1, ElementOfSeq DEF ToSet
    <3>3. \A x \in Devices : <<x>> \in AtMostOneDevice /\ ToSet(<<x>>) = {x}
      BY DEF ToSet, AtMostOneDevice
    <3> QED  BY <2>1, <2>3, <3>2, <3>3
  <2> QED  BY <2>2, <2>3
<1>3. /\ Disks(hw) \in Seq(Devices)
      /\ ToSet(Disks(hw)) = ToSet(Drives) \cap {d \in DOMAIN hw : hw[d] # "cdrom"}
  BY <1>1, WithinIs DEF Disks
<1>4. ToSet(Disks(hw)) = {d \in ToSet(Drives) \cap DOMAIN hw : hw[d] = "disk"}
  BY <1>3 DEF WellFormed, Kinds
<1>5. CdDrive(hw) \in AtMostOneDevice /\ \A d \in ToSet(CdDrive(hw)) : d \in DOMAIN hw /\ hw[d] = "cdrom"
  <2> DEFINE cds == Within(Drives, {d \in DOMAIN hw : hw[d] = "cdrom"})
  <2>1. cds \in Seq(Devices) /\ ToSet(cds) = ToSet(Drives) \cap {d \in DOMAIN hw : hw[d] = "cdrom"}
    BY <1>1, WithinIs
  <2>2. CdDrive(hw) = LastOf[cds]
    BY DEF CdDrive
  <2> HIDE DEF cds
  <2> QED  BY <1>2, <2>1, <2>2
<1>6. Nic(hw) \in AtMostOneDevice /\ \A d \in ToSet(Nic(hw)) : d \in DOMAIN hw /\ hw[d] = "nic"
  <2> DEFINE nics == Within(Nics, DOMAIN hw)
  <2>1. nics \in Seq(Devices) /\ ToSet(nics) = ToSet(Nics) \cap DOMAIN hw
    BY <1>1, WithinIs
  <2>2. Nic(hw) = FirstOf[nics]
    BY DEF Nic
  <2> HIDE DEF nics
  <2> QED  BY <1>2, <2>1, <2>2 DEF WellFormed
<1> QED  BY <1>2, <1>3, <1>4, <1>5, <1>6

\* A place of d is its first one or a later one.
LEMMA FirstIsLeast ==
  ASSUME NEW s \in Seq(Devices), NEW i \in 1..Len(s)
  PROVE  /\ s[i] \in ToSet(s) /\ First(s, s[i]) \in 1..Len(s) /\ s[First(s, s[i])] = s[i]
         /\ First(s, s[i]) <= i
<1>1. Len(s) \in Nat /\ DOMAIN s = 1..Len(s)
  BY LenProperties
<1>2. s[i] \in ToSet(s)
  BY <1>1 DEF ToSet
<1>3. First(s, s[i]) \in 1..Len(s) /\ \A j \in 1..(First(s, s[i]) - 1) : s[j] # s[i]
  BY <1>2, HasFirst
<1>4. i < First(s, s[i]) => i \in 1..(First(s, s[i]) - 1)
  BY <1>1, <1>3
<1>5. ~(i < First(s, s[i]))
  BY <1>3, <1>4
<1> QED  BY <1>1, <1>2, <1>3, <1>5, HasFirst

\* What is first of two in s is first of the two in a part of s in its order, if their
\* first places in s belong to the part.
LEMMA PartKeepsOrder ==
  ASSUME NEW s \in Seq(Devices), NEW t, NEW I \in SUBSET (1..Len(s)), NEW at, InOrder(t, s, I, at),
         NEW d \in ToSet(s), NEW e \in ToSet(t), First(s, d) \in I, First(s, d) < First(s, e)
  PROVE  First(t, d) < First(t, e)
<1>1. t \in Seq(Devices) /\ at \in [1..Len(t) -> I]
  BY DEF InOrder
<1>2. Len(s) \in Nat /\ DOMAIN s = 1..Len(s) /\ Len(t) \in Nat /\ DOMAIN t = 1..Len(t)
  BY <1>1, LenProperties
<1> DEFINE k == First(t, e)
<1>3. k \in 1..Len(t) /\ t[k] = e
  BY <1>1, HasFirst
<1>4. at[k] \in 1..Len(s) /\ s[at[k]] = e
  BY <1>1, <1>3 DEF InOrder
<1>5. First(s, e) <= at[k] /\ First(s, e) \in 1..Len(s)
  BY <1>4, FirstIsLeast
<1>6. PICK j \in 1..Len(t) : at[j] = First(s, d)
  BY DEF InOrder
<1>7. First(s, d) \in 1..Len(s) /\ s[First(s, d)] = d
  BY HasFirst
<1>8. t[j] = d
  BY <1>6, <1>7 DEF InOrder
<1>9. First(t, d) <= j /\ First(t, d) \in 1..Len(t)
  BY <1>1, <1>8, FirstIsLeast
<1> HIDE DEF k
<1>10. at[j] < at[k] /\ at[j] \in Nat /\ at[k] \in Nat
  BY <1>2, <1>4, <1>5, <1>6, <1>7
<1>11. ~(k < j) /\ j # k
  <2>1. ~(at[k] < at[j]) /\ at[j] # at[k]
    BY <1>10
  <2> QED  BY <1>3, <2>1 DEF InOrder
<1> QED  BY <1>2, <1>3, <1>9, <1>11 DEF k

\* What u \o l has.
LEMMA Joined ==
  ASSUME NEW u \in Seq(Devices), NEW l \in Seq(Devices)
  PROVE  u \o l \in Seq(Devices) /\ ToSet(u \o l) = ToSet(u) \cup ToSet(l)
<1>1. /\ Len(u) \in Nat /\ DOMAIN u = 1..Len(u) /\ Len(l) \in Nat /\ DOMAIN l = 1..Len(l)
  BY LenProperties
<1> DEFINE a == u \o l
<1>2. a \in Seq(Devices) /\ Len(a) = Len(u) + Len(l) /\ DOMAIN a = 1..Len(a)
      /\ \A i \in 1..Len(a) : a[i] = IF i <= Len(u) THEN u[i] ELSE l[i - Len(u)]
  BY <1>1, ConcatProperties, LenProperties
<1> HIDE DEF a
<1>3. ToSet(a) = ToSet(u) \cup ToSet(l)
  <2>1. \A x \in ToSet(a) : x \in ToSet(u) \cup ToSet(l)
    <3> SUFFICES ASSUME NEW i \in 1..Len(a) PROVE a[i] \in ToSet(u) \cup ToSet(l)
      BY <1>2 DEF ToSet
    <3>1. i <= Len(u) => i \in DOMAIN u /\ a[i] = u[i]
      BY <1>1, <1>2
    <3>2. ~(i <= Len(u)) => i - Len(u) \in DOMAIN l /\ a[i] = l[i - Len(u)]
      BY <1>1, <1>2
    <3> QED  BY <3>1, <3>2 DEF ToSet
  <2>2. ASSUME NEW i \in 1..Len(u) PROVE u[i] \in ToSet(a)
    <3>1. i \in 1..Len(a) /\ a[i] = u[i]
      BY <1>1, <1>2
    <3> QED  BY <1>2, <3>1 DEF ToSet
  <2>3. ASSUME NEW i \in 1..Len(l) PROVE l[i] \in ToSet(a)
    <3>1. PICK n \in 1..Len(a) : ~(n <= Len(u)) /\ n - Len(u) = i
      BY <1>1, <1>2
    <3>2. a[n] = l[i]
      BY <1>2, <3>1
    <3> QED  BY <1>2, <3>2 DEF ToSet
  <2> QED  BY <1>1, <2>1, <2>2, <2>3 DEF ToSet
<1> QED  BY <1>2, <1>3 DEF a

\* Where a member of l stands first in u \o l and in l \o u.
LEMMA Beside ==
  ASSUME NEW u \in Seq(Devices), NEW l \in Seq(Devices), NEW d \in ToSet(l)
  PROVE  /\ d \notin ToSet(u) => First(u \o l, d) = Len(u) + First(l, d)
         /\ First(l \o u, d) = First(l, d)
<1>1. /\ Len(u) \in Nat /\ DOMAIN u = 1..Len(u) /\ Len(l) \in Nat /\ DOMAIN l = 1..Len(l)
  BY LenProperties
<1> DEFINE a == u \o l
           b == l \o u
<1>2. a \in Seq(Devices) /\ Len(a) = Len(u) + Len(l) /\ DOMAIN a = 1..Len(a)
      /\ \A i \in 1..Len(a) : a[i] = IF i <= Len(u) THEN u[i] ELSE l[i - Len(u)]
  BY <1>1, ConcatProperties, LenProperties
<1>3. b \in Seq(Devices) /\ Len(b) = Len(u) + Len(l) /\ DOMAIN b = 1..Len(b)
      /\ \A i \in 1..Len(b) : b[i] = IF i <= Len(l) THEN l[i] ELSE u[i - Len(l)]
  BY <1>1, ConcatProperties, LenProperties
<1> HIDE DEF a, b
<1>4. ToSet(a) = ToSet(u) \cup ToSet(l)
  BY Joined DEF a
<1> DEFINE p == First(l, d)
<1>5. p \in 1..Len(l) /\ l[p] = d /\ \A j \in 1..(p - 1) : l[j] # d
  BY HasFirst
<1> HIDE DEF p
<1>6. ASSUME d \notin ToSet(u) PROVE First(a, d) = Len(u) + p
  <2>1. d \in ToSet(a)
    BY <1>4
  <2> DEFINE i == First(a, d)
  <2>2. i \in 1..Len(a) /\ a[i] = d /\ \A j \in 1..(i - 1) : a[j] # d
    BY <1>2, <2>1, HasFirst
  <2> HIDE DEF i
  <2>3. ~(i <= Len(u))
    <3>1. i <= Len(u) => i \in DOMAIN u /\ u[i] = d
      BY <1>1, <1>2, <2>2
    <3> QED  BY <1>6, <3>1 DEF ToSet
  <2>4. l[i - Len(u)] = d /\ i - Len(u) \in 1..Len(l)
    BY <1>1, <1>2, <2>2, <2>3
  <2>5. ~(i - Len(u) < p)
    BY <1>1, <1>5, <2>4
  <2>6. ~(Len(u) + p < i)
    <3>0. \A q \in 1..Len(l) : /\ Len(u) + q \in 1..Len(a)
                               /\ ~(Len(u) + q <= Len(u)) /\ (Len(u) + q) - Len(u) = q
      BY <1>1, <1>2
    <3>1. PICK n \in 1..Len(a) : n = Len(u) + p /\ ~(n <= Len(u)) /\ n - Len(u) = p
      BY <1>5, <3>0
    <3>2. a[n] = d
      BY <1>2, <1>5, <3>1
    <3>3. n < i => n \in 1..(i - 1)
      BY <1>2, <2>2
    <3> QED  BY <2>2, <3>1, <3>2, <3>3
  <2>7. i \in Nat /\ p \in Nat
    BY <1>1, <1>2, <1>5, <2>2
  <2> QED  BY <1>1, <2>5, <2>6, <2>7 DEF i
<1>7. First(b, d) = p
  <2>1. p \in 1..Len(b) /\ b[p] = d
    BY <1>1, <1>3, <1>5
  <2>2. First(b, d) \in 1..Len(b) /\ b[First(b, d)] = d /\ First(b, d) <= p
    BY <1>3, <2>1, FirstIsLeast
  <2> DEFINE i == First(b, d)
  <2> HIDE DEF i
  <2>3. i \in 1..Len(b) /\ b[i] = d /\ i <= p
    BY <2>2 DEF i
  <2>4. l[i] = d /\ i \in 1..Len(l)
    BY <1>1, <1>3, <1>5, <2>3
  <2>5. ~(i < p)
    BY <1>1, <1>5, <2>4
  <2>6. i \in Nat /\ p \in Nat
    BY <1>1, <1>5, <2>4
  <2> QED  BY <2>3, <2>5, <2>6 DEF i
<1> QED  BY <1>6, <1>7 DEF a, b, p

\* The device a target stands for, if there is one.
LEMMA TargetDeviceIs ==
  ASSUME NEW hw, WellFormed(hw), NEW target
  PROVE  LET t == TargetDevice(hw, target) IN
         /\ t \in AtMostOneDevice /\ ToSet(t) \subseteq DOMAIN hw
         /\ \A d \in ToSet(t) : /\ target = "Pxe" => hw[d] = "nic"
                                /\ target = "Cd" => hw[d] = "cdrom"
                                /\ target = "Hdd" => hw[d] = "disk"
<1>1. <<>> \in AtMostOneDevice /\ ToSet(<<>>) = {}
  BY DEF AtMostOneDevice, ToSet
<1>2. CASE target = "Pxe"
  BY <1>2, DeviceLists DEF TargetDevice
<1>3. CASE target = "Cd"
  BY <1>3, DeviceLists DEF TargetDevice
<1>4. CASE target = "Hdd"
  <2>1. \A d \in ToSet(FirstOf[Disks(hw)]) : d \in DOMAIN hw /\ hw[d] = "disk"
    BY DeviceLists
  <2> QED  BY <1>4, <2>1, DeviceLists DEF TargetDevice
<1>5. CASE target \notin {"Pxe", "Cd", "Hdd"}
  BY <1>1, <1>5 DEF TargetDevice
<1> QED  BY <1>2, <1>3, <1>4, <1>5

\* What OverrideIsComplete says of the order an override makes.
Complete(hw, boot, target, new) ==
  LET old == Parsed(boot) IN
  /\ target = "Pxe" => hw[new[1]] = "nic"
  /\ target = "Cd"  => hw[new[1]] = "cdrom"
  /\ target = "Hdd" => hw[new[1]] = "disk"
  /\ IsInjective(new)
  /\ ToSet(new) \subseteq DOMAIN hw
  /\ \A d \in DOMAIN hw : hw[d] = "disk" /\ d \in ToSet(Drives) => d \in ToSet(new)
  /\ \A d, e \in (ToSet(new) \cap ToSet(old)) \ {new[1]} :
       First(old, d) < First(old, e) => First(new, d) < First(new, e)

\* reorder_boot_order makes a complete order, unless it refuses the target.
LEMMA ReorderIsComplete ==
  ASSUME NEW hw, WellFormed(hw), NEW boot \in Seq(Devices), NEW target,
         ~(target \in {"Pxe", "Cd", "Hdd"} /\ TargetDevice(hw, target) = <<>>)
  PROVE  /\ Reorder(hw, boot, target) \in Seq(Devices)
         /\ Complete(hw, boot, target, Reorder(hw, boot, target))
<1> DEFINE t == TargetDevice(hw, target)
           old == Parsed(boot)
           l == Listed(hw, boot)
           r == Recognised(hw)
           all == t \o l \o r
           new == Reorder(hw, boot, target)
<1>1. old \in Seq(Devices)
  BY HeadTailProperties DEF Parsed
<1> HIDE DEF old
<1>2. PICK al : /\ InOrder(l, old, {i \in 1..Len(old) : old[i] \in DOMAIN hw}, al)
                /\ l \in Seq(Devices) /\ ToSet(l) = ToSet(old) \cap DOMAIN hw
  BY <1>1, WithinIs DEF Listed, old
<1>3. t \in AtMostOneDevice /\ t \in Seq(Devices) /\ ToSet(t) \subseteq DOMAIN hw
  BY TargetDeviceIs DEF AtMostOneDevice
<1>4. /\ r \in Seq(Devices) /\ ToSet(r) \subseteq DOMAIN hw
      /\ \A d \in DOMAIN hw : hw[d] = "disk" /\ d \in ToSet(Drives) => d \in ToSet(r)
  <2> DEFINE ds == Disks(hw)
             cd == CdDrive(hw)
             nic == Nic(hw)
  <2>2. Disks(hw) \in Seq(Devices) /\ CdDrive(hw) \in Seq(Devices) /\ Nic(hw) \in Seq(Devices)
    BY DeviceLists DEF AtMostOneDevice
  <2>3. r \in Seq(Devices) /\ ToSet(r) = ToSet(ds) \cup ToSet(cd) \cup ToSet(nic)
    <3>1. r = ds \o cd \o nic
      BY DEF Recognised
    <3>2. ds \in Seq(Devices) /\ cd \in Seq(Devices) /\ nic \in Seq(Devices)
      BY <2>2
    <3> HIDE DEF ds, cd, nic, r
    <3>3. ds \o cd \in Seq(Devices) /\ ToSet(ds \o cd) = ToSet(ds) \cup ToSet(cd)
      BY <3>2, Joined
    <3> QED  BY <3>1, <3>2, <3>3, Joined
  <2> QED  BY <2>3, DeviceLists
<1> HIDE DEF t, l, r
<1>5. t \o l \in Seq(Devices) /\ ToSet(t \o l) = ToSet(t) \cup ToSet(l)
  BY <1>2, <1>3, Joined
<1>6. all \in Seq(Devices) /\ ToSet(all) = ToSet(t) \cup ToSet(l) \cup ToSet(r)
  BY <1>4, <1>5, Joined
<1>7. new = Distinct[all]
  BY DEF Reorder, t, l, r
<1> HIDE DEF new, all
<1>8. PICK at : InOrder(new, all, Firsts(all), at) /\ new \in Seq(Devices)
                /\ ToSet(new) = ToSet(all) /\ IsInjective(new)
  BY <1>6, <1>7, DistinctIs
<1>9. ASSUME all # <<>> PROVE new[1] = all[1]
  <2>1. Len(all) \in Nat \ {0} /\ Len(new) \in Nat
    BY <1>6, <1>8, <1>9, EmptySeq, LenProperties
  <2>2. 1 \in Firsts(all)
    BY <2>1 DEF Firsts
  <2>3. PICK k \in 1..Len(new) : at[k] = 1
    BY <1>8, <2>2 DEF InOrder
  <2>4. 1 \in 1..Len(new) /\ at[1] \in Firsts(all) /\ (1 < k => at[1] < at[k])
    BY <1>8, <2>1, <2>3 DEF InOrder
  <2>5. k = 1
    BY <2>1, <2>3, <2>4 DEF Firsts
  <2> QED  BY <1>8, <2>3, <2>5 DEF InOrder
<1>10. ASSUME t # <<>> PROVE new[1] \in ToSet(t) /\ ToSet(t) = {new[1]}
  <2>1. Len(t) = 1 /\ DOMAIN t = 1..Len(t)
    <3>1. Len(t) \in Nat /\ Len(t) <= 1 /\ DOMAIN t = 1..Len(t)
      BY <1>3, LenProperties DEF AtMostOneDevice
    <3>2. Len(t) # 0
      BY <1>3, <1>10, EmptySeq
    <3> QED  BY <3>1, <3>2
  <2>2. ToSet(t) = {t[1]}
    BY <2>1 DEF ToSet
  <2>3. all # <<>> /\ all[1] = t[1]
    <3>1. Len(l) \in Nat /\ Len(r) \in Nat
      BY <1>2, <1>4, LenProperties
    <3>2. ASSUME NEW u \in Seq(Devices), NEW v \in Seq(Devices), Len(u) >= 1
          PROVE  Len(u \o v) >= 1 /\ (u \o v)[1] = u[1]
      <4>1. Len(u) \in Nat /\ Len(v) \in Nat /\ Len(u \o v) = Len(u) + Len(v)
        BY LenProperties, ConcatProperties
      <4>2. 1 \in 1..(Len(u) + Len(v)) /\ 1 <= Len(u)
        BY <3>2, <4>1
      <4> QED  BY <4>1, <4>2, ConcatProperties
    <3>3. Len(t \o l) >= 1 /\ (t \o l)[1] = t[1]
      <4>1. Len(t) >= 1 /\ t \in Seq(Devices) /\ l \in Seq(Devices)
        BY <1>2, <1>3, <2>1
      <4> QED  BY <3>2, <4>1, Zenon
    <3>4. Len(all) >= 1 /\ all[1] = (t \o l)[1]
      BY <1>4, <1>5, <3>2, <3>3 DEF all
    <3>5. all # <<>>
      BY <1>6, <3>4, EmptySeq
    <3> QED  BY <3>3, <3>4, <3>5
  <2> QED  BY <1>9, <2>2, <2>3
<1>11. ASSUME target \in {"Pxe", "Cd", "Hdd"} PROVE new[1] \in ToSet(t)
  BY <1>10, <1>11 DEF t
<1>12. \A d \in ToSet(t) : /\ target = "Pxe" => hw[d] = "nic"
                           /\ target = "Cd" => hw[d] = "cdrom"
                           /\ target = "Hdd" => hw[d] = "disk"
  BY TargetDeviceIs DEF t
<1>13. ToSet(new) \subseteq DOMAIN hw
  BY <1>2, <1>3, <1>4, <1>6, <1>8
<1>14. \A d \in DOMAIN hw : hw[d] = "disk" /\ d \in ToSet(Drives) => d \in ToSet(new)
  BY <1>4, <1>6, <1>8
<1>15. ASSUME NEW d \in (ToSet(new) \cap ToSet(old)) \ {new[1]},
              NEW e \in (ToSet(new) \cap ToSet(old)) \ {new[1]}, First(old, d) < First(old, e)
       PROVE  First(new, d) < First(new, e)
  <2>1. d \in ToSet(l) /\ e \in ToSet(l) /\ d \notin ToSet(t) /\ e \notin ToSet(t)
    <3>1. d \in ToSet(l) /\ e \in ToSet(l)
      BY <1>2, <1>13
    <3>2. t = <<>> => ToSet(t) = {}
      BY DEF ToSet
    <3> QED  BY <1>10, <3>1, <3>2
  <2>2. First(l, d) < First(l, e)
    <3>1. First(old, d) \in {i \in 1..Len(old) : old[i] \in DOMAIN hw}
      BY <1>1, <1>13, HasFirst
    <3> QED  BY <1>1, <1>2, <1>15, <2>1, <3>1, PartKeepsOrder
  <2>3. First(t \o l, d) < First(t \o l, e)
    <3>1. First(t \o l, d) = Len(t) + First(l, d) /\ First(t \o l, e) = Len(t) + First(l, e)
      BY <1>2, <1>3, <2>1, Beside
    <3>2. First(l, d) \in Int /\ First(l, e) \in Int /\ Len(t) \in Int
      <4>1. First(l, d) \in 1..Len(l) /\ First(l, e) \in 1..Len(l) /\ Len(l) \in Nat /\ Len(t) \in Nat
        BY <1>2, <1>3, <2>1, HasFirst, LenProperties
      <4> QED  BY <4>1
    <3> QED  BY <2>2, <3>1, <3>2
  <2>4. First(all, d) < First(all, e)
    <3>1. First(all, d) = First(t \o l, d) /\ First(all, e) = First(t \o l, e)
      <4>1. d \in ToSet(t \o l) /\ e \in ToSet(t \o l)
        BY <1>5, <2>1
      <4> QED  BY <1>4, <1>5, <4>1, Beside DEF all
    <3> QED  BY <2>3, <3>1
  <2>5. First(all, d) \in Firsts(all) /\ Firsts(all) \in SUBSET (1..Len(all))
    BY <1>6, <1>8, HasFirst DEF Firsts
  <2> QED  BY <1>6, <1>8, <2>4, <2>5, PartKeepsOrder
<1>16. new \in Seq(Devices) /\ Complete(hw, boot, target, new)
  BY <1>8, <1>11, <1>12, <1>13, <1>14, <1>15 DEF Complete, old
<1> QED  BY <1>16 DEF new

-----------------------------------------------------------------------------
(* Types.                                                                    *)

Fields == {"hw", "ide2", "boot", "bios", "efidisks"}

ConfigOK ==
  /\ DOMAIN config = VMs
  /\ \A v \in VMs : /\ DOMAIN config[v] = Fields
                    /\ WellFormed(config[v].hw)
                    /\ config[v].ide2 \in Names \cup {NoMedia}
                    /\ config[v].boot \in Seq(Devices)
                    /\ config[v].bios \in {"seabios", "ovmf"}
                    /\ config[v].efidisks \in Nat
UpdatesOK ==
  /\ DOMAIN updates = VMs
  /\ \A v \in VMs : /\ DOMAIN updates[v] = {"boot", "ide2"}
                    /\ updates[v].boot \subseteq Seq(Devices)
                    /\ updates[v].ide2 \subseteq Names \cup {NoMedia}
SeenOK == seen \in [VMs -> Tags \cup {NoTag}]

\* What a thread may remember of its request where it is.
Sound(label, r) ==
  /\ label \in Done \cup Steps /\ r \in Requests
  /\ label \notin Done => r.vm \in VMs
  /\ label \in {"power", "represent"} => r.kind \in {"get", "boot", "mode"}
  /\ label \in {"power", "represent"} /\ r.kind = "mode" => r.target \in Modes
  /\ label = "mode" => r.target \in Modes

ThreadsOK ==
  /\ pc \in [Workers -> Done \cup Steps] /\ req \in [Workers -> Requests]
  /\ \A w \in Workers : Sound(pc[w], req[w])
  /\ \A w \in Workers : fetch[w].at # "idle" => pc[w] = "fetch"

\* The inductive invariant: the types, the fields that are there, the invariant of the
\* store, and which requests can be where.
SystemInv == PveTypeOK /\ IsoInv /\ ConfigOK /\ UpdatesOK /\ SeenOK /\ ThreadsOK

LEMMA InvHasTypes == SystemInv => SystemTypeOK
<1> SUFFICES ASSUME SystemInv PROVE SystemTypeOK
  OBVIOUS
<1>1. pc \in [Workers -> Done \cup Steps] /\ req \in [Workers -> Requests]
  BY DEF SystemInv, ThreadsOK
<1>2. \A w \in Workers : pc[w] \notin Done => req[w].vm \in VMs
  BY DEF SystemInv, ThreadsOK, Sound
<1> QED  BY <1>1, <1>2 DEF SystemInv, IsoInv, ConfigOK, UpdatesOK, SeenOK, ThreadsOK, SystemTypeOK

\* The initial state.
LEMMA SystemInit == Init => SystemInv
<1> SUFFICES ASSUME Init PROVE SystemInv
  OBVIOUS
<1>1. PveTypeOK
  BY DEF Init, PveInit, PveTypeOK, QmpStates, TaskKinds
<1>2. IsoInv /\ \A w \in Workers : fetch[w].at = "idle"
  BY InitInv, NoFetchType DEF Init, IsoInit
<1>3. ConfigOK
  <2>1. DOMAIN config = VMs
    BY DEF Init
  <2>2. ASSUME NEW v \in VMs
        PROVE  config[v] \in [hw : Hardware, ide2 : {NoMedia}, boot : BootOrders, bios : {"seabios"}, efidisks : {0, 1}]
    BY DEF Init
  <2>3. ASSUME NEW v \in VMs
        PROVE  /\ DOMAIN config[v] = Fields /\ config[v].hw \in Hardware /\ config[v].ide2 = NoMedia
               /\ config[v].boot \in BootOrders /\ config[v].bios = "seabios" /\ config[v].efidisks \in Nat
    BY <2>2 DEF Fields
  <2> QED  BY <2>1, <2>3, SystemAssumption DEF ConfigOK
<1>4. UpdatesOK /\ SeenOK
  BY DEF Init, UpdatesOK, SeenOK
<1>5. NoRequest \in Requests
  BY EmptySeq DEF NoRequest, Requests
<1>6. ThreadsOK
  BY <1>2, <1>5 DEF Init, ThreadsOK, Sound, Done
<1> QED  BY <1>1, <1>2, <1>3, <1>4, <1>6 DEF SystemInv

\* A thread goes on to another step with what it then remembers.
LEMMA ThreadMoves ==
  ASSUME ThreadsOK, NEW w \in Workers, NEW label, NEW r, Sound(label, r),
         pc' = [pc EXCEPT ![w] = label], req' = [req EXCEPT ![w] = r],
         \A x \in Workers \ {w} : fetch'[x].at = fetch[x].at,
         fetch'[w].at # "idle" => label = "fetch"
  PROVE  ThreadsOK'
<1>1. pc' \in [Workers -> Done \cup Steps] /\ req' \in [Workers -> Requests]
  BY DEF ThreadsOK, Sound
<1>2. \A x \in Workers : /\ pc'[x] = IF x = w THEN label ELSE pc[x]
                         /\ req'[x] = IF x = w THEN r ELSE req[x]
  BY DEF ThreadsOK
<1>3. \A x \in Workers : Sound(pc'[x], req'[x])
  BY <1>2, Zenon DEF ThreadsOK
<1>4. \A x \in Workers : fetch'[x].at # "idle" => pc'[x] = "fetch"
  BY <1>2 DEF ThreadsOK
<1>5. \A x \in Workers : Sound(pc[x], req[x])'
  BY <1>3 DEF Sound, Done, Steps, Requests, Tags, NoTag, Names
<1> QED  BY <1>1, <1>4, <1>5 DEF ThreadsOK

\* PVE's types are kept by a POST that queues a task and by a task that runs.
LEMMA PostKeepsTypes ==
  ASSUME PveTypeOK, NEW v \in VMs, NEW kind \in TaskKinds, Post(v, kind), UNCHANGED qmp
  PROVE  PveTypeOK'
BY DEF PveTypeOK, Post

LEMMA PveKeepsTypes ==
  ASSUME PveTypeOK, NEW v \in VMs, RunTask(v) \/ TaskTimesOut(v)
  PROVE  PveTypeOK'
<1>1. CASE RunTask(v)
  <2>1. PICK kind \in tasks[v] :
          /\ qmp' = [qmp EXCEPT ![v] = AfterTask(v, kind)]
          /\ tasks' = [tasks EXCEPT ![v] = (@ \ {kind}) \cup
                         (IF kind = "reboot" /\ qmp[v] = "running" THEN {"start"} ELSE {})]
    BY <1>1 DEF RunTask
  <2>2. AfterTask(v, kind) \in QmpStates
    BY DEF AfterTask, QmpStates, PveTypeOK
  <2>3. "start" \in TaskKinds
    BY DEF TaskKinds
  <2> QED  BY <2>1, <2>2, <2>3 DEF PveTypeOK
<1>2. CASE TaskTimesOut(v)
  BY <1>2 DEF TaskTimesOut, PveTypeOK
<1> QED  BY <1>1, <1>2

\* A queued configuration task.
LEMMA UpdateKeepsTypes ==
  ASSUME UpdatesOK, NEW v \in VMs, NEW order \in Seq(Devices), NEW medium \in Names \cup {NoMedia},
         PostBoot(v, order) \/ PostIde2(v, medium)
  PROVE  UpdatesOK'
<1>1. DOMAIN updates' = VMs
  BY DEF PostBoot, PostIde2, UpdatesOK
<1>2. ASSUME NEW u \in VMs
      PROVE  /\ DOMAIN updates'[u] = {"boot", "ide2"}
             /\ updates'[u].boot \subseteq updates[u].boot \cup {order}
             /\ updates'[u].ide2 \subseteq updates[u].ide2 \cup {medium}
  BY DEF PostBoot, PostIde2, UpdatesOK
<1>3. ASSUME NEW u \in VMs
      PROVE  /\ updates'[u].boot \subseteq Seq(Devices)
             /\ updates'[u].ide2 \subseteq Names \cup {NoMedia}
  BY <1>2, Zenon DEF UpdatesOK
<1>4. \A u \in VMs : /\ DOMAIN updates'[u] = {"boot", "ide2"}
                     /\ updates'[u].boot \subseteq Seq(Devices)
                     /\ updates'[u].ide2 \subseteq Names \cup {NoMedia}
  BY <1>2, <1>3
<1> QED  BY <1>1, <1>4, Zenon DEF UpdatesOK, Names

Asked == {"get", "reset", "cycle", "boot", "mode", "insert", "eject", "update"}

\* The request a client sends, in the places where it can be.
LEMMA NewIsRequest ==
  ASSUME NEW v \in VMs, NEW kind \in Asked
  PROVE  New(kind, v) \in Requests /\ New(kind, v).kind = kind /\ New(kind, v).vm = v
<1>1. NoRequest \in Requests
  BY EmptySeq DEF NoRequest, Requests
<1> QED  BY <1>1 DEF New, Requests, NoRequest, Asked

LEMMA NewIsSound ==
  ASSUME NEW v \in VMs, NEW kind \in Asked, NEW label \in (Done \cup Steps) \ {"mode"},
         label \in {"power", "represent"} => kind \in {"get", "boot"}
  PROVE  Sound(label, New(kind, v))
<1> DEFINE r == New(kind, v)
<1>1. r \in Requests /\ r.kind = kind /\ r.vm = v
  BY NewIsRequest
<1> HIDE DEF r
<1>2. Sound(label, r)
  BY <1>1 DEF Sound
<1> QED  BY <1>2 DEF r

LEMMA ImageIsRequest ==
  ASSUME NEW v \in VMs, NEW image \in Names
  PROVE  /\ [New("insert", v) EXCEPT !.image = image] \in Requests
         /\ [New("insert", v) EXCEPT !.image = image].vm = v
<1> DEFINE r == New("insert", v)
<1>1. r \in Requests /\ r.vm = v
  BY NewIsRequest DEF Asked
<1> HIDE DEF r
<1>2. /\ [r EXCEPT !.image = image] \in Requests
      /\ [r EXCEPT !.image = image].vm = v
  BY <1>1 DEF Requests
<1> QED  BY <1>2 DEF r

\* A thread that waits for no ISO takes up a request.
LEMMA ReceiveKeepsTypes ==
  ASSUME ThreadsOK, NEW w \in Workers, NEW label, NEW r, Receive(w, label, r), Sound(label, r),
         UNCHANGED fetch
  PROVE  ThreadsOK'
<1>1. pc[w] # "fetch"
  BY DEF Receive, Done
<1>2. fetch'[w].at = "idle"
  BY <1>1 DEF ThreadsOK
<1>3. pc' = [pc EXCEPT ![w] = label] /\ req' = [req EXCEPT ![w] = r]
  BY DEF Receive, Advance, Goto
<1> QED  BY <1>2, <1>3, ThreadMoves

\* Requests keep the types.
LEMMA AskKeepsTypes ==
  ASSUME SystemInv, NEW w \in Workers, NEW v \in VMs, Ask(w, v)
  PROVE  PveTypeOK' /\ ConfigOK' /\ UpdatesOK' /\ SeenOK' /\ ThreadsOK'
<1> USE SystemAssumption
<1>a. PveTypeOK /\ ConfigOK /\ UpdatesOK /\ SeenOK /\ ThreadsOK
  BY DEF SystemInv
<1>b. UNCHANGED pveVars => PveTypeOK'
  BY <1>a DEF PveTypeOK, pveVars
<1>c. UNCHANGED config => ConfigOK'
  BY <1>a DEF ConfigOK, WellFormed, Names
<1>d. UNCHANGED updates => UpdatesOK'
  BY <1>a DEF UpdatesOK, Names
<1>e. UNCHANGED seen => SeenOK'
  BY <1>a DEF SeenOK, Tags, NoTag
<1>f. UNCHANGED isoVars => UNCHANGED fetch
  BY DEF isoVars
<1>g. \A c \in BOOLEAN : Condition(v, c) \in Tags \cup {NoTag}
  BY <1>a DEF Condition, SeenOK
<1>1. ASSUME NEW label \in Done, NEW kind \in Asked,
             Receive(w, label, New(kind, v)), UNCHANGED fetch
      PROVE  ThreadsOK'
  <2>1. Sound(label, New(kind, v))
    BY NewIsSound DEF Done
  <2> QED  BY <1>a, <1>1, <2>1, ReceiveKeepsTypes
<1>2. CASE GetSystem(w, v)
  <2>1. Sound("power", New("get", v))
    BY NewIsSound DEF Asked, Done, Steps
  <2> QED  BY <1>2, <1>a, <1>b, <1>c, <1>d, <1>e, <1>f, <2>1, ReceiveKeepsTypes DEF GetSystem
<1>3. ASSUME NEW type \in Resets, Reset(w, v, type) PROVE PveTypeOK' /\ ConfigOK' /\ UpdatesOK' /\ SeenOK' /\ ThreadsOK'
  <2>1. ResetTask[type] \in TaskKinds
    BY <1>3 DEF Reset, ResetTask, TaskKinds
  <2>2. PveTypeOK'
    BY <1>3, <1>a, <2>1, PostKeepsTypes DEF Reset
  <2>3. ThreadsOK'
    BY <1>3, <1>1, <1>f DEF Reset, Done, Asked
  <2> QED  BY <1>3, <1>c, <1>d, <1>e, <2>2, <2>3 DEF Reset
<1>4. CASE PowerCycle(w, v)
  <2>1. Sound("stop", New("cycle", v)) /\ Sound("start", New("cycle", v))
    BY NewIsSound DEF Asked, Done, Steps
  <2>2. Sound(IF Alive(v) THEN "stop" ELSE "start", New("cycle", v))
    BY <2>1
  <2> QED  BY <1>4, <1>a, <1>b, <1>c, <1>d, <1>e, <1>f, <2>2, ReceiveKeepsTypes DEF PowerCycle
<1>5. ASSUME NEW target \in Targets, NEW conditional \in BOOLEAN, AskBoot(w, v, target, conditional)
      PROVE  PveTypeOK' /\ ConfigOK' /\ UpdatesOK' /\ SeenOK' /\ ThreadsOK'
  <2> DEFINE tag == Condition(v, conditional)
             q == New("boot", v)
             r == [q EXCEPT !.target = target, !.match = tag]
  <2>1. r \in Requests /\ r.kind = "boot" /\ r.vm = v /\ r.target = target
    <3>1. q \in Requests /\ q.kind = "boot" /\ q.vm = v
      BY NewIsRequest DEF Asked
    <3>2. tag \in Tags \cup {NoTag} /\ target \in Targets \cup Modes
      BY <1>g
    <3> HIDE DEF q, tag
    <3> QED  BY <3>1, <3>2 DEF Requests
  <2>2. Begin(tag, "status") \in {"power", "status"}
    BY DEF Begin
  <2>3. Receive(w, Begin(tag, "status"), r)
    BY <1>5 DEF AskBoot
  <2> HIDE DEF r, tag
  <2>4. Sound(Begin(tag, "status"), r)
    BY <2>1, <2>2 DEF Sound, Done, Steps
  <2> QED  BY <1>5, <1>a, <1>b, <1>c, <1>d, <1>e, <1>f, <2>3, <2>4, ReceiveKeepsTypes DEF AskBoot
<1>6. ASSUME NEW mode \in Modes, NEW conditional \in BOOLEAN, AskMode(w, v, mode, conditional)
      PROVE  PveTypeOK' /\ ConfigOK' /\ UpdatesOK' /\ SeenOK' /\ ThreadsOK'
  <2> DEFINE tag == Condition(v, conditional)
             q == New("mode", v)
             r == [q EXCEPT !.target = mode, !.match = tag]
  <2>1. r \in Requests /\ r.kind = "mode" /\ r.vm = v /\ r.target = mode
    <3>1. q \in Requests /\ q.kind = "mode" /\ q.vm = v
      BY NewIsRequest DEF Asked
    <3>2. tag \in Tags \cup {NoTag} /\ mode \in Targets \cup Modes
      BY <1>g
    <3> HIDE DEF q, tag
    <3> QED  BY <3>1, <3>2 DEF Requests
  <2>2. Begin(tag, "mode") \in {"power", "mode"}
    BY DEF Begin
  <2>3. Receive(w, Begin(tag, "mode"), r)
    BY <1>6 DEF AskMode
  <2> HIDE DEF r, tag
  <2>4. Sound(Begin(tag, "mode"), r)
    BY <2>1, <2>2 DEF Sound, Done, Steps
  <2> QED  BY <1>6, <1>a, <1>b, <1>c, <1>d, <1>e, <1>f, <2>3, <2>4, ReceiveKeepsTypes DEF AskMode
<1>7. ASSUME NEW mode \in Modes, SetFirmwareMode(w, v, mode)
      PROVE  PveTypeOK' /\ ConfigOK' /\ UpdatesOK' /\ SeenOK' /\ ThreadsOK'
  <2>1. Sound("efidisk", New("mode", v)) /\ Sound("accepted", New("mode", v))
    BY NewIsSound DEF Asked, Done, Steps
  <2>2. Sound(IF mode = "ovmf" THEN "efidisk" ELSE "accepted", New("mode", v))
    BY <2>1
  <2>3. ThreadsOK'
    BY <1>7, <1>a, <1>f, <2>2, ReceiveKeepsTypes DEF SetFirmwareMode
  <2>4. mode \in {"seabios", "ovmf"}
    OBVIOUS
  <2>5. ConfigOK'
    BY <1>7, <1>a, <2>4 DEF SetFirmwareMode, ConfigOK, Fields, WellFormed, Names
  <2> QED  BY <1>7, <1>b, <1>d, <1>e, <2>3, <2>5 DEF SetFirmwareMode
<1>8. ASSUME NEW name \in LocalIsos, InsertLocal(w, v, name)
      PROVE  PveTypeOK' /\ ConfigOK' /\ UpdatesOK' /\ SeenOK' /\ ThreadsOK'
  <2> DEFINE r == [New("insert", v) EXCEPT !.image = name]
  <2>1. r \in Requests /\ r.vm = v
    BY ImageIsRequest
  <2>2. Receive(w, "mount", r)
    BY <1>8 DEF InsertLocal
  <2> HIDE DEF r
  <2>3. Sound("mount", r)
    BY <2>1 DEF Sound, Done, Steps
  <2> QED  BY <1>8, <1>a, <1>b, <1>c, <1>d, <1>e, <1>f, <2>2, <2>3, ReceiveKeepsTypes DEF InsertLocal
<1>9. ASSUME NEW u \in Urls, InsertUrl(w, v, u)
      PROVE  PveTypeOK' /\ ConfigOK' /\ UpdatesOK' /\ SeenOK' /\ ThreadsOK'
  <2>1. Sound("fetch", New("insert", v))
    BY NewIsSound DEF Asked, Done, Steps
  <2>2. pc' = [pc EXCEPT ![w] = "fetch"] /\ req' = [req EXCEPT ![w] = New("insert", v)]
    BY <1>9 DEF InsertUrl, Receive, Advance, Goto
  <2>3. \A x \in Workers \ {w} : fetch'[x] = fetch[x]
    BY <1>9 DEF InsertUrl, Fetch, Go, SystemInv, IsoInv, IsoTypeOK
  <2>4. ThreadsOK'
    BY <1>a, <2>1, <2>2, <2>3, ThreadMoves
  <2> QED  BY <1>9, <1>b, <1>c, <1>d, <1>e, <2>4 DEF InsertUrl
<1>10. CASE Eject(w, v)
  <2>1. ThreadsOK'
    BY <1>10, <1>1, <1>f DEF Eject, Done, Asked
  <2>2. UpdatesOK'
    BY <1>10, <1>a, EmptySeq, UpdateKeepsTypes DEF Eject
  <2> QED  BY <1>10, <1>b, <1>c, <1>e, <2>1, <2>2 DEF Eject
<1>11. ASSUME NEW order \in BootOrders, UpdateConfig(w, v, order)
       PROVE  PveTypeOK' /\ ConfigOK' /\ UpdatesOK' /\ SeenOK' /\ ThreadsOK'
  <2>1. ThreadsOK'
    BY <1>11, <1>1, <1>f DEF UpdateConfig, Done, Asked
  <2>2. UpdatesOK'
    BY <1>11, <1>a, UpdateKeepsTypes DEF UpdateConfig
  <2> QED  BY <1>11, <1>b, <1>c, <1>e, <2>1, <2>2 DEF UpdateConfig
<1>12. CASE FailsAtOnce(w, v)
  <2>1. ThreadsOK'
    BY <1>12, <1>1, <1>f DEF FailsAtOnce, Done, Asked
  <2> QED  BY <1>12, <1>b, <1>c, <1>d, <1>e, <2>1 DEF FailsAtOnce
<1> QED
  BY <1>2, <1>3, <1>4, <1>5, <1>6, <1>7, <1>8, <1>9, <1>10, <1>11, <1>12 DEF Ask

\* A thread that waits for no ISO goes on, with what it remembers of its request or
\* with what it has just learned.
LEMMA GoOnKeepsTypes ==
  ASSUME ThreadsOK, NEW w \in Workers, NEW label, NEW r, Sound(label, r),
         pc[w] # "fetch", UNCHANGED fetch, Goto(w, label),
         (UNCHANGED req /\ r = req[w]) \/ req' = [req EXCEPT ![w] = r]
  PROVE  ThreadsOK'
<1>1. req' = [req EXCEPT ![w] = r]
  BY DEF ThreadsOK
<1>2. fetch'[w].at = "idle"
  BY DEF ThreadsOK
<1> QED  BY <1>1, <1>2, ThreadMoves DEF Goto

\* What a thread remembers still fits at most other steps.
LEMMA StillSound ==
  ASSUME ThreadsOK, NEW w \in Workers, pc[w] \notin Done,
         NEW label \in (Done \cup Steps) \ {"power", "represent", "mode"}
  PROVE  Sound(label, req[w])
BY DEF ThreadsOK, Sound

\* The steps of a request keep the types.
LEMMA StepKeepsTypes ==
  ASSUME SystemInv, NEW w \in Workers, Step(w)
  PROVE  PveTypeOK' /\ ConfigOK' /\ UpdatesOK' /\ SeenOK' /\ ThreadsOK'
<1> USE SystemAssumption
<1>a. PveTypeOK /\ ConfigOK /\ UpdatesOK /\ SeenOK /\ ThreadsOK
  BY DEF SystemInv
<1>b. UNCHANGED pveVars => PveTypeOK'
  BY <1>a DEF PveTypeOK, pveVars
<1>c. UNCHANGED config => ConfigOK'
  BY <1>a DEF ConfigOK, WellFormed, Names
<1>d. UNCHANGED updates => UpdatesOK'
  BY <1>a DEF UpdatesOK, Names
<1>e. UNCHANGED seen => SeenOK'
  BY <1>a DEF SeenOK, Tags, NoTag
<1>f. UNCHANGED isoVars => UNCHANGED fetch
  BY DEF isoVars
<1>g. req[w] \in Requests /\ (pc[w] \notin Done => Vm(w) \in VMs)
  BY <1>a DEF ThreadsOK, Sound, Vm
<1>h. ASSUME pc[w] \in Steps \ {"fetch"}, NEW label \in (Done \cup Steps) \ {"power", "represent", "mode"},
             Goto(w, label), UNCHANGED <<req, isoVars>>
      PROVE  ThreadsOK'
  <2>1. Sound(label, req[w]) /\ pc[w] # "fetch"
    BY <1>a, <1>h, StillSound DEF Steps, Done
  <2> QED  BY <1>a, <1>f, <1>h, <2>1, GoOnKeepsTypes
<1>1. CASE ReadPower(w)
  <2> DEFINE r == [req[w] EXCEPT !.on = Alive(Vm(w))]
  <2>1. r \in Requests /\ r.vm = req[w].vm /\ r.kind = req[w].kind /\ r.target = req[w].target
    <3>1. Alive(Vm(w)) \in BOOLEAN
      BY DEF Alive
    <3> QED  BY <1>g, <3>1 DEF Requests
  <2> HIDE DEF r
  <2>2. Sound("power", req[w])
    BY <1>1, <1>a DEF ReadPower, ThreadsOK
  <2>3. Sound("represent", r)
    BY <2>1, <2>2 DEF Sound, Done, Steps
  <2>4. pc[w] # "fetch" /\ Goto(w, "represent") /\ req' = [req EXCEPT ![w] = r]
    BY <1>1 DEF ReadPower, Advance, r
  <2>5. ThreadsOK'
    BY <1>1, <1>a, <1>f, <2>3, <2>4, GoOnKeepsTypes DEF ReadPower
  <2> QED  BY <1>1, <1>b, <1>c, <1>d, <1>e, <2>5 DEF ReadPower
<1>2. CASE Represent(w)
  <2>1. Sound("represent", req[w])
    BY <1>2, <1>a DEF Represent, ThreadsOK
  <2>2. PICK label : /\ Goto(w, label) /\ label \in {"accepted", "status", "mode", "refused"}
                     /\ label = "mode" => req[w].kind = "mode"
    <3> DEFINE agree == req[w].match = Representation(w)
               label == CASE req[w].kind = "get"             -> "accepted"
                          [] req[w].kind = "boot" /\ agree   -> "status"
                          [] req[w].kind = "mode" /\ agree   -> "mode"
                          [] req[w].kind # "get" /\ ~agree   -> "refused"
    <3>1. Goto(w, label)
      BY <1>2 DEF Represent
    <3>2. req[w].kind \in {"get", "boot", "mode"}
      BY <2>1 DEF Sound
    <3>3. /\ label \in {"accepted", "status", "mode", "refused"}
          /\ label = "mode" => req[w].kind = "mode"
      BY <3>2
    <3> QED  BY <3>1, <3>3
  <2>3. Sound(label, req[w])
    BY <2>1, <2>2 DEF Sound, Done, Steps
  <2>4. ThreadsOK'
    BY <1>2, <1>a, <1>f, <2>2, <2>3, GoOnKeepsTypes DEF Represent
  <2>5. Vm(w) \in VMs
    BY <1>2, <1>g DEF Represent, Done
  <2>6. Representation(w) \in Tags
    BY <1>a, <1>g, <2>5 DEF Representation, ConfigOK, Requests, Tags
  <2>7. SeenOK'
    BY <1>2, <1>a, <1>e, <2>5, <2>6 DEF Represent, SeenOK, Tags, NoTag
  <2> QED  BY <1>2, <1>b, <1>c, <1>d, <2>4, <2>7 DEF Represent
<1>3. CASE CycleStop(w) \/ CycleStart(w)
  <2>1. Vm(w) \in VMs
    BY <1>3, <1>g DEF CycleStop, CycleStart, Done
  <2>2. PveTypeOK'
    BY <1>3, <1>a, <2>1, PostKeepsTypes DEF CycleStop, CycleStart, TaskKinds
  <2>3. ThreadsOK'
    BY <1>3, <1>h DEF CycleStop, CycleStart, Done, Steps
  <2> QED  BY <1>3, <1>c, <1>d, <1>e, <2>2, <2>3 DEF CycleStop, CycleStart
<1>4. CASE ReadStatus(w) \/ ReadEfidisk(w)
  <2>1. ThreadsOK'
    BY <1>4, <1>h DEF ReadStatus, ReadEfidisk, Done, Steps
  <2> QED  BY <1>4, <1>b, <1>c, <1>d, <1>e, <2>1 DEF ReadStatus, ReadEfidisk
<1>5. CASE ReadBoot(w)
  <2> DEFINE r == [req[w] EXCEPT !.boot = config[Vm(w)].boot]
  <2>1. Vm(w) \in VMs /\ pc[w] # "fetch" /\ Goto(w, "devices") /\ req' = [req EXCEPT ![w] = r]
    BY <1>5, <1>g DEF ReadBoot, Advance, Done
  <2>2. config[Vm(w)].boot \in Seq(Devices)
    BY <1>a, <2>1 DEF ConfigOK
  <2>3. r \in Requests /\ r.vm = req[w].vm
    BY <1>g, <2>2 DEF Requests
  <2> HIDE DEF r
  <2>4. Sound("devices", r)
    BY <2>1, <2>3 DEF Sound, Steps, Done, Vm
  <2>5. ThreadsOK'
    BY <1>5, <1>a, <1>f, <2>1, <2>4, GoOnKeepsTypes DEF ReadBoot
  <2> QED  BY <1>5, <1>b, <1>c, <1>d, <1>e, <2>5 DEF ReadBoot
<1>6. CASE ReadDevices(w)
  <2> DEFINE hw == config[Vm(w)].hw
             r == [req[w] EXCEPT !.order = Reorder(hw, req[w].boot, req[w].target)]
  <2>1. Vm(w) \in VMs /\ pc[w] = "devices"
    BY <1>6, <1>g DEF ReadDevices, Done
  <2>2. ASSUME req[w].target \in {"Pxe", "Cd", "Hdd"} /\ TargetDevice(hw, req[w].target) = <<>>
        PROVE  ThreadsOK'
    <3>1. Goto(w, "refused") /\ UNCHANGED <<req, isoVars>>
      BY <1>6, <2>2 DEF ReadDevices
    <3> QED  BY <1>h, <2>1, <3>1 DEF Done, Steps
  <2>3. ASSUME ~(req[w].target \in {"Pxe", "Cd", "Hdd"} /\ TargetDevice(hw, req[w].target) = <<>>)
        PROVE  ThreadsOK'
    <3>1. Goto(w, "order") /\ req' = [req EXCEPT ![w] = r] /\ UNCHANGED isoVars
      BY <1>6, <2>3 DEF ReadDevices, Advance
    <3>2. Reorder(hw, req[w].boot, req[w].target) \in Seq(Devices)
      <4>1. WellFormed(hw) /\ req[w].boot \in Seq(Devices)
        BY <1>a, <1>g, <2>1 DEF ConfigOK, Requests
      <4> QED  BY <2>3, <4>1, ReorderIsComplete
    <3>3. r \in Requests /\ r.vm = req[w].vm
      BY <1>g, <3>2 DEF Requests
    <3> HIDE DEF r
    <3>4. Sound("order", r)
      BY <2>1, <3>3 DEF Sound, Steps, Done, Vm
    <3> QED  BY <1>a, <1>f, <2>1, <3>1, <3>4, GoOnKeepsTypes
  <2> QED  BY <1>6, <1>b, <1>c, <1>d, <1>e, <2>2, <2>3 DEF ReadDevices
<1>7. CASE SetOrder(w) \/ Mount(w) \/ BootFromMedium(w)
  <2>1. Vm(w) \in VMs
    BY <1>7, <1>g DEF SetOrder, Mount, BootFromMedium, Done
  <2>2. ThreadsOK'
    BY <1>7, <1>h DEF SetOrder, Mount, BootFromMedium, Done, Steps
  <2>3. req[w].order \in Seq(Devices) /\ req[w].image \in Names \cup {NoMedia} /\ <<"ide2">> \in Seq(Devices)
    BY <1>g DEF Requests
  <2>4. UpdatesOK'
    BY <1>7, <1>a, <2>1, <2>3, UpdateKeepsTypes DEF SetOrder, Mount, BootFromMedium
  <2> QED  BY <1>7, <1>b, <1>c, <1>e, <2>2, <2>4 DEF SetOrder, Mount, BootFromMedium
<1>8. CASE SetMode(w)
  <2>1. Vm(w) \in VMs /\ req[w].target \in {"seabios", "ovmf"}
    BY <1>8, <1>a, <1>g DEF SetMode, ThreadsOK, Sound, Done
  <2>2. ThreadsOK'
    BY <1>8, <1>h DEF SetMode, Done, Steps
  <2>3. ConfigOK'
    BY <1>8, <1>a, <2>1 DEF SetMode, ConfigOK, Fields, WellFormed, Names
  <2> QED  BY <1>8, <1>b, <1>d, <1>e, <2>2, <2>3 DEF SetMode
<1>9. CASE CreateEfidisk(w)
  <2>1. Vm(w) \in VMs
    BY <1>9, <1>g DEF CreateEfidisk, Done
  <2>2. ThreadsOK'
    BY <1>9, <1>h DEF CreateEfidisk, Done, Steps
  <2>3. ConfigOK'
    BY <1>9, <1>a, <2>1 DEF CreateEfidisk, ConfigOK, Fields, WellFormed, Names
  <2> QED  BY <1>9, <1>b, <1>d, <1>e, <2>2, <2>3 DEF CreateEfidisk
<1>10. CASE Fetching(w)
  <2>1. fetch[w].at # "idle"
    BY <1>10 DEF Fetching, FetchStep, LockFile, Look, Download, CompareIso, Upload, UploadRuns, Await, Copy
  <2>2. pc[w] = "fetch" /\ UNCHANGED <<pc, req>>
    BY <1>10, <1>a, <2>1 DEF Fetching, ThreadsOK
  <2>3. \A x \in Workers \ {w} : fetch'[x] = fetch[x]
    BY <1>10 DEF Fetching, FetchStep, LockFile, Look, Download, CompareIso, Upload, UploadRuns, Await, Copy, Return, Raise, Leave, Go,
       SystemInv, IsoInv, IsoTypeOK
  <2>4. /\ pc' = [pc EXCEPT ![w] = "fetch"] /\ req' = [req EXCEPT ![w] = req[w]]
        /\ Sound("fetch", req[w])
    BY <1>a, <2>2 DEF ThreadsOK
  <2>5. ThreadsOK'
    BY <1>a, <2>3, <2>4, ThreadMoves
  <2> QED  BY <1>10, <1>b, <1>c, <1>d, <1>e, <2>5 DEF Fetching
<1>11. CASE Fetched(w)
  <2>1. pc[w] = "fetch" /\ Vm(w) \in VMs
    BY <1>11, <1>g DEF Fetched, Done
  <2>2. /\ \A x \in Workers \ {w} : fetch'[x] = fetch[x]
        /\ fetch'[w].at = "idle" /\ fetch[w] \in Fetches
    BY <1>11, NoFetchType DEF Fetched, Taken, Go, SystemInv, IsoInv, IsoTypeOK
  <2>3. ASSUME fetch[w].at = "ready"
        PROVE  ThreadsOK'
    <3> DEFINE r == [req[w] EXCEPT !.image = fetch[w].name]
    <3>1. pc' = [pc EXCEPT ![w] = "mount"] /\ req' = [req EXCEPT ![w] = r]
      BY <1>11, <2>3 DEF Fetched, Advance, Goto
    <3>2. r \in Requests /\ r.vm = req[w].vm
      <4>1. fetch[w].name \in Names
        BY <2>2 DEF Fetches
      <4> QED  BY <1>g, <4>1 DEF Requests
    <3> HIDE DEF r
    <3>3. Sound("mount", r)
      BY <2>1, <3>2 DEF Sound, Steps, Done, Vm
    <3> QED  BY <1>a, <2>2, <3>1, <3>3, ThreadMoves
  <2>4. ASSUME fetch[w].at # "ready"
        PROVE  ThreadsOK'
    <3>1. /\ pc' = [pc EXCEPT ![w] = "refused"] /\ req' = [req EXCEPT ![w] = req[w]]
          /\ Sound("refused", req[w])
      BY <1>11, <1>a, <1>g, <2>4 DEF Fetched, Goto, ThreadsOK, Sound, Done
    <3> QED  BY <1>a, <2>2, <3>1, ThreadMoves
  <2> QED  BY <1>11, <1>b, <1>c, <1>d, <1>e, <2>3, <2>4 DEF Fetched
<1>12. CASE Fails(w)
  <2>1. ThreadsOK'
    BY <1>12, <1>h DEF Fails, Done, Steps
  <2> QED  BY <1>12, <1>b, <1>c, <1>d, <1>e, <2>1 DEF Fails
<1> QED
  BY <1>1, <1>2, <1>3, <1>4, <1>5, <1>6, <1>7, <1>8, <1>9, <1>10, <1>11, <1>12 DEF Step

\* Configurations of which every field has its type.
LEMMA ConfigFrom ==
  ASSUME DOMAIN config' = VMs,
         \A v \in VMs : /\ DOMAIN config'[v] = Fields
                        /\ WellFormed(config'[v].hw)
                        /\ config'[v].ide2 \in Names \cup {NoMedia}
                        /\ config'[v].boot \in Seq(Devices)
                        /\ config'[v].bios \in {"seabios", "ovmf"}
                        /\ config'[v].efidisks \in Nat
  PROVE  ConfigOK'
BY DEF ConfigOK, Fields, WellFormed, Names

\* InsertMedia's drive is one of the drives an override looks for.
LEMMA Ide2IsDrive == "ide2" \in ToSet(Drives) /\ "ide2" \notin ToSet(Nics)
<1>1. Drives[11] = "ide2" /\ 11 \in DOMAIN Drives
  BY DEF Drives
<1>2. ToSet(Nics) = {"net0", "net1", "net2", "net3"}
  BY DEF Nics, ToSet
<1> QED  BY <1>1, <1>2 DEF ToSet

\* A configuration task that runs, and another client's change, keep a VM's types.
LEMMA SurroundingsKeepTypes ==
  ASSUME SystemInv, Surroundings
  PROVE  PveTypeOK' /\ ConfigOK' /\ UpdatesOK' /\ SeenOK' /\ ThreadsOK'
<1> USE SystemAssumption
<1>a. PveTypeOK /\ ConfigOK /\ UpdatesOK /\ SeenOK /\ ThreadsOK
  BY DEF SystemInv
<1>b. UNCHANGED pveVars => PveTypeOK'
  BY <1>a DEF PveTypeOK, pveVars
<1>c. UNCHANGED config => ConfigOK'
  BY <1>a DEF ConfigOK, WellFormed, Names
<1>d. UNCHANGED updates => UpdatesOK'
  BY <1>a DEF UpdatesOK, Names
<1>e. UNCHANGED seen => SeenOK'
  BY <1>a DEF SeenOK, Tags, NoTag
<1>f. UNCHANGED <<pc, req, fetch>> => ThreadsOK'
  BY <1>a DEF ThreadsOK, Sound, Done, Steps, Requests, Names, Tags, NoTag
<1>g. UNCHANGED isoVars => UNCHANGED fetch
  BY DEF isoVars
<1>h. ASSUME NEW v \in VMs, DOMAIN updates' = VMs,
             \A u \in VMs : /\ DOMAIN updates'[u] = {"boot", "ide2"}
                            /\ updates'[u].boot \subseteq updates[u].boot
                            /\ updates'[u].ide2 \subseteq updates[u].ide2
      PROVE  UpdatesOK'
  <2>1. ASSUME NEW u \in VMs
        PROVE  /\ updates'[u].boot \subseteq Seq(Devices)
               /\ updates'[u].ide2 \subseteq Names \cup {NoMedia}
    BY <1>a, <1>h, Zenon DEF UpdatesOK
  <2>2. \A u \in VMs : /\ DOMAIN updates'[u] = {"boot", "ide2"}
                       /\ updates'[u].boot \subseteq Seq(Devices)
                       /\ updates'[u].ide2 \subseteq Names \cup {NoMedia}
    BY <1>h, <2>1
  <2> QED  BY <1>h, <2>2, Zenon DEF UpdatesOK, Names
<1>1. ASSUME NEW v \in VMs, Pve(v) PROVE PveTypeOK' /\ ConfigOK' /\ UpdatesOK' /\ SeenOK' /\ ThreadsOK'
  BY <1>1, <1>a, <1>c, <1>d, <1>e, <1>f, <1>g, PveKeepsTypes DEF Pve
<1>2. ASSUME NEW v \in VMs, ApplyBoot(v) PROVE PveTypeOK' /\ ConfigOK' /\ UpdatesOK' /\ SeenOK' /\ ThreadsOK'
  <2>1. PICK order \in updates[v].boot :
          /\ updates' = [updates EXCEPT ![v].boot = @ \ {order}]
          /\ config' = [config EXCEPT ![v].boot = order] \/ UNCHANGED config
    BY <1>2 DEF ApplyBoot
  <2>2. UpdatesOK'
    BY <1>a, <1>h, <2>1 DEF UpdatesOK
  <2>3. order \in Seq(Devices)
    BY <1>a, <2>1 DEF UpdatesOK
  <2>4. ASSUME config' = [config EXCEPT ![v].boot = order] PROVE ConfigOK'
    <3>1. DOMAIN config' = VMs
      BY <1>a, <2>4 DEF ConfigOK
    <3>2. ASSUME NEW u \in VMs
          PROVE  /\ DOMAIN config'[u] = Fields /\ config'[u].boot \in {order, config[u].boot}
                 /\ config'[u].hw = config[u].hw /\ config'[u].ide2 = config[u].ide2
                 /\ config'[u].bios = config[u].bios /\ config'[u].efidisks = config[u].efidisks
      BY <1>a, <2>4 DEF ConfigOK, Fields
    <3>3. \A u \in VMs : config'[u].boot \in Seq(Devices)
      BY <1>a, <2>3, <3>2 DEF ConfigOK
    <3> QED  BY <1>a, <3>1, <3>2, <3>3, ConfigFrom DEF ConfigOK
  <2> QED  BY <1>2, <1>b, <1>c, <1>e, <1>f, <1>g, <2>1, <2>2, <2>4 DEF ApplyBoot
<1>3. ASSUME NEW v \in VMs, ApplyIde2(v) PROVE PveTypeOK' /\ ConfigOK' /\ UpdatesOK' /\ SeenOK' /\ ThreadsOK'
  <2> DEFINE hw == config[v].hw
             mounted == [d \in DOMAIN hw \cup {"ide2"} |-> IF d = "ide2" THEN "cdrom" ELSE hw[d]]
  <2>1. PICK medium \in updates[v].ide2 :
          /\ updates' = [updates EXCEPT ![v].ide2 = @ \ {medium}]
          /\ config' = [config EXCEPT ![v].ide2 = medium, ![v].hw = mounted] \/ UNCHANGED config
    BY <1>3 DEF ApplyIde2
  <2>2. UpdatesOK'
    BY <1>a, <1>h, <2>1 DEF UpdatesOK
  <2>3. medium \in Names \cup {NoMedia} /\ WellFormed(hw)
    BY <1>a, <2>1 DEF UpdatesOK, ConfigOK
  <2>4. WellFormed(mounted)
    BY <2>3, Ide2IsDrive DEF WellFormed, Kinds
  <2> HIDE DEF mounted
  <2>5. ASSUME config' = [config EXCEPT ![v].ide2 = medium, ![v].hw = mounted] PROVE ConfigOK'
    <3>1. DOMAIN config' = VMs
      BY <1>a, <2>5 DEF ConfigOK
    <3>2. ASSUME NEW u \in VMs
          PROVE  /\ DOMAIN config'[u] = Fields
                 /\ config'[u].hw = IF u = v THEN mounted ELSE config[u].hw
                 /\ config'[u].ide2 = IF u = v THEN medium ELSE config[u].ide2
                 /\ config'[u].boot = config[u].boot /\ config'[u].bios = config[u].bios
                 /\ config'[u].efidisks = config[u].efidisks
      BY <1>a, <2>5 DEF ConfigOK, Fields
    <3>3. \A u \in VMs : WellFormed(config'[u].hw) /\ config'[u].ide2 \in Names \cup {NoMedia}
      BY <1>a, <2>3, <2>4, <3>2 DEF ConfigOK
    <3> QED  BY <1>a, <3>1, <3>2, <3>3, ConfigFrom DEF ConfigOK
  <2> QED  BY <1>3, <1>b, <1>c, <1>e, <1>f, <1>g, <2>1, <2>2, <2>5 DEF ApplyIde2
<1>4. ASSUME NEW v \in VMs, Rewire(v) PROVE PveTypeOK' /\ ConfigOK' /\ UpdatesOK' /\ SeenOK' /\ ThreadsOK'
  <2>1. PICK hw \in Hardware :
          config' = [config EXCEPT ![v].hw = hw, ![v].ide2 = IF "ide2" \in DOMAIN hw THEN @ ELSE NoMedia]
    BY <1>4 DEF Rewire
  <2>2. ConfigOK'
    <3>1. DOMAIN config' = VMs
      BY <1>a, <2>1 DEF ConfigOK
    <3>2. ASSUME NEW u \in VMs
          PROVE  /\ DOMAIN config'[u] = Fields
                 /\ config'[u].hw = IF u = v THEN hw ELSE config[u].hw
                 /\ config'[u].ide2 \in {config[u].ide2, NoMedia}
                 /\ config'[u].boot = config[u].boot /\ config'[u].bios = config[u].bios
                 /\ config'[u].efidisks = config[u].efidisks
      BY <1>a, <2>1 DEF ConfigOK, Fields
    <3>3. \A u \in VMs : WellFormed(config'[u].hw) /\ config'[u].ide2 \in Names \cup {NoMedia}
      BY <1>a, <2>1, <3>2 DEF ConfigOK
    <3> QED  BY <1>a, <3>1, <3>2, <3>3, ConfigFrom DEF ConfigOK
  <2> QED  BY <1>4, <1>b, <1>d, <1>e, <1>f, <1>g, <2>2 DEF Rewire
<1>5. CASE StoreChanges
  <2>1. UNCHANGED fetch
    BY <1>5 DEF StoreChanges, Republish, RemoveIso
  <2> QED  BY <1>5, <1>b, <1>c, <1>d, <1>e, <1>f, <2>1 DEF StoreChanges
<1> QED  BY <1>1, <1>2, <1>3, <1>4, <1>5 DEF Surroundings

\* The invariant of the whole system is inductive.
LEMMA SystemStep == SystemInv /\ [Next]_vars => SystemInv'
<1> SUFFICES ASSUME SystemInv, [Next]_vars PROVE SystemInv'
  OBVIOUS
<1>1. IsoInv'
  BY StepIsStoreStep, NextInv DEF SystemInv
<1>2. CASE Crash
  <2>1. PveTypeOK' /\ ConfigOK' /\ UpdatesOK' /\ SeenOK'
    BY <1>2 DEF Crash, SystemInv, pveVars, PveTypeOK, ConfigOK, WellFormed, Names, UpdatesOK, SeenOK, Tags, NoTag
  <2>2. /\ pc' \in [Workers -> Done \cup Steps] /\ req' = req
        /\ \A w \in Workers : pc'[w] \in Done /\ fetch'[w].at = "idle"
    BY <1>2, NoFetchType DEF Crash, IsoCrash, SystemInv, ThreadsOK, Done
  <2>3. ThreadsOK'
    BY <2>2 DEF SystemInv, ThreadsOK, Sound, Done, Steps, Requests, Names, Tags, NoTag
  <2> QED  BY <1>1, <2>1, <2>3 DEF SystemInv
<1>3. CASE UNCHANGED vars
  BY <1>1, <1>3 DEF vars, isoVars, SystemInv, pveVars, PveTypeOK, ConfigOK, WellFormed, Names, UpdatesOK, SeenOK,
     Tags, NoTag, ThreadsOK, Sound, Done, Steps, Requests
<1> QED
  BY <1>1, <1>2, <1>3, AskKeepsTypes, StepKeepsTypes, SurroundingsKeepTypes DEF Next, SystemInv

\* Whatever the requests, their order and what fails, every variable keeps its type; above
\* all, a boot order is always a sequence of device keys, a firmware mode one of PVE's, and
\* a thread that waits for an ISO never does anything else.
THEOREM SystemTypeCorrect == Spec => []SystemTypeOK
BY SystemInit, SystemStep, InvHasTypes, PTL DEF Spec

\* What OverrideIsComplete says of one step.
OverridesComplete ==
  \A w \in Workers : pc[w] = "devices" /\ pc'[w] = "order" =>
    Complete(config[Vm(w)].hw, req[w].boot, req[w].target, req'[w].order)

\* Only the step that computes the order goes from "devices" to "order".
LEMMA OverrideStep == SystemInv /\ [Next]_vars => [OverridesComplete]_vars
<1> SUFFICES ASSUME SystemInv, [Next]_vars, NEW w \in Workers, pc[w] = "devices", pc'[w] = "order"
             PROVE  Complete(config[Vm(w)].hw, req[w].boot, req[w].target, req'[w].order)
  BY DEF OverridesComplete
<1>a. pc \in [Workers -> Done \cup Steps] /\ req \in [Workers -> Requests] /\ Vm(w) \in VMs
  BY DEF SystemInv, ThreadsOK, Sound, Vm, Done
<1>1. ASSUME NEW x \in Workers, Step(x) PROVE ReadDevices(w)
  <2>1. x = w
    BY <1>1, <1>a DEF Step, ReadPower, Represent, CycleStop, CycleStart, ReadStatus, ReadBoot, ReadDevices,
       SetOrder, SetMode, ReadEfidisk, CreateEfidisk, Fetching, Fetched, Mount, BootFromMedium, Fails, Advance, Goto
  <2>2. ~Fetching(x) /\ ~Fails(x)
    BY <2>1, <1>a DEF Fetching, Fails, Goto
  <2> QED
    BY <1>1, <2>1, <2>2 DEF Step, ReadPower, Represent, CycleStop, CycleStart, ReadStatus, ReadBoot,
       SetOrder, SetMode, ReadEfidisk, CreateEfidisk, Fetched, Mount, BootFromMedium
<1>2. ASSUME NEW x \in Workers, NEW v \in VMs, Ask(x, v) PROVE FALSE
  <2>1. PICK label, r : Begins(x, v, label, r)
    BY <1>2, AskBegins
  <2> QED  BY <1>a, <2>1 DEF Begins, Receive, Advance, Goto, Done
<1>3. ~Crash
  BY DEF Crash, Done
<1>4. ~Surroundings
  BY DEF Surroundings, Pve, ApplyBoot, ApplyIde2, Rewire, StoreChanges
<1>5. ~(UNCHANGED vars)
  BY DEF vars
<1>6. ReadDevices(w)
  BY <1>1, <1>2, <1>3, <1>4, <1>5 DEF Next
<1> DEFINE hw == config[Vm(w)].hw
<1>7. ~(req[w].target \in {"Pxe", "Cd", "Hdd"} /\ TargetDevice(hw, req[w].target) = <<>>)
  BY <1>6, <1>a DEF ReadDevices, Goto
<1>8. req' = [req EXCEPT ![w] = [req[w] EXCEPT !.order = Reorder(hw, req[w].boot, req[w].target)]]
  BY <1>6, <1>7 DEF ReadDevices, Advance
<1>9. req'[w].order = Reorder(hw, req[w].boot, req[w].target)
  <2>1. req[w] \in Requests
    BY <1>a
  <2> QED  BY <1>a, <1>8, <2>1 DEF Requests
<1>10. WellFormed(hw) /\ req[w].boot \in Seq(Devices)
  BY <1>a DEF SystemInv, ConfigOK, Requests
<1> QED  BY <1>7, <1>9, <1>10, ReorderIsComplete

\* For every VM's devices and every boot order, listed twice over or naming devices the VM
\* has lost: the order an override posts starts with the target, names every disk it
\* recognises, nothing twice and nothing the VM has not, and keeps the old order otherwise.
THEOREM OverridesAreComplete == Spec => OverrideIsComplete
<1>1. OverridesComplete <=>
        \A w \in Workers : pc[w] = "devices" /\ pc'[w] = "order" =>
          LET hw == config[Vm(w)].hw
              old == Parsed(req[w].boot)
              new == req'[w].order
          IN /\ req[w].target = "Pxe" => hw[new[1]] = "nic"
             /\ req[w].target = "Cd"  => hw[new[1]] = "cdrom"
             /\ req[w].target = "Hdd" => hw[new[1]] = "disk"
             /\ IsInjective(new)
             /\ ToSet(new) \subseteq DOMAIN hw
             /\ \A d \in DOMAIN hw : hw[d] = "disk" /\ d \in ToSet(Drives) => d \in ToSet(new)
             /\ \A d, e \in (ToSet(new) \cap ToSet(old)) \ {new[1]} :
                  First(old, d) < First(old, e) => First(new, d) < First(new, e)
  BY DEF OverridesComplete, Complete
<1> QED  BY <1>1, SystemInit, SystemStep, OverrideStep, PTL DEF Spec, OverrideIsComplete

-----------------------------------------------------------------------------
(* What the system makes of PVE's tasks.                                     *)

\* The kinds of task that the ResetTypes clients ask for have posted.
Posted == {ResetTask[type] : type \in Resets \cap DOMAIN ResetTask}
          \cup (IF "PowerCycle" \in Resets THEN {"stop", "start"} ELSE {})

\* Only a PowerCycle gets to the steps that post its two tasks.
CyclesAsked == \A w \in Workers : pc[w] \in {"stop", "start"} => "PowerCycle" \in Resets

LEMMA CyclesStep == SystemInv /\ CyclesAsked /\ [Next]_vars => CyclesAsked'
<1> SUFFICES ASSUME SystemInv, CyclesAsked, [Next]_vars PROVE CyclesAsked'
  OBVIOUS
<1>0. pc \in [Workers -> Done \cup Steps]
  BY DEF SystemInv, ThreadsOK
<1>1. ASSUME NEW w \in Workers, NEW v \in VMs, Ask(w, v) PROVE CyclesAsked'
  <2>1. CASE PowerCycle(w, v)
    BY <2>1 DEF PowerCycle, CyclesAsked
  <2>2. CASE ~PowerCycle(w, v)
    BY <1>0, <1>1, <2>2 DEF Ask, GetSystem, Reset, AskBoot, AskMode, Begin, SetFirmwareMode, InsertLocal,
       InsertUrl, Eject, UpdateConfig, FailsAtOnce, Receive, Advance, Goto, CyclesAsked
  <2> QED  BY <2>1, <2>2
<1>2. ASSUME NEW w \in Workers, Step(w) PROVE CyclesAsked'
  <2>1. CASE CycleStop(w)
    BY <1>0, <2>1 DEF CycleStop, CyclesAsked, Goto
  <2>2. CASE Represent(w)
    <3>1. req[w].kind \in {"get", "boot", "mode"}
      BY <2>2 DEF Represent, SystemInv, ThreadsOK, Sound
    <3> QED  BY <1>0, <2>2, <3>1 DEF Represent, Goto, CyclesAsked
  <2>3. CASE ReadDevices(w) \/ Fetched(w) \/ ReadEfidisk(w) \/ Fails(w)
    BY <1>0, <2>3 DEF ReadDevices, Fetched, ReadEfidisk, Fails, Advance, Goto, CyclesAsked
  <2>4. CASE \/ ReadPower(w) \/ CycleStart(w) \/ ReadStatus(w) \/ ReadBoot(w) \/ SetOrder(w)
             \/ SetMode(w) \/ CreateEfidisk(w) \/ Fetching(w) \/ Mount(w) \/ BootFromMedium(w)
    BY <1>0, <2>4 DEF ReadPower, CycleStart, ReadStatus, ReadBoot, SetOrder, SetMode, CreateEfidisk,
       Fetching, Mount, BootFromMedium, Advance, Goto, CyclesAsked
  <2> QED  BY <1>2, <2>1, <2>2, <2>3, <2>4 DEF Step
<1>3. CASE Crash
  BY <1>3 DEF Crash, CyclesAsked
<1>4. CASE Surroundings \/ UNCHANGED vars
  BY <1>4 DEF Surroundings, Pve, ApplyBoot, ApplyIde2, Rewire, StoreChanges, vars, CyclesAsked
<1> QED  BY <1>1, <1>2, <1>3, <1>4 DEF Next

\* What a step does to the VMs and their tasks is PVE's own, or posts one of those kinds.
LEMMA StepIsPveStep == SystemInv /\ CyclesAsked /\ [Next]_vars => [PveNext(Posted)]_pveVars
<1> SUFFICES ASSUME SystemInv, CyclesAsked, [Next]_vars, ~(UNCHANGED pveVars) PROVE PveNext(Posted)
  OBVIOUS
<1>1. ASSUME NEW w \in Workers, NEW v \in VMs, Ask(w, v) PROVE PveNext(Posted)
  <2>1. PICK type \in Resets : Reset(w, v, type)
    BY <1>1 DEF Ask, GetSystem, PowerCycle, AskBoot, AskMode, SetFirmwareMode, InsertLocal,
       InsertUrl, Eject, UpdateConfig, FailsAtOnce
  <2>2. ResetTask[type] \in Posted /\ Post(v, ResetTask[type]) /\ UNCHANGED qmp
    BY <2>1 DEF Reset, Posted
  <2> QED  BY <2>2 DEF PveNext
<1>2. ASSUME NEW w \in Workers, Step(w) PROVE PveNext(Posted)
  <2>1. CycleStop(w) \/ CycleStart(w)
    BY <1>2 DEF Step, ReadPower, Represent, ReadStatus, ReadBoot, ReadDevices, SetOrder, SetMode,
       ReadEfidisk, CreateEfidisk, Fetching, Fetched, Mount, BootFromMedium, Fails
  <2>2. {"stop", "start"} \subseteq Posted
    BY <2>1 DEF CycleStop, CycleStart, CyclesAsked, Posted
  <2>3. Vm(w) \in VMs
    BY <2>1 DEF CycleStop, CycleStart, SystemInv, ThreadsOK, Sound, Vm, Done
  <2> QED  BY <2>1, <2>2, <2>3 DEF CycleStop, CycleStart, PveNext
<1>3. CASE Crash \/ UNCHANGED vars
  BY <1>3 DEF Crash, vars
<1>4. CASE Surroundings
  BY <1>4 DEF Surroundings, Pve, ApplyBoot, ApplyIde2, Rewire, StoreChanges, pveVars, PveNext
<1> QED  BY <1>1, <1>2, <1>3, <1>4 DEF Next

\* With the kinds above as all that clients post, ComputerSystem implements PVE's own
\* specification: of what VMs and their tasks do, the daemon's part is to post those.
THEOREM SystemUsesPve == Spec => PveSpec(Posted)
<1>1. Init => PveInit /\ SystemInv /\ CyclesAsked
  BY SystemInit DEF Init, CyclesAsked
<1> QED  BY <1>1, SystemStep, CyclesStep, StepIsPveStep, PTL DEF Spec, PveSpec

\* Where clients ask for any reset but Pause, nothing this daemon posts suspends a VM: what
\* NeverPaused of SecureBootBlocking_proofs asks of this part of Secure Boot's surroundings.
THEOREM OnlyPauseSuspends ==
  ASSUME "Pause" \notin Resets
  PROVE  Spec => PveSpec(TaskKinds \ {"suspend"})
<1>1. Posted \subseteq TaskKinds \ {"suspend"}
  BY DEF Posted, ResetTask, TaskKinds
<1>2. [PveNext(Posted)]_pveVars => [PveNext(TaskKinds \ {"suspend"})]_pveVars
  BY <1>1 DEF PveNext
<1> QED  BY <1>2, SystemUsesPve, PTL DEF PveSpec
=============================================================================
