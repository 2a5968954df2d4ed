---------------------------- MODULE IsoStore_proofs ----------------------------
(* Proofs about the ISO store, for any number of threads, URLs and ISOs. *)
EXTENDS IsoStore, TLAPS

\* The record of a thread that has no fetch under way.
LEMMA NoFetchType == NoFetch \in Fetches /\ NoFetch.at = "idle"
<1>1. PICK f \in Files, u \in Urls : TRUE  BY IsoAssumption
<1>2. [at |-> "idle", file |-> f, url |-> u, got |-> NoIso, name |-> Plain(f)] \in Fetches
  BY <1>1 DEF Fetches, Names, Plain, Returned
<1>3. \E r \in Fetches : r.at = "idle" /\ r.got = NoIso  BY <1>2
<1> QED  BY <1>3 DEF NoFetch

LEMMA PlainType == \A f \in Files : Plain(f) \in Names
  BY DEF Plain, Names

LEMMA PlainInjective == \A f, g : Plain(f) = Plain(g) => f = g
  BY DEF Plain

LEMMA InitInv == IsoInit => IsoInv
<1> SUFFICES ASSUME IsoInit PROVE IsoInv  OBVIOUS
<1>1. \A w \in Workers : fetch[w] = NoFetch /\ fetch[w].at = "idle"
  BY NoFetchType DEF IsoInit
<1>2. IsoTypeOK  BY <1>1, NoFetchType DEF IsoInit, IsoTypeOK, WithIso
<1> QED  BY <1>1, <1>2, IsoAssumption DEF IsoInit, IsoInv, SuffixedAbsent, Locked, HoldsLock, HeldInside, StillAbsent

\* A thread that leaves its critical section keeps the invariant, even if it has
\* written the file it holds the lock of.
LEMMA LeaveKeepsInv ==
  ASSUME IsoInv, NEW w \in Workers, NEW r \in Fetches,
         fetch[w].at \in Locked, r.at \in {"ready", "failed"}, Leave(w, r),
         UNCHANGED served, iso' \in [Names -> Isos \cup {NoIso}],
         \A n \in Names : n # Plain(fetch[w].file) => iso'[n] = iso[n]
  PROVE  IsoInv'
<1> DEFINE file == fetch[w].file
<1>1. /\ fetch \in [Workers -> Fetches] /\ fileLock \in [Files -> Workers \cup {NoWorker}]
      /\ \A x \in Workers : fetch[x].file \in Files
      /\ fileLock[file] = w
  BY DEF IsoInv, IsoTypeOK, Fetches, HoldsLock
<1>2. \A x \in Workers : fetch'[x] = IF x = w THEN r ELSE fetch[x]
  BY <1>1 DEF Leave, Go
<1>3. \A f \in Files : fileLock'[f] = IF f = file THEN NoWorker ELSE fileLock[f]
  BY <1>1 DEF Leave
<1>4. IsoTypeOK'
  BY <1>1, <1>2 DEF IsoInv, IsoTypeOK, Leave, Go, WithIso
<1>5. \A x \in Workers : x # w /\ fetch[x].at \in Locked => fetch[x].file # file
  BY <1>1 DEF IsoInv, HoldsLock
<1>6. r.at \notin Locked /\ {"download", "upload", "await", "uploaded", "copy"} \subseteq Locked
  BY DEF Locked
<1>7. \A x \in Workers : HoldsLock(x)'
  BY <1>1, <1>2, <1>3, <1>5, <1>6 DEF IsoInv, HoldsLock
<1>8. \A x \in Workers : StillAbsent(x)'
  BY <1>1, <1>2, <1>5, <1>6, PlainType, PlainInjective DEF IsoInv, StillAbsent
<1>9. \A f \in Files : HeldInside(f)'
  BY <1>1, <1>2, <1>3, IsoAssumption DEF IsoInv, HeldInside
<1>10. SuffixedAbsent'  BY DEF IsoInv, SuffixedAbsent, Plain
<1> QED  BY <1>4, <1>7, <1>8, <1>9, <1>10 DEF IsoInv

\* A thread moves on within its call, and the store is not touched.
LEMMA MoveKeepsInv ==
  ASSUME IsoInv, NEW w \in Workers, NEW r \in Fetches, Go(w, r),
         UNCHANGED <<iso, served, fileLock>>,
         r.at \in Locked <=> fetch[w].at \in Locked,
         r.at \in Locked => r.file = fetch[w].file,
         r.at \in WithIso => r.got \in Isos,
         r.at \in {"download", "upload", "await"} => iso[Plain(r.file)] = NoIso,
         r.at \in {"uploaded", "copy"} => iso[Plain(r.file)] \in {NoIso, r.got}
  PROVE  IsoInv'
<1>1. \A x \in Workers : fetch'[x] = IF x = w THEN r ELSE fetch[x]
  BY DEF IsoInv, IsoTypeOK, Go
<1>2. IsoTypeOK'  BY <1>1 DEF IsoInv, IsoTypeOK, Go
<1>3. \A x \in Workers : HoldsLock(x)'  BY <1>1 DEF IsoInv, HoldsLock
<1>4. \A x \in Workers : StillAbsent(x)'  BY <1>1 DEF IsoInv, StillAbsent
<1>5. \A f \in Files : HeldInside(f)'
  BY <1>1, IsoAssumption DEF IsoInv, IsoTypeOK, HeldInside
<1>6. SuffixedAbsent'  BY DEF IsoInv, SuffixedAbsent
<1> QED  BY <1>2, <1>3, <1>4, <1>5, <1>6 DEF IsoInv

\* Every step keeps the invariant.
LEMMA NextInv == IsoInv /\ [IsoNext]_isoVars => IsoInv'
<1> SUFFICES ASSUME IsoInv, [IsoNext]_isoVars PROVE IsoInv'  OBVIOUS
<1> USE IsoAssumption
<1>a. /\ iso \in [Names -> Isos \cup {NoIso}] /\ served \in [Urls -> Isos]
      /\ fileLock \in [Files -> Workers \cup {NoWorker}]
      /\ \A w \in Workers : fetch[w] \in Fetches
  BY DEF IsoInv, IsoTypeOK
<1>1. ASSUME NEW w \in Workers, NEW u \in Urls, Fetch(w, u) PROVE IsoInv'
  <2>1. PICK at \in {"lock", "failed"} :
          Go(w, [NoFetch EXCEPT !.at = at, !.url = u, !.file = FileOf[u]])
    BY <1>1 DEF Fetch
  <2> DEFINE r == [NoFetch EXCEPT !.at = at, !.url = u, !.file = FileOf[u]]
  <2>2. r \in Fetches /\ r.at = at  BY NoFetchType DEF Fetches, Returned
  <2>3. r.at \notin Locked /\ fetch[w].at \notin Locked  BY <1>1, <2>2 DEF Locked, Fetch
  <2> HIDE DEF r
  <2> QED  BY <1>1, <2>1, <2>2, <2>3, MoveKeepsInv DEF Fetch, r, Locked, WithIso
<1>2. ASSUME NEW w \in Workers, LockFile(w) PROVE IsoInv'
  <2> DEFINE r == [fetch[w] EXCEPT !.at = "look"]
  <2>1. r \in Fetches /\ r.at = "look" /\ r.file = fetch[w].file /\ r.file \in Files
    BY <1>a DEF Fetches, Locked
  <2>2. \A x \in Workers : fetch'[x] = IF x = w THEN r ELSE fetch[x]
    BY <1>2, <1>a DEF LockFile, Go, IsoInv, IsoTypeOK
  <2> HIDE DEF r
  <2>3. \A f \in Files : fileLock'[f] = IF f = r.file THEN w ELSE fileLock[f]
    BY <1>2, <1>a, <2>1 DEF LockFile
  <2>4. \A x \in Workers : fetch[x].at \in Locked => x # w /\ fetch[x].file # r.file
    BY <1>2, <2>1 DEF LockFile, IsoInv, HoldsLock, Locked
  <2>5. IsoTypeOK'
    BY <1>2, <2>1, <2>2, <1>a DEF LockFile, Go, IsoInv, IsoTypeOK, r, WithIso
  <2>6. \A x \in Workers : HoldsLock(x)'
    BY <1>a, <2>1, <2>2, <2>3, <2>4 DEF IsoInv, HoldsLock, Fetches
  <2>7. \A x \in Workers : StillAbsent(x)'
    BY <1>2, <2>1, <2>2 DEF LockFile, IsoInv, StillAbsent
  <2>8. \A f \in Files : HeldInside(f)'
    BY <1>a, <2>1, <2>2, <2>3, <2>4 DEF IsoInv, HeldInside, Locked
  <2>9. SuffixedAbsent'  BY <1>2 DEF LockFile, IsoInv, SuffixedAbsent
  <2> QED  BY <2>5, <2>6, <2>7, <2>8, <2>9 DEF IsoInv
<1>3. ASSUME NEW w \in Workers, Look(w) PROVE IsoInv'
  <2> DEFINE r == [fetch[w] EXCEPT !.at = IF iso[Plain(fetch[w].file)] = NoIso
                                            THEN "download" ELSE "download_again"]
  <2>1. r \in Fetches /\ r.file = fetch[w].file /\ fetch[w].at \in Locked /\ r.at \in Locked
    BY <1>3, <1>a DEF Look, Fetches, Locked
  <2>2. r.at \in {"download", "download_again"}
        /\ (r.at = "download" => iso[Plain(r.file)] = NoIso)
    BY <1>a DEF Fetches
  <2>3. Go(w, r) /\ UNCHANGED <<iso, served, fileLock>>  BY <1>3 DEF Look
  <2> HIDE DEF r
  <2> QED  BY <2>1, <2>2, <2>3, MoveKeepsInv DEF WithIso
<1>4. ASSUME NEW w \in Workers, Download(w) PROVE IsoInv'
  <2>1. CASE Raise(w)
    <3> DEFINE r == [fetch[w] EXCEPT !.at = "failed"]
    <3>1. r \in Fetches /\ r.at = "failed"  BY <1>a DEF Fetches, Returned
    <3>2. fetch[w].at \in Locked  BY <1>4 DEF Download, Locked
    <3>3. Leave(w, r) /\ UNCHANGED <<iso, served>>  BY <1>4, <2>1 DEF Download, Raise
    <3> HIDE DEF r
    <3> QED  BY <1>a, <3>1, <3>2, <3>3, LeaveKeepsInv
  <2>2. CASE UNCHANGED fileLock /\ ~Raise(w)
    <3> DEFINE r == [fetch[w] EXCEPT !.got = served[fetch[w].url],
                                     !.at = IF @ = "download" THEN "upload" ELSE "compare"]
    <3>1. /\ r \in Fetches /\ r.got \in Isos /\ r.file = fetch[w].file
          /\ r.at = IF fetch[w].at = "download" THEN "upload" ELSE "compare"
      BY <1>a DEF Fetches, Locked
    <3>2. fetch[w].at \in {"download", "download_again"} /\ Go(w, r)
      BY <1>4, <2>2 DEF Download
    <3>3. UNCHANGED <<iso, served, fileLock>>  BY <1>4, <2>2 DEF Download
    <3>4. fetch[w].at = "download" => iso[Plain(fetch[w].file)] = NoIso
      BY DEF IsoInv, StillAbsent
    <3>5. r.at \in Locked /\ fetch[w].at \in Locked  BY <3>1, <3>2 DEF Locked
    <3>6. r.at \notin {"uploaded", "copy"} /\ (r.at = "upload" => iso[Plain(r.file)] = NoIso)
      BY <3>1, <3>2, <3>4
    <3> HIDE DEF r
    <3> QED  BY <3>1, <3>2, <3>3, <3>5, <3>6, MoveKeepsInv
  <2> QED  BY <1>4, <2>1, <2>2 DEF Download
<1>5. ASSUME NEW w \in Workers, CompareIso(w) PROVE IsoInv'
  <2>1. PICK name \in Names : Return(w, name)
    BY <1>5, <1>a DEF CompareIso, Names, Plain, Suffixed, Fetches
  <2> DEFINE r == [fetch[w] EXCEPT !.at = "ready", !.name = name]
  <2>2. r \in Fetches /\ r.at = "ready"  BY <1>a DEF Fetches, Returned
  <2>3. fetch[w].at \in Locked /\ UNCHANGED <<iso, served>>  BY <1>5 DEF CompareIso, Locked
  <2>4. Leave(w, r)  BY <2>1 DEF Return
  <2> HIDE DEF r
  <2> QED  BY <1>a, <2>2, <2>3, <2>4, LeaveKeepsInv
<1>6. ASSUME NEW w \in Workers, Upload(w) PROVE IsoInv'
  <2>1. PICK at \in {"await", "copy"} : Go(w, [fetch[w] EXCEPT !.at = at])
    BY <1>6 DEF Upload
  <2> DEFINE r == [fetch[w] EXCEPT !.at = at]
  <2>2. r \in Fetches /\ r.file = fetch[w].file /\ r.got = fetch[w].got /\ r.at = at
    BY <1>a DEF Fetches, Locked
  <2>3. r.at \in Locked /\ fetch[w].at \in Locked  BY <1>6, <2>2 DEF Upload, Locked
  <2>4. r.got \in Isos /\ iso[Plain(r.file)] = NoIso
    BY <1>6, <2>2 DEF Upload, IsoInv, IsoTypeOK, StillAbsent, WithIso
  <2>5. UNCHANGED <<iso, served, fileLock>>  BY <1>6 DEF Upload
  <2> HIDE DEF r
  <2> QED  BY <2>1, <2>2, <2>3, <2>4, <2>5, MoveKeepsInv DEF r
<1>7. ASSUME NEW w \in Workers, UploadRuns(w) PROVE IsoInv'
  <2> DEFINE file == fetch[w].file
             r == [fetch[w] EXCEPT !.at = "uploaded"]
  <2>1. file \in Files /\ fetch[w].got \in Isos /\ fetch[w].at \in Locked
    BY <1>7, <1>a DEF UploadRuns, IsoInv, IsoTypeOK, Fetches, WithIso, Locked
  <2>2. r \in Fetches /\ r.at = "uploaded" /\ r.file = file /\ r.got = fetch[w].got /\ r.at \in Locked
    BY <1>a DEF Fetches, Locked
  <2>3. \A x \in Workers : fetch'[x] = IF x = w THEN r ELSE fetch[x]
    BY <1>7 DEF UploadRuns, Go, IsoInv, IsoTypeOK
  <2>4. \A n \in Names : iso'[n] = IF n = Plain(file) THEN fetch[w].got ELSE iso[n]
    BY <1>7, <1>a DEF UploadRuns
  <2>5. UNCHANGED <<served, fileLock>>  BY <1>7 DEF UploadRuns
  <2>6. IsoTypeOK'
    BY <1>7, <1>a, <2>1, <2>2, <2>3 DEF UploadRuns, Go, IsoInv, IsoTypeOK
  <2> HIDE DEF r
  <2>7. SuffixedAbsent'  BY <2>4 DEF IsoInv, SuffixedAbsent, Plain
  <2>8. \A x \in Workers : HoldsLock(x)'
    BY <2>1, <2>2, <2>3, <2>5 DEF IsoInv, HoldsLock
  <2>9. ASSUME NEW x \in Workers PROVE StillAbsent(x)'
    <3>1. CASE x = w
      BY <3>1, <2>1, <2>2, <2>3, <2>4, PlainType DEF StillAbsent
    <3>2. CASE x # w
      <4>1. fetch'[x] = fetch[x] /\ Plain(fetch[x].file) \in Names
        BY <3>2, <2>3, <1>a, PlainType DEF Fetches
      <4>2. fetch[x].at \in Locked => fetch[x].file # file
        BY <3>2, <2>1 DEF IsoInv, HoldsLock
      <4>3. fetch[x].at \in Locked => iso'[Plain(fetch[x].file)] = iso[Plain(fetch[x].file)]
        BY <2>4, <4>1, <4>2, PlainInjective
      <4> QED  BY <4>1, <4>3 DEF IsoInv, StillAbsent, Locked
    <3> QED  BY <3>1, <3>2
  <2>10. \A f \in Files : HeldInside(f)'
    BY <1>a, <2>1, <2>2, <2>3, <2>5 DEF IsoInv, HeldInside
  <2> QED  BY <2>6, <2>7, <2>8, <2>9, <2>10 DEF IsoInv
<1>8. ASSUME NEW w \in Workers, Await(w) \/ Copy(w) PROVE IsoInv'
  <2>1. CASE Go(w, [fetch[w] EXCEPT !.at = "copy"]) /\ fetch[w].at \in {"await", "uploaded"}
             /\ UNCHANGED <<iso, served, fileLock>>
    <3> DEFINE r == [fetch[w] EXCEPT !.at = "copy"]
    <3>1. r \in Fetches /\ r.file = fetch[w].file /\ r.got = fetch[w].got /\ r.at = "copy"
      BY <1>a DEF Fetches, Locked
    <3>2. r.at \in Locked /\ fetch[w].at \in Locked  BY <2>1, <3>1 DEF Locked
    <3>3. r.got \in Isos /\ iso[Plain(r.file)] \in {NoIso, r.got}
      BY <2>1, <3>1 DEF IsoInv, IsoTypeOK, StillAbsent, WithIso
    <3> HIDE DEF r
    <3> QED  BY <2>1, <3>1, <3>2, <3>3, MoveKeepsInv DEF r
  <2>2. CASE Raise(w) /\ fetch[w].at = "copy" /\ UNCHANGED <<iso, served>>
    <3> DEFINE r == [fetch[w] EXCEPT !.at = "failed"]
    <3>1. r \in Fetches /\ r.at = "failed"  BY <1>a DEF Fetches, Returned
    <3>2. fetch[w].at \in Locked  BY <2>2 DEF Locked
    <3>3. Leave(w, r)  BY <2>2 DEF Raise
    <3> HIDE DEF r
    <3> QED  BY <1>a, <2>2, <3>1, <3>2, <3>3, LeaveKeepsInv
  <2>3. CASE /\ Return(w, Plain(fetch[w].file)) /\ fetch[w].at \in {"uploaded", "copy"} /\ UNCHANGED served
             /\ \/ iso' = iso
                \/ iso' = [iso EXCEPT ![Plain(fetch[w].file)] = fetch[w].got]
    <3> DEFINE r == [fetch[w] EXCEPT !.at = "ready", !.name = Plain(fetch[w].file)]
    <3>1. fetch[w].file \in Files /\ fetch[w].got \in Isos
      BY <2>3, <1>a DEF IsoInv, IsoTypeOK, Fetches, WithIso
    <3>2. r \in Fetches /\ r.at = "ready"  BY <1>a, <3>1, PlainType DEF Fetches, Returned
    <3>3. Leave(w, r) /\ fetch[w].at \in Locked  BY <2>3 DEF Return, Locked
    <3>4. iso' \in [Names -> Isos \cup {NoIso}]  BY <2>3, <1>a, <3>1
    <3>5. \A n \in Names : n # Plain(fetch[w].file) => iso'[n] = iso[n]  BY <2>3, <1>a
    <3> HIDE DEF r
    <3> QED  BY <2>3, <3>2, <3>3, <3>4, <3>5, LeaveKeepsInv
  <2> QED  BY <1>8, <2>1, <2>2, <2>3 DEF Await, Copy
<1>9. ASSUME NEW w \in Workers, Taken(w) PROVE IsoInv'
  <2>1. fetch[w].at \notin Locked /\ NoFetch.at \notin Locked
    BY <1>9, NoFetchType DEF Taken, Locked
  <2> QED  BY <1>9, <2>1, NoFetchType, MoveKeepsInv DEF Taken, WithIso
<1>10. CASE IsoCrash
  BY <1>10, <1>a, NoFetchType
     DEF IsoCrash, IsoInv, IsoTypeOK, SuffixedAbsent, HoldsLock, HeldInside, StillAbsent, Locked, WithIso
<1>11. ASSUME NEW u \in Urls, Republish(u) PROVE IsoInv'
  BY <1>11, <1>a DEF Republish, IsoInv, IsoTypeOK, SuffixedAbsent, HoldsLock, HeldInside, StillAbsent
<1>12. ASSUME NEW f \in Files, RemoveIso(f) PROVE IsoInv'
  <2>1. /\ iso' \in [Names -> Isos \cup {NoIso}]
        /\ \A n \in Names : iso'[n] \in {iso[n], NoIso}
    BY <1>12, <1>a DEF RemoveIso
  <2>2. \A w \in Workers : StillAbsent(w)'
    BY <1>12, <1>a, <2>1, PlainType DEF RemoveIso, IsoInv, StillAbsent, Fetches
  <2> QED  BY <1>12, <2>1, <2>2 DEF RemoveIso, IsoInv, IsoTypeOK, SuffixedAbsent, HoldsLock, HeldInside
<1>13. CASE UNCHANGED isoVars
  BY <1>13 DEF isoVars, IsoInv, IsoTypeOK, SuffixedAbsent, HoldsLock, HeldInside, StillAbsent
<1> QED  BY <1>1, <1>2, <1>3, <1>4, <1>5, <1>6, <1>7, <1>8, <1>9, <1>10, <1>11, <1>12, <1>13
         DEF IsoNext, FetchStep

\* The critical sections of the threads exclude each other per file name, and a
\* thread that is to upload a new file finds no file there (see IsoInv).
THEOREM IsoInvariant == IsoSpec => []IsoInv
<1> QED  BY InitInv, NextInv, PTL DEF IsoSpec

\* Only an upload or a copy writes a file, and the file was absent before.
LEMMA WritesAreNew ==
  ASSUME IsoInv, [IsoNext]_isoVars, NEW n \in Names, iso[n] \in Isos
  PROVE  iso'[n] \in {iso[n], NoIso}
<1>a. iso \in [Names -> Isos \cup {NoIso}]  BY DEF IsoInv, IsoTypeOK
<1>1. ASSUME NEW w \in Workers, fetch[w].at \in {"await", "copy"},
             iso' = [iso EXCEPT ![Plain(fetch[w].file)] = fetch[w].got]
      PROVE  iso'[n] = iso[n]
  <2>1. iso[Plain(fetch[w].file)] \in {NoIso, fetch[w].got}  BY <1>1 DEF IsoInv, StillAbsent
  <2> QED  BY <1>1, <1>a, <2>1, IsoAssumption
<1>2. ASSUME NEW w \in Workers, FetchStep(w) PROVE iso'[n] = iso[n]
  BY <1>1, <1>2 DEF FetchStep, LockFile, Look, Download, CompareIso, Upload, UploadRuns, Await, Copy
<1>3. ASSUME NEW f \in Files, RemoveIso(f) PROVE iso'[n] \in {iso[n], NoIso}
  BY <1>3, <1>a DEF RemoveIso
<1> QED  BY <1>2, <1>3 DEF IsoNext, Fetch, Taken, IsoCrash, Republish, isoVars

\* An ISO in the store is never overwritten: IsoNeverReplaced, for any number of
\* threads, URLs and ISOs, whatever fails and whenever the daemon is restarted.
THEOREM NeverReplaced == IsoSpec => IsoNeverReplaced
<1>1. IsoInv /\ [IsoNext]_isoVars
        => [\A n \in Names : iso[n] \in Isos => iso'[n] \in {iso[n], NoIso}]_isoVars
  BY WritesAreNew
<1> QED  BY <1>1, IsoInvariant, PTL DEF IsoSpec, IsoNeverReplaced

\* If files in the store can be read, a name is returned only for a file that holds
\* what was downloaded, or for no file.
LEMMA ReturnsOwn ==
  ASSUME "unreadable" \notin IsoFaults, IsoInv, IsoNext, NEW w \in Workers,
         fetch[w].at \notin Returned, fetch'[w].at = "ready"
  PROVE  iso'[fetch'[w].name] \in {fetch[w].got, NoIso}
<1>a. /\ iso \in [Names -> Isos \cup {NoIso}] /\ fetch \in [Workers -> Fetches]
      /\ fetch[w].file \in Files
      /\ fetch[w].got \in Isos \cup {NoIso}
      /\ \A x \in Workers : fetch[x].at \in WithIso => fetch[x].got \in Isos
  BY DEF IsoInv, IsoTypeOK, Fetches
<1>b. fetch'[w] # fetch[w]  BY DEF Returned
<1>c. \A x \in Workers : \A r : Go(x, r) => fetch'[w] = IF x = w THEN r ELSE fetch[w]
  BY <1>a DEF Go
<1>1. CASE CompareIso(w)
  <2> DEFINE plain == Plain(fetch[w].file)
             suffixed == Suffixed(fetch[w].file, fetch[w].got)
             name == IF iso[plain] \in {NoIso, fetch[w].got} THEN plain ELSE suffixed
             r == [fetch[w] EXCEPT !.at = "ready", !.name = name]
  <2>1. fetch[w].at = "compare" /\ UNCHANGED iso /\ Go(w, r)
    BY <1>1 DEF CompareIso, Return, Leave
  <2>2. r.name = name  BY <1>a DEF Fetches
  <2>3. fetch'[w].name = name  BY <1>c, <2>1, <2>2
  <2>4. suffixed \in Names /\ suffixed.suffix # NoIso
    BY <1>a, <2>1, IsoAssumption DEF Suffixed, Names, WithIso
  <2>5. iso[suffixed] = NoIso  BY <2>4 DEF IsoInv, SuffixedAbsent
  <2> QED  BY <2>1, <2>3, <2>5
<1>2. ASSUME Return(w, Plain(fetch[w].file)),
             \/ iso' = [iso EXCEPT ![Plain(fetch[w].file)] = fetch[w].got]
             \/ iso' = iso /\ fetch[w].at = "uploaded"
      PROVE  iso'[fetch'[w].name] \in {fetch[w].got, NoIso}
  <2> DEFINE r == [fetch[w] EXCEPT !.at = "ready", !.name = Plain(fetch[w].file)]
  <2>1. r.name = Plain(fetch[w].file)  BY <1>a DEF Fetches
  <2>2. fetch'[w] = r  BY <1>c, <1>2 DEF Return, Leave
  <2> HIDE DEF r
  <2>3. fetch'[w].name = Plain(fetch[w].file)  BY <2>1, <2>2
  <2>4. fetch[w].at = "uploaded" => iso[Plain(fetch[w].file)] \in {NoIso, fetch[w].got}
    BY DEF IsoInv, StillAbsent
  <2> QED  BY <1>2, <1>a, <2>3, <2>4, PlainType
<1>3. ASSUME NEW at \in {"lock", "look", "download", "download_again", "compare", "upload", "await",
                        "uploaded", "copy", "failed"},
             NEW r \in Fetches, Go(w, [r EXCEPT !.at = at])
      PROVE  FALSE
  <2>1. [r EXCEPT !.at = at].at = at  BY DEF Fetches
  <2> QED  BY <1>3, <1>c, <2>1
<1>4. ASSUME Raise(w) PROVE FALSE
  BY <1>3, <1>4, <1>a DEF Raise, Leave
<1>5. CASE FetchStep(w)
  <2>1. ~LockFile(w) /\ ~Look(w)  BY <1>3, <1>a DEF LockFile, Look
  <2>2. ~Download(w)
    <3> SUFFICES ASSUME Download(w), Go(w, [[fetch[w] EXCEPT !.got = served[fetch[w].url]] EXCEPT
                                              !.at = IF @ = "download" THEN "upload" ELSE "compare"])
                 PROVE  FALSE
      BY <1>4 DEF Download
    <3> DEFINE r == [fetch[w] EXCEPT !.got = served[fetch[w].url]]
    <3>1. r \in Fetches  BY <1>a DEF Download, IsoInv, IsoTypeOK, Fetches
    <3>2. [r EXCEPT !.at = IF @ = "download" THEN "upload" ELSE "compare"]
            \in {[r EXCEPT !.at = "upload"], [r EXCEPT !.at = "compare"]}
      OBVIOUS
    <3> HIDE DEF r
    <3> QED  BY <1>3, <3>1, <3>2 DEF r
  <2>3. ~Upload(w) /\ ~UploadRuns(w)  BY <1>3, <1>a DEF Upload, UploadRuns
  <2>4. Await(w) => iso'[fetch'[w].name] \in {fetch[w].got, NoIso}
    BY <1>2, <1>3, <1>a DEF Await
  <2>5. Copy(w) => iso'[fetch'[w].name] \in {fetch[w].got, NoIso}
    BY <1>2, <1>4 DEF Copy
  <2> QED  BY <1>1, <1>5, <2>1, <2>2, <2>3, <2>4, <2>5 DEF FetchStep
<1>6. ~Taken(w) /\ ~IsoCrash /\ \A u \in Urls : ~Fetch(w, u)
  BY <1>a, <1>c, NoFetchType DEF Taken, IsoCrash, Fetch, Returned
<1>7. ASSUME NEW x \in Workers, x # w, FetchStep(x) \/ Taken(x) \/ \E u \in Urls : Fetch(x, u)
      PROVE  fetch'[w] = fetch[w]
  BY <1>7, <1>c DEF FetchStep, LockFile, Look, Download, CompareIso, Upload, UploadRuns, Await, Copy,
     Taken, Fetch, Raise, Return, Leave
<1> QED  BY <1>b, <1>5, <1>6, <1>7 DEF IsoNext, Republish, RemoveIso

\* NeverAnotherIso, for any number of threads, URLs and ISOs, as long as the files
\* in the store can be read.
THEOREM NeverAnother ==
  ASSUME "unreadable" \notin IsoFaults
  PROVE  IsoSpec => NeverAnotherIso
<1>1. IsoInv /\ [IsoNext]_isoVars
        => [\A w \in Workers : fetch[w].at \notin Returned /\ fetch'[w].at = "ready"
              => iso'[fetch'[w].name] \in {fetch[w].got, NoIso}]_isoVars
  BY ReturnsOwn
<1> QED  BY <1>1, IsoInvariant, PTL DEF IsoSpec, NeverAnotherIso
===============================================================================
