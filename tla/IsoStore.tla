------------------------------- MODULE IsoStore -------------------------------
(***************************************************************************)
(* _ensure_iso_available: the ISO a client names by URL is made available  *)
(* in the Proxmox ISO storage before InsertMedia mounts it.  The store is  *)
(* shared by all requests, and a file is named by the last part of its URL *)
(* only: two URLs, or one URL whose content changes, meet in one file.     *)
(*                                                                         *)
(* Each step is one access to something others use too: the web server,    *)
(* the store, the per-file lock.  The storage is "local", as shipped: for  *)
(* another one the code looks, and copies, where PVE keeps no ISOs.        *)
(***************************************************************************)
CONSTANTS
  Workers, NoWorker,  \* request threads
  Urls, AllowedUrls,  \* URLs; those the SSRF guard and PROXMOX_ISO_STORAGE allow
  Files, FileOf,      \* file names; the one a URL ends in
  Isos, NoIso,        \* ISO contents
  IsoFaults           \* the failures that may happen

ASSUME IsoAssumption ==
  /\ NoWorker \notin Workers /\ NoIso \notin Isos
  /\ Files # {} /\ Urls # {}
  /\ AllowedUrls \subseteq Urls
  /\ FileOf \in [Urls -> Files]
  /\ IsoFaults \subseteq {"pve", "web", "copy", "unreadable"}

VARIABLES
  iso,       \* iso[n]: the content of the store's file of that name
  served,    \* served[u]: what the web server returns for a URL now
  fileLock,  \* fileLock[f]: the worker in the critical section for a file name
  fetch      \* fetch[w]: how far a worker's call of _ensure_iso_available is

isoVars == <<iso, served, fileLock, fetch>>

\* A store file is named by its URL's file name, alone or with the hash of its
\* content added.
Names == [file : Files, suffix : Isos \cup {NoIso}]
Plain(f) == [file |-> f, suffix |-> NoIso]
Suffixed(f, content) == [file |-> f, suffix |-> content]

Returned == {"idle", "ready", "failed"}
Locked == {"look", "download_again", "compare", "download", "upload", "await", "uploaded", "copy"}
WithIso == {"compare", "upload", "await", "uploaded", "copy"}

Fetches == [at : Returned \cup {"lock"} \cup Locked, file : Files, url : Urls,
            got : Isos \cup {NoIso}, name : Names]
NoFetch == CHOOSE r \in Fetches : r.at = "idle" /\ r.got = NoIso

IsoTypeOK ==
  /\ iso \in [Names -> Isos \cup {NoIso}]
  /\ served \in [Urls -> Isos]
  /\ fileLock \in [Files -> Workers \cup {NoWorker}]
  /\ fetch \in [Workers -> Fetches]
  /\ \A w \in Workers : fetch[w].at \in WithIso => fetch[w].got \in Isos

\* Any ISO may be in the store already, but no suffixed one.
SuffixedAbsent == \A n \in Names : n.suffix # NoIso => iso[n] = NoIso

IsoInit ==
  /\ iso \in [Names -> Isos \cup {NoIso}] /\ SuffixedAbsent
  /\ served \in [Urls -> Isos]
  /\ fileLock = [f \in Files |-> NoWorker]
  /\ fetch = [w \in Workers |-> NoFetch]

-----------------------------------------------------------------------------
Go(w, r) == fetch' = [fetch EXCEPT ![w] = r]

\* The call returns or raises; the with statement gives the lock back.
Leave(w, r) ==
  /\ Go(w, r)
  /\ fileLock' = [fileLock EXCEPT ![fetch[w].file] = NoWorker]

\* Mutant: an exception leaves the lock held (no with statement).
Raise_KeepsLock(w) ==
  /\ Go(w, [fetch[w] EXCEPT !.at = "failed"])
  /\ UNCHANGED fileLock

Raise(w) == Leave(w, [fetch[w] EXCEPT !.at = "failed"])
Return(w, name) == Leave(w, [fetch[w] EXCEPT !.at = "ready", !.name = name])

\* The URL is checked and the storage's directory is looked up.
Fetch(w, u) ==
  /\ fetch[w].at = "idle"
  /\ \E at \in {"lock", "failed"} :
       /\ at = "lock" => u \in AllowedUrls
       /\ at = "failed" => u \notin AllowedUrls \/ "pve" \in IsoFaults
       /\ Go(w, [NoFetch EXCEPT !.at = at, !.url = u, !.file = FileOf[u]])
  /\ UNCHANGED <<iso, served, fileLock>>

\* Mutant: threads do not wait for one another.
LockFile_Barging(w) ==
  /\ fetch[w].at = "lock"
  /\ fileLock' = [fileLock EXCEPT ![fetch[w].file] = w]
  /\ Go(w, [fetch[w] EXCEPT !.at = "look"])
  /\ UNCHANGED <<iso, served>>

\* get_file_lock: one lock per file name.
LockFile(w) ==
  /\ fetch[w].at = "lock"
  /\ fileLock[fetch[w].file] = NoWorker
  /\ fileLock' = [fileLock EXCEPT ![fetch[w].file] = w]
  /\ Go(w, [fetch[w] EXCEPT !.at = "look"])
  /\ UNCHANGED <<iso, served>>

Look(w) ==
  /\ fetch[w].at = "look"
  /\ Go(w, [fetch[w] EXCEPT !.at = IF iso[Plain(fetch[w].file)] = NoIso
                                     THEN "download" ELSE "download_again"])
  /\ UNCHANGED <<iso, served, fileLock>>

\* The ISO is downloaded to a temporary file; a file that was in the store is
\* compared with it next.
Download(w) ==
  /\ fetch[w].at \in {"download", "download_again"}
  /\ \/ /\ Go(w, [fetch[w] EXCEPT !.got = served[fetch[w].url],
                                  !.at = IF @ = "download" THEN "upload" ELSE "compare"])
        /\ UNCHANGED fileLock
     \/ "web" \in IsoFaults /\ Raise(w)
  /\ UNCHANGED <<iso, served>>

\* Mutant: a file of that name is taken for the one asked for.
CompareIso_SameName(w) ==
  /\ fetch[w].at = "compare"
  /\ Return(w, Plain(fetch[w].file))
  /\ UNCHANGED <<iso, served>>

\* Mutant: an ISO that differs is uploaded under the same name.
CompareIso_Overwrites(w) ==
  /\ fetch[w].at = "compare"
  /\ IF iso[Plain(fetch[w].file)] = fetch[w].got
       THEN Return(w, Plain(fetch[w].file))
       ELSE Go(w, [fetch[w] EXCEPT !.at = "upload"]) /\ UNCHANGED fileLock
  /\ UNCHANGED <<iso, served>>

\* If the store's file is another ISO a new name is returned, and if it cannot
\* be read the old one is: in neither case is anything uploaded.
CompareIso(w) ==
  /\ fetch[w].at = "compare"
  /\ LET file == fetch[w].file
         stored == iso[Plain(file)]
     IN \/ Return(w, IF stored \in {NoIso, fetch[w].got}
                       THEN Plain(file) ELSE Suffixed(file, fetch[w].got))
        \/ "unreadable" \in IsoFaults /\ Return(w, Plain(file))
  /\ UNCHANGED <<iso, served>>

\* The ISO is posted to PVE, which copies it into the store with a task ...
Upload(w) ==
  /\ fetch[w].at = "upload"
  /\ \E at \in {"await", "copy"} :
       /\ at = "copy" => "pve" \in IsoFaults
       /\ Go(w, [fetch[w] EXCEPT !.at = at])
  /\ UNCHANGED <<iso, served, fileLock>>

UploadRuns(w) ==
  /\ fetch[w].at = "await"
  /\ iso' = [iso EXCEPT ![Plain(fetch[w].file)] = fetch[w].got]
  /\ Go(w, [fetch[w] EXCEPT !.at = "uploaded"])
  /\ UNCHANGED <<served, fileLock>>

\* ... whose end is polled for: it succeeded, or it failed, or a poll did, before or
\* after it ended. (What a task does after a poll has failed,
\* or the daemon has died, is left out.)
Await(w) ==
  /\ \/ fetch[w].at = "uploaded" /\ Return(w, Plain(fetch[w].file))
     \/ /\ fetch[w].at \in {"await", "uploaded"} /\ "pve" \in IsoFaults
        /\ Go(w, [fetch[w] EXCEPT !.at = "copy"])
        /\ UNCHANGED fileLock
  /\ UNCHANGED <<iso, served>>

\* ... or else a copy beside the target that is renamed onto it.
Copy(w) ==
  /\ fetch[w].at = "copy"
  /\ \/ /\ iso' = [iso EXCEPT ![Plain(fetch[w].file)] = fetch[w].got]
        /\ Return(w, Plain(fetch[w].file))
     \/ "copy" \in IsoFaults /\ Raise(w) /\ UNCHANGED iso
  /\ UNCHANGED served

\* The caller takes the name, or the exception.
Taken(w) ==
  /\ fetch[w].at \in {"ready", "failed"}
  /\ Go(w, NoFetch)
  /\ UNCHANGED <<iso, served, fileLock>>

FetchStep(w) == LockFile(w) \/ Look(w) \/ Download(w) \/ CompareIso(w) \/ Upload(w) \/ UploadRuns(w)
                  \/ Await(w) \/ Copy(w)

\* The daemon dies: its threads and locks go, the store stays.
IsoCrash ==
  /\ fileLock' = [f \in Files |-> NoWorker]
  /\ fetch' = [w \in Workers |-> NoFetch]
  /\ UNCHANGED <<iso, served>>

\* The web server publishes another ISO under a URL (a regenerated one).
Republish(u) ==
  /\ \E content \in Isos : served' = [served EXCEPT ![u] = content]
  /\ UNCHANGED <<iso, fileLock, fetch>>

\* An operator deletes an ISO from the store.
RemoveIso(f) ==
  /\ iso' = [iso EXCEPT ![Plain(f)] = NoIso]
  /\ UNCHANGED <<served, fileLock, fetch>>

IsoNext == \/ \E w \in Workers : FetchStep(w) \/ Taken(w) \/ (\E u \in Urls : Fetch(w, u))
           \/ IsoCrash
           \/ \E u \in Urls : Republish(u)
           \/ \E f \in Files : RemoveIso(f)

IsoSpec == IsoInit /\ [][IsoNext]_isoVars

-----------------------------------------------------------------------------
(* Properties. *)

\* _ensure_iso_available's "hash-based conflict handling and thread-safe
\* concurrent access": an ISO that is in the store, and that a VM may have
\* mounted, is never overwritten with another one.
IsoNeverReplaced ==
  [][\A n \in Names : iso[n] \in Isos => iso'[n] \in {iso[n], NoIso}]_isoVars

\* A name is returned only for a file that holds what was downloaded, or for no
\* file at all: never for somebody else's ISO. (Not if the stored file cannot be
\* read: the daemon then returns its name unseen.)
NeverAnotherIso ==
  [][\A w \in Workers : fetch[w].at \notin Returned /\ fetch'[w].at = "ready"
        => iso'[fetch'[w].name] \in {fetch[w].got, NoIso}]_isoVars

\* The log line "will upload with hash suffix": a name is returned only for a
\* file that is in the store.
ReturnedIsoExists ==
  [][\A w \in Workers : fetch[w].at \notin Returned /\ fetch'[w].at = "ready"
        => iso'[fetch'[w].name] \in Isos]_isoVars

\* A thread in the critical section for a file name holds its lock, a lock that is
\* held is held from within, and a thread that is to write a new file finds none
\* there, or the one it uploaded.
HoldsLock(w) == fetch[w].at \in Locked => fileLock[fetch[w].file] = w
HeldInside(f) == fileLock[f] # NoWorker =>
                   fetch[fileLock[f]].at \in Locked /\ fetch[fileLock[f]].file = f
StillAbsent(w) ==
  LET stored == iso[Plain(fetch[w].file)]
  IN /\ fetch[w].at \in {"download", "upload", "await"} => stored = NoIso
     /\ fetch[w].at \in {"uploaded", "copy"} => stored \in {NoIso, fetch[w].got}

\* The per-file lock does what it is for: together these keep an ISO from being
\* overwritten by the download of another thread. (And nothing writes the suffixed
\* names the daemon hands out.)
IsoInv ==
  /\ IsoTypeOK /\ SuffixedAbsent
  /\ \A w \in Workers : HoldsLock(w) /\ StillAbsent(w)
  /\ \A f \in Files : HeldInside(f)
=============================================================================
