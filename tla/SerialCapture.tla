----------------------------- MODULE SerialCapture -----------------------------
(***************************************************************************)
(* Capture of VMs' serial consoles: a collector thread for each port that  *)
(* was asked for connects to QEMU's socket, cuts what it reads into lines  *)
(* and keeps the last of them in a ring buffer, which SerialLog's entries  *)
(* are a snapshot of.  A VM that stops ends its connection and takes its   *)
(* socket away, or leaves the file behind with nobody to accept on it, and *)
(* brings it back when it starts again, perhaps before the collector sees  *)
(* that it was gone.                                                       *)
(*                                                                         *)
(* A step of a collector is one look at the socket's path, one connect,    *)
(* one recv or one line cut from what it has read: a request may take its  *)
(* snapshot between two lines. ensure_collector and stop_all run under one *)
(* lock, a step each.                                                      *)
(***************************************************************************)
EXTENDS Naturals, SequencesExt

CONSTANTS
  Ports,            \* the serial ports of VMs: pairs (vmid, port)
  Collectors,       \* collectors; bound: this many are ever started
  NoCollector,
  Letters, NewLine, \* what consoles write; NewLine is "\n" with the "\r" before it
  MAX_LINES,        \* REDFISH_SERIAL_MAX_LINES
  MAX_LINE_BYTES,   \* the length above which an unterminated line is flushed
  MAX_CHUNK,        \* the size of a recv
  MaxHeard          \* bound: how much is read in all

ASSUME SerialAssumption ==
  /\ NoCollector \notin Collectors /\ NewLine \notin Letters
  /\ MAX_LINES \in Nat \ {0} /\ MAX_LINE_BYTES \in Nat /\ MAX_CHUNK \in Nat \ {0}
  /\ MaxHeard \in Nat

VARIABLES
  socket,     \* socket[p]: whether the path exists, and QEMU accepts on it
  collectors, \* _collectors[p]
  collector,  \* collector[c]: a collector's port, place, stop flag, data and ring buffer;
              \* data is what it has read and not yet made an entry of, and peer is TRUE
              \* while it is connected to the QEMU that accepts on the socket now
  heard,      \* history: heard[c]: what c read
  began       \* history: began[c]: how much c had read when its last connection began

serialVars == <<socket, collectors, collector, heard, began>>

Characters == Letters \cup {NewLine}
Upto(n, S) == UNION {[1..k -> S] : k \in 0..n}
Chunks == Upto(MAX_CHUNK, Characters) \ {<<>>}

SocketStates == {"gone", "refuses", "accepts"}

Alive == {"look", "sleep", "connect", "recv", "ingest"}
Unborn == [port |-> {}, at |-> "unborn", stop |-> FALSE, peer |-> FALSE, data |-> <<>>, buffer |-> <<>>]

CollectorStates == [port : SUBSET Ports, at : Alive \cup {"unborn", "ended"}, stop : BOOLEAN,
                    peer : BOOLEAN, data : Seq(Characters), buffer : Seq(Seq(Letters))]

\* Nothing grows without end: not the ring, not a line that is never ended.
Bounded(c) ==
  /\ Len(collector[c].buffer) <= MAX_LINES
  /\ Len(collector[c].data) <= MAX_LINE_BYTES + MAX_CHUNK
  /\ collector[c].at # "ingest" =>
       collector[c].data \in Seq(Letters) /\ Len(collector[c].data) <= MAX_LINE_BYTES

SerialTypeOK ==
  /\ socket \in [Ports -> SocketStates]
  /\ collectors \in [Ports -> Collectors \cup {NoCollector}]
  /\ collector \in [Collectors -> CollectorStates]
  /\ heard \in [Collectors -> Seq(Characters)]
  /\ began \in [Collectors -> Nat]
  /\ \A c \in Collectors : Bounded(c)

SerialInit ==
  /\ socket \in [Ports -> SocketStates]
  /\ collectors = [p \in Ports |-> NoCollector]
  /\ collector = [c \in Collectors |-> Unborn]
  /\ heard = [c \in Collectors |-> <<>>]
  /\ began = [c \in Collectors |-> 0]

-----------------------------------------------------------------------------
(* _Collector._run. *)

Set(c, r) == collector' = [collector EXCEPT ![c] = r]
Moved(r, place) == [r EXCEPT !.at = place, !.peer = @ /\ place = "recv"]
Place(c, place) == Set(c, Moved(collector[c], place))
Present(c) == \A p \in collector[c].port : socket[p] # "gone"

\* The outer loop.
Look(c) ==
  /\ collector[c].at = "look"
  /\ Place(c, CASE collector[c].stop -> "ended"
                [] ~collector[c].stop /\ Present(c)  -> "connect"
                [] ~collector[c].stop /\ ~Present(c) -> "sleep")
  /\ UNCHANGED <<socket, collectors, heard, began>>

\* Two seconds pass.
Sleep(c) ==
  /\ collector[c].at = "sleep"
  /\ Place(c, "look")
  /\ UNCHANGED <<socket, collectors, heard, began>>

\* After a connect or a recv the inner loop ends if stop was set during it.
Continue(c) == IF collector[c].stop THEN "look" ELSE "recv"

\* A new connection; a socket that has gone meanwhile, or refuses, raises. What is left of
\* the last connection's last line is still in data.
Connect(c) ==
  /\ collector[c].at = "connect"
  /\ IF \A p \in collector[c].port : socket[p] = "accepts"
       THEN /\ Set(c, Moved([collector[c] EXCEPT !.peer = TRUE], Continue(c)))
            /\ began' = [began EXCEPT ![c] = Len(heard[c])]
       ELSE Place(c, "sleep") /\ UNCHANGED began
  /\ UNCHANGED <<socket, collectors, heard>>

Room == MaxHeard - MapThenSumSet(LAMBDA c : Len(heard[c]), Collectors)

\* What the VM writes, or wrote before it stopped, arrives, in chunks of any size.
Recv(c) ==
  /\ collector[c].at = "recv"
  /\ \E chunk \in LET room == Room IN {s \in Chunks : Len(s) <= room} :
       /\ Set(c, [collector[c] EXCEPT !.data = @ \o chunk, !.at = "ingest"])
       /\ heard' = [heard EXCEPT ![c] = @ \o chunk]
  /\ UNCHANGED <<socket, collectors, began>>

\* Mutant: a silent console is read for ever.
RecvNothing_IgnoresStop(c) ==
  /\ collector[c].at = "recv"
  /\ \/ collector[c].peer /\ Place(c, "recv")
     \/ ~collector[c].peer /\ (Place(c, "look") \/ Place(c, "sleep"))
  /\ UNCHANGED <<socket, collectors, heard, began>>

\* Mutant: an empty recv is taken for a quiet console.
RecvNothing_IgnoresEnd(c) ==
  /\ collector[c].at = "recv"
  /\ Place(c, Continue(c))
  /\ UNCHANGED <<socket, collectors, heard, began>>

\* recv times out; or the QEMU that had accepted has gone, and recv returns nothing or
\* raises, though another may accept by now.
RecvNothing(c) ==
  /\ collector[c].at = "recv"
  /\ \/ collector[c].peer /\ Place(c, Continue(c))
     \/ ~collector[c].peer /\ (Place(c, "look") \/ Place(c, "sleep"))
  /\ UNCHANGED <<socket, collectors, heard, began>>

-----------------------------------------------------------------------------
(* _ingest. *)

\* deque(maxlen=...).append
Ring(buffer, line) ==
  IF Len(buffer) = MAX_LINES THEN Append(Tail(buffer), line) ELSE Append(buffer, line)

Ends(s) == {i \in DOMAIN s : s[i] = NewLine}
FirstEnd(s) == CHOOSE i \in Ends(s) : \A j \in Ends(s) : i <= j
LineOf(s) == SubSeq(s, 1, FirstEnd(s) - 1)
RestOf(s) == SubSeq(s, FirstEnd(s) + 1, Len(s))

\* data.split(b"\n", 1): the first line becomes an entry, however long it is.
CutLine(c) ==
  /\ collector[c].at = "ingest"
  /\ LET data == collector[c].data IN
     /\ Ends(data) # {}
     /\ Set(c, [collector[c] EXCEPT !.buffer = Ring(@, LineOf(data)), !.data = RestOf(data)])
  /\ UNCHANGED <<socket, collectors, heard, began>>

\* Mutant: what follows the last new line is an entry at once.
EndChunk_EndsLine(c) ==
  /\ collector[c].at = "ingest"
  /\ LET data == collector[c].data IN
     /\ Ends(data) = {}
     /\ Set(c, IF Len(data) > 0
                 THEN Moved([collector[c] EXCEPT !.buffer = Ring(@, data), !.data = <<>>], Continue(c))
                 ELSE Moved(collector[c], Continue(c)))
  /\ UNCHANGED <<socket, collectors, heard, began>>

\* Mutant: an unterminated line may grow without end.
EndChunk_NoFlush(c) ==
  /\ collector[c].at = "ingest"
  /\ Ends(collector[c].data) = {}
  /\ Place(c, Continue(c))
  /\ UNCHANGED <<socket, collectors, heard, began>>

\* An unterminated line becomes an entry only if it is over-long at the end of the chunk.
EndChunk(c) ==
  /\ collector[c].at = "ingest"
  /\ LET data == collector[c].data IN
     /\ Ends(data) = {}
     /\ Set(c, IF Len(data) > MAX_LINE_BYTES
                 THEN Moved([collector[c] EXCEPT !.buffer = Ring(@, data), !.data = <<>>], Continue(c))
                 ELSE Moved(collector[c], Continue(c)))
  /\ UNCHANGED <<socket, collectors, heard, began>>

-----------------------------------------------------------------------------
(* ensure_collector, which get_lines calls for every GET of a port's entries    *)
(* before it takes a snapshot of the port's buffer; and stop_all, which the     *)
(* daemon itself never calls.                                                  *)

\* Mutant: a collector that waits for its VM counts as none.
Ensure_RestartsWaiting(p) ==
  /\ IF collectors[p] = NoCollector THEN TRUE ELSE collector[collectors[p]].at # "recv"
  /\ socket[p] # "gone"
  /\ \E c \in Collectors : /\ collector[c].at = "unborn"
                           /\ Set(c, [Unborn EXCEPT !.port = {p}, !.at = "look"])
                           /\ collectors' = [collectors EXCEPT ![p] = c]
  /\ UNCHANGED <<socket, heard, began>>

\* A collector is started if the port has none that lives and has a socket; else
\* nothing changes.
Ensure(p) ==
  /\ IF collectors[p] = NoCollector THEN TRUE ELSE collector[collectors[p]].at = "ended"
  /\ socket[p] # "gone"
  /\ \E c \in Collectors : /\ collector[c].at = "unborn"
                           /\ Set(c, [Unborn EXCEPT !.port = {p}, !.at = "look"])
                           /\ collectors' = [collectors EXCEPT ![p] = c]
  /\ UNCHANGED <<socket, heard, began>>

StopAll ==
  /\ \E p \in Ports : collectors[p] # NoCollector
  /\ collector' = [c \in Collectors |-> [collector[c] EXCEPT
                     !.stop = @ \/ \E p \in Ports : collectors[p] = c]]
  /\ collectors' = [p \in Ports |-> NoCollector]
  /\ UNCHANGED <<socket, heard, began>>

\* A VM starts or stops, which ends the connection it had accepted.
PowerChange(p) ==
  /\ \E state \in SocketStates \ {socket[p]} : socket' = [socket EXCEPT ![p] = state]
  /\ collector' = [c \in Collectors |-> [collector[c] EXCEPT !.peer = @ /\ p \notin collector[c].port]]
  /\ UNCHANGED <<collectors, heard, began>>

-----------------------------------------------------------------------------
Proceed(c) == \/ Look(c) \/ Sleep(c) \/ Connect(c) \/ RecvNothing(c)
              \/ CutLine(c) \/ EndChunk(c)
Collect(c) == Proceed(c) \/ Recv(c)

SerialNext == \/ \E c \in Collectors : Collect(c)
              \/ \E p \in Ports : Ensure(p) \/ PowerChange(p)
              \/ StopAll

SerialSpec == SerialInit /\ [][SerialNext]_serialVars

\* Collectors run, and a recv of a silent console ends by its timeout. Nothing is owed by
\* the guest.
SerialFairness == \A c \in Collectors : WF_serialVars(Proceed(c))

-----------------------------------------------------------------------------
(* Properties. *)

\* What stands for a line in the output: it with its end, or, over-long, without.
EntryOf(line, piece) ==
  \/ piece = Append(line, NewLine)
  \/ piece = line /\ Len(line) > MAX_LINE_BYTES

\* A line begins after the first k characters of output: the one before has ended, or
\* was over-long and flushed there.
Boundary(output, k) ==
  \/ k = 0
  \/ output[k] = NewLine
  \/ k > MAX_LINE_BYTES /\ \A j \in (k - MAX_LINE_BYTES)..k : output[j] # NewLine

\* The entries are output's lines between the cuts, and data is what follows the last.
Cuts(cut, output, buffer, data) ==
  /\ Boundary(output, cut[0])
  /\ Len(buffer) < MAX_LINES => cut[0] = 0
  /\ \A i \in 1..Len(buffer) : EntryOf(buffer[i], SubSeq(output, cut[i - 1] + 1, cut[i]))
  /\ data = SubSeq(output, cut[Len(buffer)] + 1, Len(output))

\* _ingest, "Split complete lines into the buffer; return the trailing partial bytes":
\* however the output of a VM is cut into chunks and connections, the buffer holds the
\* last lines heard, whole and in order; nothing is lost from between or behind them,
\* nothing read twice, and nothing dropped before the ring is full.
CapturedIsHeard ==
  \A c \in Collectors :
    \E cut \in [0..Len(collector[c].buffer) -> 0..Len(heard[c])] :
      Cuts(cut, heard[c], collector[c].buffer, collector[c].data)

\* "The QEMU serial socket accepts a single client": a port has one collector that goes
\* on, the one whose buffer is shown.
OneCollector ==
  \A c \in Collectors : \A p \in collector[c].port :
    collector[c].at \in Alive /\ ~collector[c].stop => collectors[p] = c

\* "connect/recv failure -> retry": a port that was asked for once is read again when its
\* VM is back, over a connection to the QEMU that runs now, without being asked for again.
CaptureResumes == \A p \in Ports :
  collectors[p] # NoCollector /\ socket[p] = "accepts" ~>
     \/ socket[p] # "accepts" \/ collectors[p] = NoCollector
     \/ collector[collectors[p]].at \in {"recv", "ingest"} /\ collector[collectors[p]].peer

\* stop_all: a collector that was told to stop ends, though its console is silent.
StoppedEnds == \A c \in Collectors : collector[c].stop ~> collector[c].at = "ended"

\* build_log_entries, "Each output line becomes an OEM LogEntry": no entry joins what
\* a VM wrote before it stopped to what it writes when it is started again.
EntriesOfOneConnection ==
  [][\A c \in Collectors : collector[c].at = "ingest" /\ collector'[c].data # collector[c].data =>
        LET start == Len(heard[c]) - Len(collector[c].data)
        IN  ~(start < began[c] /\ began[c] < start + Len(Last(collector'[c].buffer)))]_serialVars
=============================================================================
