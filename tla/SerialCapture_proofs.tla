------------------------- MODULE SerialCapture_proofs -------------------------
(***************************************************************************)
(* Serial capture: the bounds of what a collector keeps, that a port has   *)
(* one collector, and that what it keeps is what it heard.  For any        *)
(* number of ports and collectors, any output and any chunks.              *)
(***************************************************************************)
EXTENDS SerialCapture, SequenceTheorems, WellFoundedInduction, TLAPS

-----------------------------------------------------------------------------
(* Cutting a sequence at its first end of a line.                            *)

\* A set of natural numbers that is not empty has a least member.
LEMMA LeastNat ==
  ASSUME NEW T \in SUBSET Nat, T # {}
  PROVE  \E m \in T : \A k \in T : m <= k
<1>1. PICK m \in T : \A k \in T : <<k, m>> \notin OpToRel(<, Nat)
  BY WFMin, NatLessThanWellFounded, Zenon
<1>2. \A k \in T : ~(k < m)
  BY <1>1, Zenon DEF OpToRel
<1> QED  BY <1>2

\* If there is an end of a line, FirstEnd is one and none comes before it.
LEMMA FirstEndIsFirst ==
  ASSUME NEW s \in Seq(Characters), Ends(s) # {}
  PROVE  /\ FirstEnd(s) \in 1..Len(s) /\ s[FirstEnd(s)] = NewLine
         /\ \A j \in 1..(FirstEnd(s) - 1) : s[j] \in Letters
<1>1. Ends(s) \in SUBSET Nat /\ Ends(s) \subseteq 1..Len(s)
  BY DEF Ends
<1>2. \E i \in Ends(s) : \A j \in Ends(s) : i <= j
  BY <1>1, LeastNat
<1>3. FirstEnd(s) \in Ends(s) /\ \A j \in Ends(s) : FirstEnd(s) <= j
  BY <1>2 DEF FirstEnd
<1>4. ASSUME NEW j \in 1..(FirstEnd(s) - 1) PROVE s[j] \in Letters
  <2>1. j \in 1..Len(s) /\ ~(FirstEnd(s) <= j)
    BY <1>1, <1>3
  <2>2. j \notin Ends(s)
    BY <1>3, <2>1
  <2> QED  BY <2>1, <2>2 DEF Ends, Characters
<1> QED  BY <1>1, <1>3, <1>4 DEF Ends

\* The line is one of letters, the rest is shorter.
LEMMA LineAndRest ==
  ASSUME NEW s \in Seq(Characters), Ends(s) # {}
  PROVE  /\ LineOf(s) \in Seq(Letters) /\ Len(LineOf(s)) = FirstEnd(s) - 1
         /\ RestOf(s) \in Seq(Characters) /\ Len(RestOf(s)) = Len(s) - FirstEnd(s)
         /\ \A j \in 1..(FirstEnd(s) - 1) : LineOf(s)[j] = s[j]
         /\ \A j \in 1..(Len(s) - FirstEnd(s)) : RestOf(s)[j] = s[FirstEnd(s) + j]
<1>1. /\ FirstEnd(s) \in 1..Len(s)
      /\ \A j \in 1..(FirstEnd(s) - 1) : s[j] \in Letters
  BY FirstEndIsFirst
<1>2. Len(s) \in Nat
  BY LenProperties
<1>3. /\ LineOf(s) \in Seq(Characters) /\ Len(LineOf(s)) = FirstEnd(s) - 1
      /\ \A j \in 1..(FirstEnd(s) - 1) : LineOf(s)[j] = s[j]
  BY <1>1, <1>2, SubSeqProperties DEF LineOf
<1>4. LineOf(s) \in Seq(Letters)
  BY <1>1, <1>3
<1>5. /\ RestOf(s) \in Seq(Characters) /\ Len(RestOf(s)) = Len(s) - FirstEnd(s)
      /\ \A j \in 1..(Len(s) - FirstEnd(s)) : RestOf(s)[j] = s[FirstEnd(s) + j]
  BY <1>1, <1>2, SubSeqProperties DEF RestOf
<1> QED  BY <1>3, <1>4, <1>5

\* Without an end of a line there are letters only.
LEMMA NoEnds ==
  ASSUME NEW s \in Seq(Characters), Ends(s) = {}
  PROVE  s \in Seq(Letters)
<1>1. \A i \in 1..Len(s) : s[i] \in Letters
  BY DEF Ends, Characters
<1> QED  BY <1>1, LenProperties

\* A chunk is a sequence of at most MAX_CHUNK characters.
LEMMA ChunksAreShort ==
  ASSUME NEW chunk \in Chunks
  PROVE  chunk \in Seq(Characters) /\ Len(chunk) \in 1..MAX_CHUNK
<1>1. PICK k \in 0..MAX_CHUNK : chunk \in [1..k -> Characters]
  BY DEF Chunks, Upto
<1>2. chunk \in Seq(Characters) /\ Len(chunk) = k
  BY <1>1, SerialAssumption
<1>3. chunk # <<>>
  BY DEF Chunks
<1> QED  BY <1>2, <1>3, SerialAssumption

\* The ring takes a line and stays within its bound: its first is dropped if it is full.
LEMMA RingProperties ==
  ASSUME NEW buffer \in Seq(Seq(Letters)), Len(buffer) <= MAX_LINES, NEW line \in Seq(Letters)
  PROVE  /\ Ring(buffer, line) \in Seq(Seq(Letters))
         /\ Len(buffer) < MAX_LINES =>
              /\ Len(Ring(buffer, line)) = Len(buffer) + 1
              /\ Ring(buffer, line)[Len(buffer) + 1] = line
              /\ \A i \in 1..Len(buffer) : Ring(buffer, line)[i] = buffer[i]
         /\ Len(buffer) = MAX_LINES =>
              /\ Len(Ring(buffer, line)) = MAX_LINES
              /\ Ring(buffer, line)[MAX_LINES] = line
              /\ \A i \in 1..(MAX_LINES - 1) : Ring(buffer, line)[i] = buffer[i + 1]
<1> DEFINE n == Len(buffer)
<1>1. n \in Nat /\ MAX_LINES \in Nat \ {0}
  BY SerialAssumption, LenProperties
<1>2. CASE n < MAX_LINES
  <2>1. Ring(buffer, line) = Append(buffer, line)
    BY <1>1, <1>2 DEF Ring
  <2> QED  BY <1>1, <1>2, <2>1, AppendProperties
<1>3. CASE n = MAX_LINES
  <2>1. Ring(buffer, line) = Append(Tail(buffer), line)
    BY <1>3 DEF Ring
  <2>2. buffer # <<>>
    BY <1>1, <1>3
  <2>3. /\ Tail(buffer) \in Seq(Seq(Letters)) /\ Len(Tail(buffer)) = n - 1
        /\ \A i \in 1..(n - 1) : Tail(buffer)[i] = buffer[i + 1]
    BY <1>1, <2>2, HeadTailProperties
  <2> QED  BY <1>1, <1>3, <2>1, <2>3, AppendProperties
<1> QED  BY <1>1, <1>2, <1>3

-----------------------------------------------------------------------------
(* Types and bounds.                                                         *)

\* A move to another place changes nothing else but the connection.
LEMMA AtKeeps ==
  ASSUME NEW r \in CollectorStates, NEW place \in Alive \cup {"ended"}
  PROVE  /\ Moved(r, place) \in CollectorStates /\ Moved(r, place).at = place
         /\ Moved(r, place).port = r.port /\ Moved(r, place).stop = r.stop
         /\ Moved(r, place).data = r.data /\ Moved(r, place).buffer = r.buffer
BY DEF Moved, CollectorStates

\* The moves of a collector, with or without a new connection.
Moves(c, place) == Place(c, place) \/ Set(c, Moved([collector[c] EXCEPT !.peer = TRUE], place))

LEMMA MoveKeeps ==
  ASSUME SerialTypeOK, NEW c \in Collectors, NEW place \in Alive \cup {"ended"}, Moves(c, place)
  PROVE  /\ collector' \in [Collectors -> CollectorStates]
         /\ \A d \in Collectors \ {c} : collector'[d] = collector[d]
         /\ collector'[c].at = place
         /\ collector'[c].port = collector[c].port /\ collector'[c].stop = collector[c].stop
         /\ collector'[c].data = collector[c].data /\ collector'[c].buffer = collector[c].buffer
<1>1. collector \in [Collectors -> CollectorStates] /\ collector[c] \in CollectorStates
  BY DEF SerialTypeOK
<1>2. PICK r \in CollectorStates :
        /\ r.port = collector[c].port /\ r.stop = collector[c].stop
        /\ r.data = collector[c].data /\ r.buffer = collector[c].buffer
        /\ collector' = [collector EXCEPT ![c] = Moved(r, place)]
  <2>1. CASE Place(c, place)
    BY <1>1, <2>1 DEF Place, Set
  <2>2. CASE Set(c, Moved([collector[c] EXCEPT !.peer = TRUE], place))
    <3> DEFINE r == [collector[c] EXCEPT !.peer = TRUE]
    <3>1. /\ r \in CollectorStates /\ r.port = collector[c].port /\ r.stop = collector[c].stop
          /\ r.data = collector[c].data /\ r.buffer = collector[c].buffer
      BY <1>1 DEF CollectorStates
    <3>2. collector' = [collector EXCEPT ![c] = Moved(r, place)]
      BY <2>2 DEF Set
    <3> HIDE DEF r
    <3> QED  BY <3>1, <3>2
  <2> QED  BY <2>1, <2>2 DEF Moves
<1>3. Moved(r, place) \in CollectorStates /\ collector'[c] = Moved(r, place)
  BY <1>1, <1>2, AtKeeps
<1> QED  BY <1>1, <1>2, <1>3, AtKeeps

\* A power change ends connections and moves no collector.
LEMMA PowerKeeps ==
  ASSUME SerialTypeOK, NEW p \in Ports, PowerChange(p)
  PROVE  /\ socket' \in [Ports -> SocketStates]
         /\ \A d \in Collectors :
              /\ collector'[d] \in CollectorStates
              /\ collector'[d].at = collector[d].at
              /\ collector'[d].port = collector[d].port /\ collector'[d].stop = collector[d].stop
              /\ collector'[d].data = collector[d].data /\ collector'[d].buffer = collector[d].buffer
<1>1. socket' \in [Ports -> SocketStates]
  BY DEF PowerChange, SerialTypeOK
<1>2. ASSUME NEW d \in Collectors
      PROVE  /\ collector'[d] \in CollectorStates
             /\ collector'[d].at = collector[d].at
             /\ collector'[d].port = collector[d].port /\ collector'[d].stop = collector[d].stop
             /\ collector'[d].data = collector[d].data /\ collector'[d].buffer = collector[d].buffer
  <2> DEFINE peer == collector[d].peer /\ p \notin collector[d].port
  <2>1. collector'[d] = [collector[d] EXCEPT !.peer = peer]
    BY DEF PowerChange
  <2>2. collector[d] \in CollectorStates /\ peer \in BOOLEAN
    BY DEF SerialTypeOK
  <2> HIDE DEF peer
  <2> QED  BY <2>1, <2>2 DEF CollectorStates
<1> QED  BY <1>1, <1>2

\* A collector that only moves to another place keeps its bounds, unless it leaves
\* _ingest.
LEMMA PlaceTypes ==
  ASSUME SerialTypeOK, NEW c \in Collectors, NEW place \in (Alive \ {"ingest"}) \cup {"ended"},
         collector[c].at # "ingest", Moves(c, place), UNCHANGED <<socket, collectors, heard>>,
         began' \in [Collectors -> Nat]
  PROVE  SerialTypeOK'
<1>1. /\ collector' \in [Collectors -> CollectorStates]
      /\ \A d \in Collectors \ {c} : collector'[d] = collector[d]
      /\ collector'[c].data = collector[c].data /\ collector'[c].buffer = collector[c].buffer
  BY MoveKeeps
<1>2. ASSUME NEW d \in Collectors PROVE Bounded(d)'
  BY <1>1 DEF SerialTypeOK, Bounded, Alive
<1> QED  BY <1>1, <1>2 DEF SerialTypeOK

\* A line more in the ring.
LEMMA RingBounds ==
  ASSUME NEW buffer \in Seq(Seq(Letters)), Len(buffer) <= MAX_LINES, NEW line \in Seq(Letters)
  PROVE  Ring(buffer, line) \in Seq(Seq(Letters)) /\ Len(Ring(buffer, line)) <= MAX_LINES
<1>1. Len(buffer) \in Nat /\ MAX_LINES \in Nat \ {0}
  BY SerialAssumption, LenProperties
<1>2. CASE Len(buffer) < MAX_LINES
  BY <1>1, <1>2, RingProperties
<1>3. CASE Len(buffer) = MAX_LINES
  BY <1>1, <1>3, RingProperties
<1> QED  BY <1>1, <1>2, <1>3

\* Every step keeps the types and the bounds.
LEMMA StepKeepsTypes == SerialTypeOK /\ [SerialNext]_serialVars => SerialTypeOK'
<1> SUFFICES ASSUME SerialTypeOK, [SerialNext]_serialVars PROVE SerialTypeOK'
  OBVIOUS
<1> USE SerialAssumption
<1>1. ASSUME NEW c \in Collectors, Look(c) PROVE SerialTypeOK'
  BY <1>1, PlaceTypes DEF Look, Moves, SerialTypeOK, Alive
<1>2. ASSUME NEW c \in Collectors, Sleep(c) PROVE SerialTypeOK'
  BY <1>2, PlaceTypes DEF Sleep, Moves, SerialTypeOK, Alive
<1>3. ASSUME NEW c \in Collectors, Connect(c) PROVE SerialTypeOK'
  <2>1. began' \in [Collectors -> Nat]
    <3>1. Len(heard[c]) \in Nat
      BY LenProperties DEF SerialTypeOK
    <3> QED  BY <1>3, <3>1 DEF Connect, SerialTypeOK
  <2> QED  BY <1>3, <2>1, PlaceTypes DEF Connect, Continue, Moves, Alive
<1>4. ASSUME NEW c \in Collectors, RecvNothing(c) PROVE SerialTypeOK'
  BY <1>4, PlaceTypes DEF RecvNothing, Continue, Moves, SerialTypeOK, Alive
<1>5. ASSUME NEW c \in Collectors, Recv(c) PROVE SerialTypeOK'
  <2>1. PICK chunk \in Chunks :
          /\ collector' = [collector EXCEPT ![c] = [collector[c] EXCEPT !.data = @ \o chunk, !.at = "ingest"]]
          /\ heard' = [heard EXCEPT ![c] = @ \o chunk]
    BY <1>5 DEF Recv, Set
  <2>2. chunk \in Seq(Characters) /\ Len(chunk) \in 1..MAX_CHUNK
    BY ChunksAreShort
  <2>3. /\ collector[c].data \in Seq(Characters) /\ Len(collector[c].data) <= MAX_LINE_BYTES
        /\ heard[c] \in Seq(Characters)
    BY <1>5 DEF Recv, SerialTypeOK, Bounded, CollectorStates
  <2>4. /\ collector[c].data \o chunk \in Seq(Characters) /\ heard[c] \o chunk \in Seq(Characters)
        /\ Len(collector[c].data \o chunk) <= MAX_LINE_BYTES + MAX_CHUNK
    BY <2>2, <2>3, ConcatProperties, LenProperties
  <2>5. collector' \in [Collectors -> CollectorStates] /\ heard' \in [Collectors -> Seq(Characters)]
    BY <2>1, <2>4 DEF SerialTypeOK, CollectorStates, Alive
  <2>6. ASSUME NEW d \in Collectors PROVE Bounded(d)'
    BY <2>1, <2>4 DEF SerialTypeOK, Bounded, CollectorStates
  <2> QED  BY <1>5, <2>5, <2>6 DEF Recv, SerialTypeOK
<1>6. ASSUME NEW c \in Collectors, CutLine(c) PROVE SerialTypeOK'
  <2> DEFINE data == collector[c].data
             buffer == collector[c].buffer
  <2>1. /\ data \in Seq(Characters) /\ Len(data) <= MAX_LINE_BYTES + MAX_CHUNK
        /\ buffer \in Seq(Seq(Letters)) /\ Len(buffer) <= MAX_LINES
    BY DEF SerialTypeOK, Bounded, CollectorStates
  <2>2. Ends(data) # {}
    BY <1>6 DEF CutLine
  <2>3. /\ LineOf(data) \in Seq(Letters) /\ RestOf(data) \in Seq(Characters)
        /\ Len(RestOf(data)) <= Len(data)
    BY <2>1, <2>2, LineAndRest, FirstEndIsFirst, LenProperties
  <2>4. Len(RestOf(data)) <= MAX_LINE_BYTES + MAX_CHUNK
    BY <2>1, <2>3, LenProperties
  <2>5. Ring(buffer, LineOf(data)) \in Seq(Seq(Letters)) /\ Len(Ring(buffer, LineOf(data))) <= MAX_LINES
    BY <2>1, <2>3, RingBounds
  <2>6. collector' = [collector EXCEPT ![c] = [collector[c] EXCEPT !.buffer = Ring(buffer, LineOf(data)), !.data = RestOf(data)]]
    BY <1>6 DEF CutLine, Set
  <2>7. collector[c].at = "ingest"
    BY <1>6 DEF CutLine
  <2> HIDE DEF data, buffer
  <2>8. collector' \in [Collectors -> CollectorStates]
    BY <2>3, <2>5, <2>6 DEF SerialTypeOK, CollectorStates
  <2>9. ASSUME NEW d \in Collectors PROVE Bounded(d)'
    BY <2>4, <2>5, <2>6, <2>7 DEF SerialTypeOK, Bounded, CollectorStates
  <2> QED  BY <1>6, <2>8, <2>9 DEF CutLine, SerialTypeOK
<1>7. ASSUME NEW c \in Collectors, EndChunk(c) PROVE SerialTypeOK'
  <2> DEFINE data == collector[c].data
             buffer == collector[c].buffer
  <2>1. /\ data \in Seq(Characters) /\ Ends(data) = {}
        /\ buffer \in Seq(Seq(Letters)) /\ Len(buffer) <= MAX_LINES
    BY <1>7 DEF SerialTypeOK, Bounded, CollectorStates, EndChunk
  <2>2. data \in Seq(Letters) /\ Len(data) \in Nat
    BY <2>1, NoEnds, LenProperties
  <2>3. Ring(buffer, data) \in Seq(Seq(Letters)) /\ Len(Ring(buffer, data)) <= MAX_LINES
    BY <2>1, <2>2, RingBounds
  <2>4. <<>> \in Seq(Letters) /\ <<>> \in Seq(Characters) /\ Len(<<>>) = 0
    BY EmptySeq
  <2>5. collector' = [collector EXCEPT ![c] =
           IF Len(data) > MAX_LINE_BYTES
             THEN Moved([collector[c] EXCEPT !.buffer = Ring(buffer, data), !.data = <<>>], Continue(c))
             ELSE Moved(collector[c], Continue(c))]
    BY <1>7 DEF EndChunk, Set
  <2>6. Continue(c) \in {"look", "recv"}
    BY DEF Continue
  <2>7. collector[c].data = data /\ collector[c].buffer = buffer
    OBVIOUS
  <2> HIDE DEF data, buffer
  <2>8. PICK r \in CollectorStates :
          /\ collector' = [collector EXCEPT ![c] = Moved(r, Continue(c))]
          /\ r.buffer = IF Len(data) > MAX_LINE_BYTES THEN Ring(buffer, data) ELSE buffer
          /\ r.data = IF Len(data) > MAX_LINE_BYTES THEN <<>> ELSE data
    <3> DEFINE f == [collector[c] EXCEPT !.buffer = Ring(buffer, data), !.data = <<>>]
    <3>1. collector[c] \in CollectorStates
      BY DEF SerialTypeOK
    <3>2. f \in CollectorStates /\ f.buffer = Ring(buffer, data) /\ f.data = <<>>
      BY <2>3, <2>4, <3>1 DEF CollectorStates
    <3>3. collector' = [collector EXCEPT ![c] = IF Len(data) > MAX_LINE_BYTES THEN Moved(f, Continue(c))
                                                                  ELSE Moved(collector[c], Continue(c))]
      BY <2>5
    <3> HIDE DEF f
    <3> QED  BY <2>7, <3>1, <3>2, <3>3
  <2>9. /\ Moved(r, Continue(c)) \in CollectorStates /\ Moved(r, Continue(c)).at = Continue(c)
        /\ Moved(r, Continue(c)).data = r.data /\ Moved(r, Continue(c)).buffer = r.buffer
    BY <2>6, <2>8, AtKeeps DEF Alive
  <2>10. collector' \in [Collectors -> CollectorStates]
    BY <2>8, <2>9 DEF SerialTypeOK
  <2>11. ASSUME NEW d \in Collectors PROVE Bounded(d)'
    <3>1. CASE d # c
      BY <2>8, <3>1 DEF SerialTypeOK, Bounded
    <3>2. CASE d = c
      <4>1. collector'[c].data = r.data /\ collector'[c].buffer = r.buffer
        BY <2>8, <2>9 DEF SerialTypeOK
      <4>2. /\ r.data \in Seq(Letters) /\ Len(r.data) <= MAX_LINE_BYTES
            /\ Len(r.buffer) <= MAX_LINES
        BY <2>1, <2>2, <2>3, <2>4, <2>8
      <4>3. Len(r.data) <= MAX_LINE_BYTES + MAX_CHUNK
        BY <4>2, LenProperties
      <4> QED  BY <3>2, <4>1, <4>2, <4>3 DEF Bounded
    <3> QED  BY <3>1, <3>2
  <2> QED  BY <1>7, <2>10, <2>11 DEF EndChunk, SerialTypeOK
<1>8. ASSUME NEW p \in Ports, Ensure(p) PROVE SerialTypeOK'
  <2>1. PICK c \in Collectors :
          /\ collector' = [collector EXCEPT ![c] = [Unborn EXCEPT !.port = {p}, !.at = "look"]]
          /\ collectors' = [collectors EXCEPT ![p] = c]
    BY <1>8 DEF Ensure, Set
  <2>2. /\ <<>> \in Seq(Letters) /\ <<>> \in Seq(Characters) /\ Len(<<>>) = 0
        /\ <<>> \in Seq(Seq(Letters))
    BY EmptySeq
  <2>3. collector' \in [Collectors -> CollectorStates]
    BY <2>1, <2>2 DEF SerialTypeOK, CollectorStates, Unborn, Alive
  <2>4. ASSUME NEW d \in Collectors PROVE Bounded(d)'
    <3>1. CASE d # c
      BY <2>1, <3>1 DEF SerialTypeOK, Bounded
    <3>2. CASE d = c
      BY <2>1, <2>2, <3>2 DEF SerialTypeOK, Bounded, Unborn
    <3> QED  BY <3>1, <3>2
  <2> QED  BY <1>8, <2>1, <2>3, <2>4 DEF Ensure, SerialTypeOK
<1>9. CASE StopAll
  <2>1. ASSUME NEW d \in Collectors PROVE collector'[d] \in CollectorStates /\ Bounded(d)'
    <3> DEFINE stop == collector[d].stop \/ \E p \in Ports : collectors[p] = d
    <3>1. collector'[d] = [collector[d] EXCEPT !.stop = stop]
      BY <1>9 DEF StopAll
    <3>2. collector[d] \in CollectorStates /\ Bounded(d) /\ stop \in BOOLEAN
      BY DEF SerialTypeOK
    <3> HIDE DEF stop
    <3>3. /\ collector'[d] \in CollectorStates /\ collector'[d].at = collector[d].at
          /\ collector'[d].data = collector[d].data /\ collector'[d].buffer = collector[d].buffer
      BY <3>1, <3>2 DEF CollectorStates
    <3> QED  BY <3>2, <3>3 DEF Bounded
  <2>2. collector' = [d \in Collectors |-> collector'[d]]
    BY <1>9 DEF StopAll
  <2>3. collector' \in [Collectors -> CollectorStates]
    BY <2>1, <2>2
  <2>4. collectors' \in [Ports -> Collectors \cup {NoCollector}]
    BY <1>9 DEF StopAll
  <2> QED  BY <1>9, <2>1, <2>3, <2>4 DEF StopAll, SerialTypeOK
<1>10. ASSUME NEW p \in Ports, PowerChange(p) PROVE SerialTypeOK'
  <2>1. \A d \in Collectors : Bounded(d)'
    BY <1>10, PowerKeeps DEF SerialTypeOK, Bounded
  <2>2. collector' \in [Collectors -> CollectorStates]
    <3>1. collector' = [d \in Collectors |-> collector'[d]]
      BY <1>10 DEF PowerChange
    <3> QED  BY <1>10, <3>1, PowerKeeps
  <2> QED  BY <1>10, <2>1, <2>2, PowerKeeps DEF PowerChange, SerialTypeOK
<1>11. CASE UNCHANGED serialVars
  BY <1>11 DEF serialVars, SerialTypeOK, Bounded
<1> QED
  BY <1>1, <1>2, <1>3, <1>4, <1>5, <1>6, <1>7, <1>8, <1>9, <1>10, <1>11 DEF SerialNext, Collect, Proceed

\* They hold at first.
LEMMA InitTypes == SerialInit => SerialTypeOK
<1>1. /\ <<>> \in Seq(Letters) /\ <<>> \in Seq(Characters) /\ Len(<<>>) = 0
      /\ <<>> \in Seq(Seq(Letters))
  BY EmptySeq
<1>2. Unborn \in CollectorStates
  <2>1. {} \in SUBSET Ports /\ "unborn" \in Alive \cup {"unborn", "ended"} /\ FALSE \in BOOLEAN
    OBVIOUS
  <2> HIDE DEF Alive
  <2> QED  BY <1>1, <2>1 DEF CollectorStates, Unborn
<1>3. ASSUME SerialInit, NEW c \in Collectors PROVE Bounded(c)
  <2>1. collector[c].buffer = <<>> /\ collector[c].data = <<>>
    BY <1>3 DEF SerialInit, Unborn
  <2>2. Len(<<>>) <= MAX_LINES /\ Len(<<>>) <= MAX_LINE_BYTES + MAX_CHUNK /\ Len(<<>>) <= MAX_LINE_BYTES
    BY <1>1, SerialAssumption
  <2> QED  BY <1>1, <2>1, <2>2 DEF Bounded
<1> QED  BY <1>1, <1>2, <1>3, SerialAssumption DEF SerialInit, SerialTypeOK

\* A collector never keeps more than MAX_LINES entries, nor more of an unterminated line
\* than MAX_LINE_BYTES and one chunk, whatever a guest writes.
THEOREM SerialTypeCorrect == SerialSpec => []SerialTypeOK
BY InitTypes, StepKeepsTypes, PTL DEF SerialSpec

-----------------------------------------------------------------------------
(* One collector for each port.                                              *)

\* A collector in the table is its port's own.
InTable ==
  \A p \in Ports : collectors[p] \in Collectors =>
    collector[collectors[p]].port = {p} /\ collector[collectors[p]].at # "unborn"

\* One not yet started has no port, and has heard and kept nothing.
Unstarted ==
  \A c \in Collectors : collector[c].at = "unborn" =>
    /\ collector[c].port = {} /\ heard[c] = <<>>
    /\ collector[c].data = <<>> /\ collector[c].buffer = <<>>

OneInv == SerialTypeOK /\ InTable /\ Unstarted /\ OneCollector

\* A step that only moves one started collector, reads or cuts.
LEMMA MovingKeepsOne ==
  ASSUME OneInv, SerialTypeOK', NEW c \in Collectors, collector[c].at \in Alive,
         \A d \in Collectors \ {c} : collector'[d] = collector[d] /\ heard'[d] = heard[d],
         collector'[c].port = collector[c].port, collector'[c].stop = collector[c].stop,
         collector'[c].at \in Alive \cup {"ended"}, UNCHANGED collectors
  PROVE  OneInv'
<1>1. \A d \in Collectors : /\ collector'[d].port = collector[d].port
                            /\ collector'[d].stop = collector[d].stop
                            /\ collector'[d].at \in Alive => collector[d].at \in Alive
                            /\ collector'[d].at = "unborn" <=> collector[d].at = "unborn"
  BY DEF Alive
<1>2. InTable'
  BY <1>1 DEF OneInv, InTable
<1>3. Unstarted'
  BY DEF OneInv, Unstarted, Alive
<1>4. OneCollector'
  BY <1>1 DEF OneInv, OneCollector
<1> QED  BY <1>2, <1>3, <1>4 DEF OneInv

\* What a step of a collector does to its record.
LEMMA CollectMoves ==
  ASSUME SerialTypeOK, NEW c \in Collectors, Collect(c)
  PROVE  /\ collector[c].at \in Alive
         /\ \A d \in Collectors \ {c} : collector'[d] = collector[d] /\ heard'[d] = heard[d]
         /\ collector'[c].port = collector[c].port /\ collector'[c].stop = collector[c].stop
         /\ collector'[c].at \in Alive \cup {"ended"}
         /\ UNCHANGED collectors
<1> USE DEF Alive
<1>1. collector \in [Collectors -> CollectorStates] /\ collector[c] \in CollectorStates
  BY DEF SerialTypeOK
<1>2. ASSUME NEW place \in Alive \cup {"ended"}, Moves(c, place)
      PROVE  /\ \A d \in Collectors \ {c} : collector'[d] = collector[d]
             /\ collector'[c].port = collector[c].port /\ collector'[c].stop = collector[c].stop
             /\ collector'[c].at \in Alive \cup {"ended"}
  BY <1>2, MoveKeeps
<1>0. heard \in [Collectors -> Seq(Characters)]
  BY DEF SerialTypeOK
<1>3. CASE Look(c)
  BY <1>2, <1>3 DEF Look, Moves
<1>4. CASE Sleep(c)
  BY <1>2, <1>4 DEF Sleep, Moves
<1>5. CASE Connect(c)
  BY <1>2, <1>5 DEF Connect, Continue, Moves
<1>6. CASE RecvNothing(c)
  BY <1>2, <1>6 DEF RecvNothing, Continue, Moves
<1>7. CASE Recv(c)
  BY <1>0, <1>1, <1>7 DEF Recv, Set, CollectorStates
<1>8. CASE CutLine(c)
  BY <1>1, <1>8 DEF CutLine, Set, CollectorStates
<1>9. CASE EndChunk(c)
  <2>1. /\ collector[c].at = "ingest" /\ UNCHANGED <<collectors, heard>>
        /\ \/ Place(c, Continue(c))
           \/ \E buffer : Set(c, Moved([collector[c] EXCEPT !.buffer = buffer, !.data = <<>>], Continue(c)))
    BY <1>9 DEF EndChunk, Place, Set
  <2>2. Continue(c) \in Alive
    BY DEF Continue
  <2>3. ASSUME NEW buffer, Set(c, Moved([collector[c] EXCEPT !.buffer = buffer, !.data = <<>>], Continue(c)))
        PROVE  /\ \A d \in Collectors \ {c} : collector'[d] = collector[d]
               /\ collector'[c].port = collector[c].port /\ collector'[c].stop = collector[c].stop
               /\ collector'[c].at \in Alive \cup {"ended"}
    BY <1>1, <2>2, <2>3 DEF Set, Moved, CollectorStates
  <2> QED  BY <1>2, <2>1, <2>2, <2>3 DEF Moves
<1> QED  BY <1>3, <1>4, <1>5, <1>6, <1>7, <1>8, <1>9 DEF Collect, Proceed

\* Every step keeps it: a collector is started only where the port's last has ended, and
\* all are taken from the table only as they are told to stop.
LEMMA StepKeepsOne == OneInv /\ [SerialNext]_serialVars => OneInv'
<1> SUFFICES ASSUME OneInv, [SerialNext]_serialVars PROVE OneInv'
  OBVIOUS
<1>0. SerialTypeOK /\ SerialTypeOK'
  BY StepKeepsTypes DEF OneInv
<1>1. ASSUME NEW c \in Collectors, Collect(c) PROVE OneInv'
  BY <1>0, <1>1, CollectMoves, MovingKeepsOne
<1>2. ASSUME NEW p \in Ports, Ensure(p) PROVE OneInv'
  <2>1. PICK c \in Collectors :
          /\ collector[c].at = "unborn"
          /\ collector' = [collector EXCEPT ![c] = [Unborn EXCEPT !.port = {p}, !.at = "look"]]
          /\ collectors' = [collectors EXCEPT ![p] = c]
    BY <1>2 DEF Ensure, Set
  <2>2. /\ collector'[c].port = {p} /\ collector'[c].at = "look"
        /\ \A d \in Collectors \ {c} : collector'[d] = collector[d]
        /\ heard' = heard /\ collectors'[p] = c
        /\ \A q \in Ports \ {p} : collectors'[q] = collectors[q]
    BY <1>0, <1>2, <2>1 DEF Ensure, SerialTypeOK, Unborn
  <2>3. collectors[p] \in Collectors => collector[collectors[p]].at = "ended"
    BY <1>2, SerialAssumption DEF Ensure
  <2>4. InTable'
    BY <2>1, <2>2 DEF OneInv, InTable
  <2>5. Unstarted'
    BY <2>2 DEF OneInv, Unstarted
  <2>6. ASSUME NEW d \in Collectors, NEW q \in collector'[d].port,
               collector'[d].at \in Alive, ~collector'[d].stop
        PROVE  collectors'[q] = d
    <3>1. CASE d = c
      BY <2>2, <3>1
    <3>2. CASE d # c
      <4>1. collectors[q] = d /\ q \in Ports
        BY <1>0, <2>2, <2>6, <3>2 DEF OneInv, OneCollector, SerialTypeOK, CollectorStates
      <4>2. q # p
        BY <2>2, <2>3, <2>6, <3>2, <4>1 DEF Alive
      <4> QED  BY <2>2, <4>1, <4>2
    <3> QED  BY <3>1, <3>2
  <2> QED  BY <1>0, <2>4, <2>5, <2>6 DEF OneInv, OneCollector
<1>3. CASE StopAll
  <2>1. ASSUME NEW d \in Collectors
        PROVE  /\ collector'[d].port = collector[d].port /\ collector'[d].at = collector[d].at
               /\ collector'[d].data = collector[d].data /\ collector'[d].buffer = collector[d].buffer
               /\ ~collector'[d].stop => ~collector[d].stop /\ ~\E p \in Ports : collectors[p] = d
    <3> DEFINE stop == collector[d].stop \/ \E p \in Ports : collectors[p] = d
    <3>1. collector'[d] = [collector[d] EXCEPT !.stop = stop]
      BY <1>3 DEF StopAll
    <3>2. collector[d] \in CollectorStates
      BY <1>0 DEF SerialTypeOK
    <3> HIDE DEF stop
    <3>3. /\ collector'[d].port = collector[d].port /\ collector'[d].at = collector[d].at
          /\ collector'[d].data = collector[d].data /\ collector'[d].buffer = collector[d].buffer
          /\ collector'[d].stop = stop
      BY <3>1, <3>2 DEF CollectorStates
    <3> QED  BY <3>3 DEF stop
  <2>2. \A p \in Ports : collectors'[p] = NoCollector
    BY <1>3 DEF StopAll
  <2>3. InTable'
    BY <2>2, SerialAssumption DEF InTable
  <2>4. Unstarted'
    BY <1>3, <2>1 DEF StopAll, OneInv, Unstarted
  <2>5. OneCollector'
    <3> SUFFICES ASSUME NEW d \in Collectors, NEW q \in collector'[d].port,
                        collector'[d].at \in Alive, ~collector'[d].stop
                 PROVE  FALSE
      BY DEF OneCollector
    <3>1. collectors[q] = d /\ q \in Ports
      BY <1>0, <2>1 DEF OneInv, OneCollector, SerialTypeOK, CollectorStates
    <3> QED  BY <2>1, <3>1
  <2> QED  BY <1>0, <2>3, <2>4, <2>5 DEF OneInv
<1>4. ASSUME NEW p \in Ports, PowerChange(p) PROVE OneInv'
  <2>1. UNCHANGED <<collectors, heard, began>>
    BY <1>4 DEF PowerChange
  <2> QED  BY <1>0, <1>4, <2>1, PowerKeeps DEF OneInv, InTable, Unstarted, OneCollector
<1>5. CASE UNCHANGED serialVars
  BY <1>0, <1>5 DEF serialVars, OneInv, InTable, Unstarted, OneCollector
<1> QED  BY <1>1, <1>2, <1>3, <1>4, <1>5 DEF SerialNext

LEMMA InitOne == SerialInit => OneInv
<1> SUFFICES ASSUME SerialInit PROVE OneInv
  OBVIOUS
<1>1. \A c \in Collectors :
        /\ collector[c].port = {} /\ collector[c].at = "unborn" /\ heard[c] = <<>>
        /\ collector[c].data = <<>> /\ collector[c].buffer = <<>>
  BY DEF SerialInit, Unborn
<1>2. InTable
  BY SerialAssumption DEF SerialInit, InTable
<1> QED  BY <1>1, <1>2, InitTypes DEF OneInv, Unstarted, OneCollector

\* However often a port's entries are asked for, and however its VM comes and goes: at
\* most one collector goes on for a port, the one whose buffer its entries are taken from.
THEOREM OnePerPort == SerialSpec => []OneCollector
<1>1. OneInv => OneCollector
  BY DEF OneInv
<1> QED  BY <1>1, InitOne, StepKeepsOne, PTL DEF SerialSpec

-----------------------------------------------------------------------------
(* The buffer holds what was heard.                                          *)

\* What lies between two cuts of an output.
LEMMA Piece ==
  ASSUME NEW out \in Seq(Characters), NEW a \in 0..Len(out), NEW b \in 0..Len(out)
  PROVE  /\ SubSeq(out, a + 1, b) \in Seq(Characters)
         /\ Len(SubSeq(out, a + 1, b)) = IF a <= b THEN b - a ELSE 0
         /\ \A i \in 1..(b - a) : SubSeq(out, a + 1, b)[i] = out[a + i]
<1>1. Len(out) \in Nat /\ a \in Nat /\ b \in Nat /\ b <= Len(out)
  BY LenProperties
<1>2. \A i \in (a + 1)..b : out[i] \in Characters
  BY <1>1, ElementOfSeq
<1>3. /\ SubSeq(out, a + 1, b) \in Seq(Characters)
      /\ Len(SubSeq(out, a + 1, b)) = IF a + 1 <= b THEN b - (a + 1) + 1 ELSE 0
      /\ \A i \in 1..(b - (a + 1) + 1) : SubSeq(out, a + 1, b)[i] = out[(a + 1) + i - 1]
  BY <1>1, <1>2, SubSeqProperties
<1> QED  BY <1>1, <1>3

\* Where an entry ends, the next line begins.
LEMMA EntryEndsAtBoundary ==
  ASSUME NEW out \in Seq(Characters), NEW a \in 0..Len(out), NEW b \in 0..Len(out),
         NEW line \in Seq(Letters), EntryOf(line, SubSeq(out, a + 1, b))
  PROVE  Boundary(out, b)
<1> DEFINE piece == SubSeq(out, a + 1, b)
<1>1. /\ piece \in Seq(Characters) /\ Len(piece) = IF a <= b THEN b - a ELSE 0
      /\ \A i \in 1..(b - a) : piece[i] = out[a + i]
  BY Piece
<1>2. Len(line) \in Nat /\ line \in Seq(Characters) /\ NewLine \in Characters
  BY LenProperties DEF Characters
<1>3. a \in Nat /\ b \in Nat /\ MAX_LINE_BYTES \in Nat
  BY SerialAssumption, LenProperties
<1> HIDE DEF piece
<1>4. CASE piece = Append(line, NewLine)
  <2>1. Len(piece) = Len(line) + 1 /\ piece[Len(line) + 1] = NewLine
    BY <1>2, <1>4, AppendProperties
  <2>2. b - a = Len(line) + 1
    BY <1>1, <1>2, <1>3, <2>1
  <2>3. out[b] = NewLine
    <3>1. piece[b - a] = out[a + (b - a)]
      BY <1>1, <1>2, <1>3, <2>2
    <3> QED  BY <1>3, <2>1, <2>2, <3>1
  <2> QED  BY <2>3 DEF Boundary
<1>5. CASE piece = line /\ Len(line) > MAX_LINE_BYTES
  <2>1. b - a = Len(line)
    BY <1>1, <1>2, <1>3, <1>5
  <2>2. ASSUME NEW j \in (b - MAX_LINE_BYTES)..b PROVE out[j] # NewLine
    <3>1. j - a \in 1..Len(line)
      BY <1>2, <1>3, <1>5, <2>1
    <3>2. line[j - a] = out[a + (j - a)]
      BY <1>1, <1>5, <2>1, <3>1
    <3>3. a + (j - a) = j
      BY <1>3
    <3>4. line[j - a] \in Letters
      BY <3>1, ElementOfSeq
    <3> QED  BY <3>2, <3>3, <3>4, SerialAssumption
  <2>3. b > MAX_LINE_BYTES
    BY <1>2, <1>3, <1>5, <2>1
  <2> QED  BY <2>2, <2>3 DEF Boundary
<1> QED  BY <1>4, <1>5 DEF EntryOf, piece

\* What is heard next moves no boundary and no piece.
LEMMA HearingMore ==
  ASSUME NEW out \in Seq(Characters), NEW chunk \in Seq(Characters), NEW data \in Seq(Characters),
         NEW buffer \in Seq(Seq(Letters)), NEW cut \in [0..Len(buffer) -> 0..Len(out)],
         Cuts(cut, out, buffer, data)
  PROVE  /\ cut \in [0..Len(buffer) -> 0..Len(out \o chunk)]
         /\ Cuts(cut, out \o chunk, buffer, data \o chunk)
<1> DEFINE all == out \o chunk
           n == Len(buffer)
<1>1. /\ all \in Seq(Characters) /\ Len(all) = Len(out) + Len(chunk)
      /\ \A i \in 1..Len(out) : all[i] = out[i]
      /\ \A i \in 1..Len(chunk) : all[Len(out) + i] = chunk[i]
  BY ConcatProperties, LenProperties
<1>2. n \in Nat /\ Len(out) \in Nat /\ Len(chunk) \in Nat
  BY LenProperties
<1> HIDE DEF all
<1>3. cut \in [0..n -> 0..Len(all)]
  BY <1>1, <1>2
<1>4. Boundary(all, cut[0])
  <2>1. cut[0] \in 0..Len(out) /\ MAX_LINE_BYTES \in Nat /\ Boundary(out, cut[0])
    BY <1>2, SerialAssumption DEF Cuts
  <2>2. CASE cut[0] = 0
    BY <2>2 DEF Boundary
  <2>3. CASE cut[0] # 0
    <3>1. all[cut[0]] = out[cut[0]]
      BY <1>1, <1>2, <2>1, <2>3
    <3>2. cut[0] > MAX_LINE_BYTES => \A j \in (cut[0] - MAX_LINE_BYTES)..cut[0] : all[j] = out[j]
      BY <1>1, <1>2, <2>1
    <3> QED  BY <2>1, <3>1, <3>2 DEF Boundary
  <2> QED  BY <2>2, <2>3
<1>5. ASSUME NEW a \in 0..Len(out), NEW b \in 0..Len(out)
      PROVE  SubSeq(all, a + 1, b) = SubSeq(out, a + 1, b)
  <2>1. a \in 0..Len(all) /\ b \in 0..Len(all)
    BY <1>1, <1>2
  <2>2. \A i \in 1..(b - a) : all[a + i] = out[a + i]
    BY <1>1, <1>2
  <2>3. \A i \in 1..(b - a) : SubSeq(all, a + 1, b)[i] = SubSeq(out, a + 1, b)[i]
    BY <1>1, <2>1, <2>2, Piece
  <2>4. /\ SubSeq(all, a + 1, b) \in Seq(Characters) /\ SubSeq(out, a + 1, b) \in Seq(Characters)
        /\ Len(SubSeq(all, a + 1, b)) = IF a <= b THEN b - a ELSE 0
        /\ Len(SubSeq(out, a + 1, b)) = IF a <= b THEN b - a ELSE 0
    BY <1>1, <2>1, Piece
  <2>5. \A i \in 1..Len(SubSeq(all, a + 1, b)) : i \in 1..(b - a)
    BY <1>2, <2>4
  <2> QED  BY <2>3, <2>4, <2>5, SeqEqual
<1>6. \A i \in 1..n : SubSeq(all, cut[i - 1] + 1, cut[i]) = SubSeq(out, cut[i - 1] + 1, cut[i])
  <2> SUFFICES ASSUME NEW i \in 1..n
               PROVE  SubSeq(all, cut[i - 1] + 1, cut[i]) = SubSeq(out, cut[i - 1] + 1, cut[i])
    OBVIOUS
  <2>1. i - 1 \in 0..n /\ i \in 0..n
    BY <1>2
  <2>2. cut[i - 1] \in 0..Len(out) /\ cut[i] \in 0..Len(out)
    BY <2>1
  <2> QED  BY <1>5, <2>2
<1>7. data \o chunk = SubSeq(all, cut[n] + 1, Len(all))
  <2> DEFINE m == cut[n]
             was == SubSeq(out, m + 1, Len(out))
             is == SubSeq(all, m + 1, Len(all))
  <2>1. m \in 0..Len(out) /\ data = was
    <3>1. n \in 0..n
      BY <1>2
    <3>2. data = was
      BY Zenon DEF Cuts
    <3> QED  BY <3>1, <3>2
  <2>2. Len(out) \in 0..Len(out) /\ Len(all) \in 0..Len(all) /\ m \in 0..Len(all)
    BY <1>1, <1>2, <2>1
  <2> HIDE DEF m
  <2>3. /\ Len(data) = Len(out) - m /\ \A i \in 1..(Len(out) - m) : data[i] = out[m + i]
    BY <1>2, <2>1, <2>2, Piece
  <2>4. /\ is \in Seq(Characters) /\ Len(is) = Len(all) - m
        /\ \A i \in 1..(Len(all) - m) : is[i] = all[m + i]
    BY <1>1, <1>2, <2>1, <2>2, Piece
  <2> HIDE DEF was, is
  <2>5. /\ data \o chunk \in Seq(Characters) /\ Len(data \o chunk) = Len(data) + Len(chunk)
        /\ \A i \in 1..(Len(data) + Len(chunk)) :
              (data \o chunk)[i] = IF i <= Len(data) THEN data[i] ELSE chunk[i - Len(data)]
    BY ConcatProperties
  <2>6. ASSUME NEW i \in 1..(Len(all) - m) PROVE (data \o chunk)[i] = is[i]
    <3>1. is[i] = all[m + i] /\ i \in 1..(Len(data) + Len(chunk))
      BY <1>1, <1>2, <2>1, <2>3, <2>4
    <3>2. CASE i <= Len(data)
      <4>1. data[i] = out[m + i] /\ all[m + i] = out[m + i]
        BY <1>1, <1>2, <2>1, <2>3, <3>2
      <4> QED  BY <2>5, <3>1, <3>2, <4>1
    <3>3. CASE ~(i <= Len(data))
      <4>1. i - Len(data) \in 1..Len(chunk) /\ Len(out) + (i - Len(data)) = m + i
        BY <1>1, <1>2, <2>1, <2>3, <3>3
      <4>2. all[m + i] = chunk[i - Len(data)]
        BY <1>1, <4>1
      <4> QED  BY <2>5, <3>1, <3>3, <4>2
    <3> QED  BY <3>2, <3>3
  <2>7. Len(data \o chunk) = Len(is)
    BY <1>1, <1>2, <2>1, <2>3, <2>4, <2>5
  <2>8. data \o chunk = is
    BY <2>4, <2>5, <2>6, <2>7, SeqEqual
  <2> QED  BY <2>8 DEF is, m
<1>8. Cuts(cut, all, buffer, data \o chunk)
  BY <1>4, <1>6, <1>7 DEF Cuts
<1> QED  BY <1>3, <1>8 DEF all

\* A further entry, of what stands behind the last cut: one cut more, or, when the ring is
\* full, the first one gone.
LEMMA EntryMore ==
  ASSUME NEW out \in Seq(Characters), NEW data \in Seq(Characters),
         NEW buffer \in Seq(Seq(Letters)), Len(buffer) <= MAX_LINES,
         NEW cut \in [0..Len(buffer) -> 0..Len(out)], Cuts(cut, out, buffer, data),
         NEW k \in 0..Len(out), NEW line \in Seq(Letters),
         EntryOf(line, SubSeq(out, cut[Len(buffer)] + 1, k))
  PROVE  \E new \in [0..Len(Ring(buffer, line)) -> 0..Len(out)] :
           Cuts(new, out, Ring(buffer, line), SubSeq(out, k + 1, Len(out)))
<1> DEFINE n == Len(buffer)
           ring == Ring(buffer, line)
<1>1. n \in Nat /\ MAX_LINES \in Nat \ {0}
  BY LenProperties, SerialAssumption
<1>2. /\ Boundary(out, cut[0])
      /\ n < MAX_LINES => cut[0] = 0
      /\ \A i \in 1..n : EntryOf(buffer[i], SubSeq(out, cut[i - 1] + 1, cut[i]))
  BY DEF Cuts
<1>3. CASE n < MAX_LINES
  <2> DEFINE new == [i \in 0..(n + 1) |-> IF i <= n THEN cut[i] ELSE k]
  <2>1. Len(ring) = n + 1 /\ ring[n + 1] = line /\ \A i \in 1..n : ring[i] = buffer[i]
    BY <1>3, RingProperties
  <2> HIDE DEF ring
  <2>2. new \in [0..Len(ring) -> 0..Len(out)]
    BY <1>1, <2>1
  <2>3. new[0] = cut[0] /\ new[n] = cut[n] /\ new[n + 1] = k
    BY <1>1
  <2>4. ASSUME NEW i \in 1..n PROVE new[i - 1] = cut[i - 1] /\ new[i] = cut[i]
    BY <1>1
  <2> HIDE DEF new
  <2>5. ASSUME NEW i \in 1..Len(ring) PROVE EntryOf(ring[i], SubSeq(out, new[i - 1] + 1, new[i]))
    <3>1. CASE i \in 1..n
      BY <1>2, <2>1, <2>4, <3>1
    <3>2. CASE i \notin 1..n
      <4>1. i = n + 1 /\ i - 1 = n
        BY <1>1, <2>1, <3>2
      <4> QED  BY <2>1, <2>3, <4>1
    <3> QED  BY <3>1, <3>2
  <2>6. Cuts(new, out, ring, SubSeq(out, k + 1, Len(out)))
    BY <1>2, <1>3, <2>1, <2>3, <2>5 DEF Cuts
  <2> QED  BY <2>2, <2>6 DEF ring
<1>4. CASE n = MAX_LINES
  <2> DEFINE new == [i \in 0..n |-> IF i < n THEN cut[i + 1] ELSE k]
  <2>1. Len(ring) = n /\ ring[n] = line /\ \A i \in 1..(n - 1) : ring[i] = buffer[i + 1]
    BY <1>4, RingProperties
  <2> HIDE DEF ring
  <2>2. new \in [0..Len(ring) -> 0..Len(out)]
    BY <1>1, <1>4, <2>1
  <2>3. new[0] = cut[1] /\ new[n - 1] = cut[n] /\ new[n] = k
    BY <1>1, <1>4
  <2>4. ASSUME NEW i \in 1..(n - 1) PROVE new[i - 1] = cut[i] /\ new[i] = cut[i + 1]
    BY <1>1, <1>4
  <2> HIDE DEF new
  <2>5. ASSUME NEW i \in 1..Len(ring) PROVE EntryOf(ring[i], SubSeq(out, new[i - 1] + 1, new[i]))
    <3>1. CASE i \in 1..(n - 1)
      <4>1. i + 1 \in 1..n /\ (i + 1) - 1 = i
        BY <1>1, <3>1
      <4>2. EntryOf(buffer[i + 1], SubSeq(out, cut[i] + 1, cut[i + 1]))
        BY <1>2, <4>1
      <4> QED  BY <2>1, <2>4, <3>1, <4>2
    <3>2. CASE i \notin 1..(n - 1)
      <4>1. i = n
        BY <1>1, <2>1, <3>2
      <4> QED  BY <2>1, <2>3, <4>1
    <3> QED  BY <3>1, <3>2
  <2>6. Boundary(out, cut[1])
    <3>1. /\ 1 \in 1..n /\ 0 \in 0..n /\ 1 \in 0..n
      BY <1>1, <1>4
    <3>2. /\ cut[0] \in 0..Len(out) /\ cut[1] \in 0..Len(out)
          /\ buffer[1] \in Seq(Letters)
      BY <3>1, ElementOfSeq
    <3>3. EntryOf(buffer[1], SubSeq(out, cut[1 - 1] + 1, cut[1]))
      BY <1>2, <3>1
    <3>4. EntryOf(buffer[1], SubSeq(out, cut[0] + 1, cut[1]))
      BY <3>3
    <3> QED  BY <3>2, <3>4, EntryEndsAtBoundary
  <2>7. Cuts(new, out, ring, SubSeq(out, k + 1, Len(out)))
    BY <1>1, <1>4, <2>1, <2>3, <2>5, <2>6 DEF Cuts
  <2> QED  BY <2>2, <2>7 DEF ring
<1> QED  BY <1>1, <1>3, <1>4

\* What stands behind the last cut, and how its parts lie in the output.
LEMMA Behind ==
  ASSUME NEW out \in Seq(Characters), NEW data \in Seq(Characters),
         NEW buffer \in Seq(Seq(Letters)), NEW cut \in [0..Len(buffer) -> 0..Len(out)],
         Cuts(cut, out, buffer, data)
  PROVE  /\ cut[Len(buffer)] \in 0..Len(out)
         /\ Len(data) = Len(out) - cut[Len(buffer)]
         /\ \A i \in 1..Len(data) : data[i] = out[cut[Len(buffer)] + i]
<1> DEFINE m == cut[Len(buffer)]
<1>1. m \in 0..Len(out) /\ Len(out) \in 0..Len(out) /\ Len(out) \in Nat
  <2>1. Len(buffer) \in Nat /\ Len(out) \in Nat
    BY LenProperties
  <2>2. Len(buffer) \in 0..Len(buffer) /\ Len(out) \in 0..Len(out)
    BY <2>1
  <2>3. m \in 0..Len(out)
    BY <2>2, Zenon
  <2> QED  BY <2>1, <2>2, <2>3
<1>2. data = SubSeq(out, m + 1, Len(out))
  BY Zenon DEF Cuts
<1> HIDE DEF m
<1>3. Len(data) = Len(out) - m /\ \A i \in 1..(Len(out) - m) : data[i] = out[m + i]
  <2>1. /\ Len(SubSeq(out, m + 1, Len(out))) = IF m <= Len(out) THEN Len(out) - m ELSE 0
        /\ \A i \in 1..(Len(out) - m) : SubSeq(out, m + 1, Len(out))[i] = out[m + i]
    BY <1>1, Piece
  <2> QED  BY <1>1, <1>2, <2>1
<1> QED  BY <1>1, <1>3 DEF m

\* A line with its end is cut from what was heard, and the rest is what follows it.
LEMMA LineCut ==
  ASSUME NEW out \in Seq(Characters), NEW data \in Seq(Characters),
         NEW m \in 0..Len(out), Len(data) = Len(out) - m,
         \A i \in 1..Len(data) : data[i] = out[m + i],
         Ends(data) # {}
  PROVE  /\ m + FirstEnd(data) \in 0..Len(out)
         /\ SubSeq(out, m + 1, m + FirstEnd(data)) = Append(LineOf(data), NewLine)
         /\ RestOf(data) = SubSeq(out, m + FirstEnd(data) + 1, Len(out))
<1> DEFINE f == FirstEnd(data)
           line == LineOf(data)
           rest == RestOf(data)
           piece == SubSeq(out, m + 1, m + f)
           behind == SubSeq(out, m + f + 1, Len(out))
<1>1. /\ f \in 1..Len(data) /\ data[f] = NewLine
  BY FirstEndIsFirst
<1>2. /\ line \in Seq(Letters) /\ Len(line) = f - 1
      /\ rest \in Seq(Characters) /\ Len(rest) = Len(data) - f
      /\ \A j \in 1..(f - 1) : line[j] = data[j]
      /\ \A j \in 1..(Len(data) - f) : rest[j] = data[f + j]
  BY LineAndRest
<1> HIDE DEF f, line, rest
<1>3. Len(out) \in Nat /\ Len(data) \in Nat /\ m \in Nat /\ m <= Len(out)
  BY LenProperties
<1>4. m + f \in 0..Len(out) /\ Len(out) \in 0..Len(out)
  BY <1>1, <1>3
<1>5. /\ piece \in Seq(Characters) /\ Len(piece) = f
      /\ \A i \in 1..f : piece[i] = out[m + i]
  <2>1. m <= m + f /\ (m + f) - m = f
    BY <1>1, <1>3
  <2> HIDE DEF piece
  <2>2. /\ piece \in Seq(Characters) /\ Len(piece) = IF m <= m + f THEN (m + f) - m ELSE 0
        /\ \A i \in 1..((m + f) - m) : piece[i] = out[m + i]
    BY <1>4, Piece DEF piece
  <2> QED  BY <2>1, <2>2
<1>6. /\ behind \in Seq(Characters) /\ Len(behind) = Len(data) - f
      /\ \A i \in 1..(Len(data) - f) : behind[i] = out[m + f + i]
  <2>1. m + f <= Len(out) /\ Len(out) - (m + f) = Len(data) - f
    BY <1>1, <1>3
  <2> HIDE DEF behind
  <2>2. /\ behind \in Seq(Characters)
        /\ Len(behind) = IF m + f <= Len(out) THEN Len(out) - (m + f) ELSE 0
        /\ \A i \in 1..(Len(out) - (m + f)) : behind[i] = out[m + f + i]
    BY <1>4, Piece DEF behind
  <2> QED  BY <2>1, <2>2
<1> HIDE DEF piece, behind
<1>7. piece = Append(line, NewLine)
  <2>1. line \in Seq(Characters) /\ NewLine \in Characters
    BY <1>2 DEF Characters
  <2>2. /\ Append(line, NewLine) \in Seq(Characters) /\ Len(Append(line, NewLine)) = f
        /\ Append(line, NewLine)[f] = NewLine
        /\ \A i \in 1..(f - 1) : Append(line, NewLine)[i] = line[i]
    BY <1>1, <1>2, <2>1, AppendProperties
  <2>3. ASSUME NEW i \in 1..f PROVE piece[i] = Append(line, NewLine)[i]
    <3>1. piece[i] = data[i]
      BY <1>1, <1>3, <1>5
    <3>2. CASE i = f
      BY <1>1, <2>2, <3>1, <3>2
    <3>3. CASE i # f
      BY <1>1, <1>2, <2>2, <3>1, <3>3
    <3> QED  BY <3>2, <3>3
  <2> QED  BY <1>5, <2>2, <2>3, SeqEqual
<1>8. rest = behind
  <2>1. ASSUME NEW i \in 1..(Len(data) - f) PROVE rest[i] = behind[i]
    <3>1. f + i \in 1..Len(data) /\ m + (f + i) = m + f + i
      BY <1>1, <1>3
    <3>2. data[f + i] = out[m + f + i]
      BY <3>1
    <3> QED  BY <1>2, <1>6, <3>2
  <2> QED  BY <1>2, <1>6, <2>1, SeqEqual
<1> QED  BY <1>4, <1>7, <1>8 DEF f, line, rest, piece, behind

\* The whole of data is what was heard last: flushed, it leaves nothing behind.
LEMMA AllBehind ==
  ASSUME NEW out \in Seq(Characters), NEW data \in Seq(Characters),
         NEW buffer \in Seq(Seq(Letters)), NEW cut \in [0..Len(buffer) -> 0..Len(out)],
         Cuts(cut, out, buffer, data)
  PROVE  /\ Len(out) \in 0..Len(out)
         /\ SubSeq(out, cut[Len(buffer)] + 1, Len(out)) = data
         /\ SubSeq(out, Len(out) + 1, Len(out)) = <<>>
<1>1. Len(out) \in Nat
  BY LenProperties
<1>2. data = SubSeq(out, cut[Len(buffer)] + 1, Len(out))
  BY Zenon DEF Cuts
<1> QED  BY <1>1, <1>2, SubSeqEmpty

\* What the collector c shows.
Shown(c) ==
  \E cut \in [0..Len(collector[c].buffer) -> 0..Len(heard[c])] :
    Cuts(cut, heard[c], collector[c].buffer, collector[c].data)

LEMMA SameIsShown ==
  ASSUME NEW c \in Collectors, Shown(c), collector'[c].buffer = collector[c].buffer,
         collector'[c].data = collector[c].data, heard'[c] = heard[c]
  PROVE  Shown(c)'
BY DEF Shown

LEMMA RecvIsShown ==
  ASSUME SerialTypeOK, NEW c \in Collectors, Shown(c), Recv(c)
  PROVE  Shown(c)'
<1>1. PICK chunk \in Chunks :
        /\ collector' = [collector EXCEPT ![c] = [collector[c] EXCEPT !.data = @ \o chunk, !.at = "ingest"]]
        /\ heard' = [heard EXCEPT ![c] = @ \o chunk]
  BY DEF Recv, Set
<1>2. /\ heard[c] \in Seq(Characters) /\ collector[c].data \in Seq(Characters)
      /\ collector[c].buffer \in Seq(Seq(Letters)) /\ chunk \in Seq(Characters)
  BY ChunksAreShort DEF SerialTypeOK, CollectorStates
<1>3. /\ heard'[c] = heard[c] \o chunk /\ collector'[c].data = collector[c].data \o chunk
      /\ collector'[c].buffer = collector[c].buffer
  BY <1>1 DEF SerialTypeOK, CollectorStates
<1>4. PICK cut \in [0..Len(collector[c].buffer) -> 0..Len(heard[c])] :
        Cuts(cut, heard[c], collector[c].buffer, collector[c].data)
  BY DEF Shown
<1>5. /\ cut \in [0..Len(collector[c].buffer) -> 0..Len(heard[c] \o chunk)]
      /\ Cuts(cut, heard[c] \o chunk, collector[c].buffer, collector[c].data \o chunk)
  BY <1>2, <1>4, HearingMore
<1> QED  BY <1>3, <1>5 DEF Shown

LEMMA CutLineIsShown ==
  ASSUME SerialTypeOK, NEW c \in Collectors, Shown(c), CutLine(c)
  PROVE  Shown(c)'
<1> DEFINE out == heard[c]
           data == collector[c].data
           buffer == collector[c].buffer
<1>1. /\ Ends(data) # {}
      /\ collector' = [collector EXCEPT ![c] =
           [collector[c] EXCEPT !.buffer = Ring(buffer, LineOf(data)), !.data = RestOf(data)]]
      /\ heard' = heard
  BY DEF CutLine, Set
<1>2. /\ out \in Seq(Characters) /\ data \in Seq(Characters)
      /\ buffer \in Seq(Seq(Letters)) /\ Len(buffer) <= MAX_LINES
  BY DEF SerialTypeOK, CollectorStates, Bounded
<1>3. /\ collector'[c].buffer = Ring(buffer, LineOf(data)) /\ collector'[c].data = RestOf(data)
      /\ heard'[c] = out
  BY <1>1 DEF SerialTypeOK, CollectorStates
<1>4. PICK cut \in [0..Len(buffer) -> 0..Len(out)] : Cuts(cut, out, buffer, data)
  BY DEF Shown
<1> HIDE DEF out, data, buffer
<1> DEFINE m == cut[Len(buffer)]
<1>5. /\ m \in 0..Len(out) /\ Len(data) = Len(out) - m
      /\ \A i \in 1..Len(data) : data[i] = out[m + i]
  BY <1>2, <1>4, Behind
<1>6. /\ m + FirstEnd(data) \in 0..Len(out)
      /\ SubSeq(out, m + 1, m + FirstEnd(data)) = Append(LineOf(data), NewLine)
      /\ RestOf(data) = SubSeq(out, m + FirstEnd(data) + 1, Len(out))
  <2> HIDE DEF m
  <2> QED  BY <1>1, <1>2, <1>5, LineCut
<1>7. LineOf(data) \in Seq(Letters)
  BY <1>1, <1>2, LineAndRest
<1>8. EntryOf(LineOf(data), SubSeq(out, cut[Len(buffer)] + 1, m + FirstEnd(data)))
  BY <1>6 DEF EntryOf
<1>9. \E new \in [0..Len(Ring(buffer, LineOf(data))) -> 0..Len(out)] :
        Cuts(new, out, Ring(buffer, LineOf(data)), SubSeq(out, m + FirstEnd(data) + 1, Len(out)))
  <2> DEFINE k == m + FirstEnd(data)
  <2>1. k \in 0..Len(out) /\ EntryOf(LineOf(data), SubSeq(out, cut[Len(buffer)] + 1, k))
    BY <1>6, <1>8
  <2> HIDE DEF k
  <2>2. \E new \in [0..Len(Ring(buffer, LineOf(data))) -> 0..Len(out)] :
          Cuts(new, out, Ring(buffer, LineOf(data)), SubSeq(out, k + 1, Len(out)))
    BY <1>2, <1>4, <1>7, <2>1, EntryMore
  <2> QED  BY <2>2 DEF k
<1> QED  BY <1>3, <1>6, <1>9 DEF Shown

LEMMA EndChunkIsShown ==
  ASSUME SerialTypeOK, NEW c \in Collectors, Shown(c), EndChunk(c)
  PROVE  Shown(c)'
<1> DEFINE out == heard[c]
           data == collector[c].data
           buffer == collector[c].buffer
<1>1. /\ Ends(data) = {}
      /\ collector' = [collector EXCEPT ![c] =
           IF Len(data) > MAX_LINE_BYTES
             THEN Moved([collector[c] EXCEPT !.buffer = Ring(buffer, data), !.data = <<>>], Continue(c))
             ELSE Moved(collector[c], Continue(c))]
      /\ heard' = heard
  BY DEF EndChunk, Set
<1>2. /\ out \in Seq(Characters) /\ data \in Seq(Characters)
      /\ buffer \in Seq(Seq(Letters)) /\ Len(buffer) <= MAX_LINES
  BY DEF SerialTypeOK, CollectorStates, Bounded
<1>3. CASE ~(Len(data) > MAX_LINE_BYTES)
  <2>1. /\ collector'[c].buffer = collector[c].buffer /\ collector'[c].data = collector[c].data
        /\ heard'[c] = heard[c]
    BY <1>1, <1>3 DEF SerialTypeOK, CollectorStates, Moved
  <2> QED  BY <2>1, SameIsShown
<1>4. CASE Len(data) > MAX_LINE_BYTES
  <2>1. /\ collector'[c].buffer = Ring(buffer, data) /\ collector'[c].data = <<>>
        /\ heard'[c] = out
    BY <1>1, <1>4 DEF SerialTypeOK, CollectorStates, Moved
  <2>2. PICK cut \in [0..Len(buffer) -> 0..Len(out)] : Cuts(cut, out, buffer, data)
    BY DEF Shown
  <2> HIDE DEF out, data, buffer
  <2>3. /\ Len(out) \in 0..Len(out) /\ SubSeq(out, cut[Len(buffer)] + 1, Len(out)) = data
        /\ SubSeq(out, Len(out) + 1, Len(out)) = <<>>
    BY <1>2, <2>2, AllBehind
  <2>4. data \in Seq(Letters)
    BY <1>1, <1>2, NoEnds
  <2>5. EntryOf(data, SubSeq(out, cut[Len(buffer)] + 1, Len(out)))
    BY <1>4, <2>3 DEF EntryOf
  <2>6. \E new \in [0..Len(Ring(buffer, data)) -> 0..Len(out)] :
          Cuts(new, out, Ring(buffer, data), SubSeq(out, Len(out) + 1, Len(out)))
    BY <1>2, <2>2, <2>3, <2>4, <2>5, EntryMore
  <2> QED  BY <2>1, <2>3, <2>6 DEF Shown
<1> QED  BY <1>3, <1>4

\* However the output of a VM is cut into chunks and connections, and whenever the
\* entries are asked for: they are the last lines heard, whole and in order.
THEOREM CaptureIsFaithful == SerialSpec => []CapturedIsHeard
<1>1. SerialInit => CapturedIsHeard
  <2> SUFFICES ASSUME SerialInit, NEW c \in Collectors PROVE Shown(c)
    BY DEF CapturedIsHeard, Shown
  <2>1. heard[c] = <<>> /\ collector[c].buffer = <<>> /\ collector[c].data = <<>>
    BY DEF SerialInit, Unborn
  <2>2. Len(<<>>) = 0 /\ SubSeq(<<>>, 0 + 1, 0) = <<>>
    BY EmptySeq, SubSeqEmpty
  <2> DEFINE cut == [i \in {0} |-> 0]
  <2>3. cut \in [0..0 -> 0..0] /\ cut[0] = 0
    OBVIOUS
  <2> HIDE DEF cut
  <2>4. Cuts(cut, <<>>, <<>>, <<>>)
    BY <2>2, <2>3 DEF Cuts, Boundary
  <2> QED  BY <2>1, <2>2, <2>3, <2>4 DEF Shown
<1>2. ASSUME OneInv, CapturedIsHeard, [SerialNext]_serialVars PROVE CapturedIsHeard'
  <2>0. SerialTypeOK
    BY <1>2 DEF OneInv
  <2> SUFFICES ASSUME NEW c \in Collectors PROVE Shown(c)'
    BY DEF CapturedIsHeard, Shown
  <2>1. Shown(c)
    BY <1>2 DEF CapturedIsHeard, Shown
  <2>2. ASSUME NEW d \in Collectors, Collect(d), d # c PROVE Shown(c)'
    <3>1. collector'[c] = collector[c] /\ heard'[c] = heard[c]
      BY <2>0, <2>2, CollectMoves
    <3> QED  BY <2>1, <3>1, SameIsShown
  <2>3. ASSUME NEW place \in Alive \cup {"ended"}, Moves(c, place), UNCHANGED heard PROVE Shown(c)'
    <3>1. /\ collector'[c].buffer = collector[c].buffer /\ collector'[c].data = collector[c].data
          /\ heard'[c] = heard[c]
      BY <2>0, <2>3, MoveKeeps
    <3> QED  BY <2>1, <3>1, SameIsShown
  <2>4. CASE Collect(c)
    <3>1. CASE Look(c)
      BY <2>3, <3>1 DEF Look, Moves, Alive
    <3>2. CASE Sleep(c)
      BY <2>3, <3>2 DEF Sleep, Moves, Alive
    <3>3. CASE Connect(c)
      BY <2>3, <3>3 DEF Connect, Continue, Moves, Alive
    <3>4. CASE RecvNothing(c)
      BY <2>3, <3>4 DEF RecvNothing, Continue, Moves, Alive
    <3>5. CASE Recv(c)
      BY <2>0, <2>1, <3>5, RecvIsShown
    <3>6. CASE CutLine(c)
      BY <2>0, <2>1, <3>6, CutLineIsShown
    <3>7. CASE EndChunk(c)
      BY <2>0, <2>1, <3>7, EndChunkIsShown
    <3> QED  BY <2>4, <3>1, <3>2, <3>3, <3>4, <3>5, <3>6, <3>7 DEF Collect, Proceed
  <2>5. ASSUME NEW p \in Ports, Ensure(p) PROVE Shown(c)'
    <3>1. PICK d \in Collectors :
            /\ collector[d].at = "unborn"
            /\ collector' = [collector EXCEPT ![d] = [Unborn EXCEPT !.port = {p}, !.at = "look"]]
      BY <2>5 DEF Ensure, Set
    <3>2. collector'[c].data = collector[c].data /\ collector'[c].buffer = collector[c].buffer
      <4>1. CASE c # d
        BY <2>0, <3>1, <4>1 DEF SerialTypeOK
      <4>2. CASE c = d
        <5>1. collector[c].data = <<>> /\ collector[c].buffer = <<>>
          BY <1>2, <3>1, <4>2 DEF OneInv, Unstarted
        <5>2. collector'[c].data = <<>> /\ collector'[c].buffer = <<>>
          BY <2>0, <3>1, <4>2 DEF SerialTypeOK, Unborn
        <5> QED  BY <5>1, <5>2
      <4> QED  BY <4>1, <4>2
    <3>3. heard' = heard
      BY <2>5 DEF Ensure
    <3> QED  BY <2>1, <3>2, <3>3, SameIsShown
  <2>6. CASE StopAll
    <3> DEFINE stop == collector[c].stop \/ \E p \in Ports : collectors[p] = c
    <3>1. collector'[c] = [collector[c] EXCEPT !.stop = stop] /\ heard' = heard
      BY <2>6 DEF StopAll
    <3>2. collector[c] \in CollectorStates
      BY <2>0 DEF SerialTypeOK
    <3> HIDE DEF stop
    <3>3. collector'[c].data = collector[c].data /\ collector'[c].buffer = collector[c].buffer
      BY <3>1, <3>2 DEF CollectorStates
    <3> QED  BY <2>1, <3>1, <3>3, SameIsShown
  <2>7. ASSUME NEW p \in Ports, PowerChange(p) PROVE Shown(c)'
    <3>1. UNCHANGED heard
      BY <2>7 DEF PowerChange
    <3> QED  BY <2>0, <2>1, <2>7, <3>1, PowerKeeps, SameIsShown
  <2>8. CASE UNCHANGED serialVars
    BY <2>1, <2>8, SameIsShown DEF serialVars
  <2> QED  BY <1>2, <2>2, <2>4, <2>5, <2>6, <2>7, <2>8 DEF SerialNext
<1> QED  BY <1>1, <1>2, InitOne, StepKeepsOne, PTL DEF SerialSpec
===============================================================================
