---------------------------- MODULE TcpLinkProofs -----------------------------
(***************************************************************************)
(* The TCP transport, for any number of senders, connections and frames    *)
(* and any sizes: type correctness, and that framing holds.                *)
(*                                                                         *)
(* Type correctness needs two facts of its own: who writes has a payload,  *)
(* and a camera that ended may connect again.                              *)
(*                                                                         *)
(* Framing needs to know where frames end in the stream.  Ends is said of  *)
(* a function that gives, after each payload begun on a connection, the    *)
(* number of cells written up to there; the cells recv has not consumed    *)
(* are then the ones after the payloads it returned (Aligned), all of them *)
(* (Whole), or all but the body of the last (Started).  Lemmas about       *)
(* sequences say what each write, loss and recv does to that; the          *)
(* invariant says it of every undisturbed connection.                      *)
(***************************************************************************)
EXTENDS TcpLink, SequenceTheorems, TLAPS

Cell == 0..TooLarge

\* A sender that is not idle sends a payload.
WritersHaveFrames == \A s \in Senders : pc[s] # "idle" => frame[s] \in Payload

\* A camera ends only when there is a connection left for the next.
EndedMayConnect == up = FALSE => cam < Conns

\* TypeOK in parts: the flags, the camera's side, the streams, the ground's side.
Flags == slow \in BOOLEAN /\ up \in BOOLEAN

CameraType ==
  /\ pc \in [Senders -> {"idle", "prefix", "body"}]
  /\ frame \in [Senders -> Seq(Nat)]
  /\ begun \in 0..Frames
  /\ cam \in ConnIds
  /\ gnd \in 1..cam
  /\ WritersHaveFrames
  /\ EndedMayConnect

StreamType ==
  /\ wire \in [ConnIds -> Seq(Cell)]
  /\ link \in [ConnIds -> {"none", "open", "closed", "reset"}]
  /\ read_buf \in Seq(Cell)
  /\ rx \in {"recv", "reconnect"}
  /\ disturbed \subseteq ConnIds

HistoryType ==
  /\ written \in [ConnIds -> Seq(Payload)]
  /\ got \in [ConnIds -> Seq(Seq(Cell))]

IInv == Flags /\ CameraType /\ StreamType /\ HistoryType

LEMMA Constants ==
  /\ MaxLen \in Nat /\ MaxLen > 0 /\ TooLarge = MaxLen + 1
  /\ Inner \subseteq Cell
  /\ Conns \in Nat /\ Conns > 0 /\ ReadMax \in Nat /\ Frames \in Nat
  BY TcpAssumption DEF TooLarge, Cell

\* A payload is a sequence of cells, and its length is one that recv accepts.
LEMMA PayloadType ==
  ASSUME NEW p \in Payload
  PROVE  p \in Seq(Cell) /\ p \in Seq(Nat) /\ Len(p) \in 1..MaxLen
<1>1. PICK n \in 0..MaxLen - 1 : \E rest \in [1..n -> Inner] : p = <<TooLarge>> \o rest
  BY DEF Payload
<1>2. PICK rest \in [1..n -> Inner] : p = <<TooLarge>> \o rest
  BY <1>1
<1>3. n \in Nat /\ n + 1 \in 1..MaxLen
  BY Constants
<1>4. rest \in [1..n -> Cell]
  BY Constants
<1>5. rest \in Seq(Cell) /\ Len(rest) = n
  BY <1>3, <1>4, SeqDef
<1>6. <<TooLarge>> \in Seq(Cell) /\ Len(<<TooLarge>>) = 1
  BY Constants DEF Cell
<1>7. p \in Seq(Cell) /\ Len(p) = n + 1
  BY <1>2, <1>5, <1>6, <1>3, ConcatProperties
<1>8. Cell \subseteq Nat
  BY Constants DEF Cell
<1>9. QED
  BY <1>3, <1>7, <1>8, SeqMonotonic

\* So is what a sender writes in one call.
LEMMA CellsType ==
  ASSUME CameraType, NEW s \in Senders, pc[s] # "idle"
  PROVE  Cells(s) \in Seq(Cell) /\ frame[s] \in Payload
<1>1. frame[s] \in Payload
  BY DEF CameraType, WritersHaveFrames
<1>2. frame[s] \in Seq(Cell) /\ Len(frame[s]) \in Cell
  BY <1>1, PayloadType, Constants DEF Cell
<1>3. QED
  BY <1>1, <1>2 DEF Cells

\* A part of a sequence is a sequence.
LEMMA PartType ==
  ASSUME NEW S, NEW q \in Seq(S), NEW m \in Int, NEW n \in Int, m >= 1, n <= Len(q)
  PROVE  SubSeq(q, m, n) \in Seq(S)
<1>1. \A i \in m..n : q[i] \in S
  BY ElementOfSeq
<1>2. QED
  BY <1>1, SubSeqProperties

LEMMA Initially == Init => IInv
<1> SUFFICES ASSUME Init PROVE IInv
  OBVIOUS
<1>1. Flags
  BY DEF Init, Flags
<1>2. CameraType
  BY Constants DEF Init, CameraType, WritersHaveFrames, EndedMayConnect, ConnIds
<1>3. StreamType /\ HistoryType
  BY DEF Init, StreamType, HistoryType
<1>4. QED
  BY <1>1, <1>2, <1>3 DEF IInv

LEMMA FlagsKept == Flags /\ [Next]_vars => Flags'
<1> USE DEF Flags, camera, ground, vars
<1>1. Flags /\ Camera => Flags'
  BY Zenon DEF Camera, SendBegins, Write, WriteFails
<1>2. Flags /\ World => Flags'
  BY Zenon DEF World, LinkLost, CameraEnds, CameraConnects
<1>3. Flags /\ Ground => Flags'
  BY Zenon DEF Ground, Dispatcher, SendTakesError, RecvFrame, RecvOversize, RecvRead, RecvError, Reconnect
<1>4. QED
  BY Zenon, <1>1, <1>2, <1>3 DEF Next

LEMMA CameraTypeKept == Flags /\ CameraType /\ [Next]_vars => CameraType'
<1> SUFFICES ASSUME Flags, CameraType, [Next]_vars PROVE CameraType'
  OBVIOUS
<1> USE Constants DEF camera, ground, ConnIds
<1>1. ASSUME NEW s \in Senders, SendBegins(s) PROVE CameraType'
  <2>1. PICK p \in Payload : frame' = [frame EXCEPT ![s] = p]
    BY <1>1 DEF SendBegins
  <2>2. frame' \in [Senders -> Seq(Nat)]
    BY <2>1, PayloadType DEF CameraType
  <2>3. begun' \in 0..Frames /\ pc' \in [Senders -> {"idle", "prefix", "body"}]
    BY <1>1 DEF SendBegins, CameraType
  <2>4. WritersHaveFrames'
    BY <1>1, <2>1 DEF SendBegins, CameraType, WritersHaveFrames
  <2>5. EndedMayConnect' /\ UNCHANGED <<cam, gnd>>
    BY <1>1 DEF SendBegins, CameraType, EndedMayConnect
  <2>6. QED
    BY <2>2, <2>3, <2>4, <2>5 DEF CameraType
<1>2. ASSUME NEW s \in Senders, Write(s) \/ WriteFails(s) PROVE CameraType'
  <2>1. /\ pc' \in [Senders -> {"idle", "prefix", "body"}]
        /\ \A t \in Senders : pc'[t] # "idle" => pc[t] # "idle"
        /\ UNCHANGED <<frame, begun, cam, gnd, up>>
    BY <1>2 DEF Write, WriteFails, CameraType
  <2>2. WritersHaveFrames' /\ EndedMayConnect'
    BY <2>1 DEF CameraType, WritersHaveFrames, EndedMayConnect
  <2>3. QED
    BY <2>1, <2>2 DEF CameraType
<1>3. CASE CameraEnds
  BY <1>3 DEF CameraEnds, CameraType, WritersHaveFrames, EndedMayConnect
<1>4. CASE CameraConnects
  <2>1. up = FALSE /\ cam' = cam + 1 /\ up' = TRUE /\ UNCHANGED <<pc, frame, begun, gnd>>
    BY <1>4 DEF CameraConnects, Flags
  <2>2. QED
    BY <2>1 DEF CameraType, WritersHaveFrames, EndedMayConnect
<1>5. CASE Reconnect
  BY <1>5 DEF Reconnect, CameraType, WritersHaveFrames, EndedMayConnect
<1>6. CASE UNCHANGED <<pc, frame, begun, cam, gnd, up>>
  BY <1>6 DEF CameraType, WritersHaveFrames, EndedMayConnect
<1>7. QED
  BY <1>1, <1>2, <1>3, <1>4, <1>5, <1>6
     DEF Next, Camera, World, LinkLost, Ground, Dispatcher, SendTakesError, RecvFrame,
         RecvOversize, RecvRead, RecvError, vars

LEMMA StreamTypeKept == CameraType /\ StreamType /\ [Next]_vars => StreamType'
<1> SUFFICES ASSUME CameraType, StreamType, [Next]_vars PROVE StreamType'
  OBVIOUS
<1> USE Constants DEF camera, ground
<1>0. cam \in ConnIds /\ gnd \in ConnIds /\ wire[cam] \in Seq(Cell) /\ wire[gnd] \in Seq(Cell)
  BY DEF CameraType, StreamType, ConnIds
<1>1. ASSUME NEW s \in Senders, SendBegins(s) PROVE StreamType'
  BY <1>1 DEF SendBegins, StreamType
<1>2. ASSUME NEW s \in Senders, Write(s) PROVE StreamType'
  <2>1. wire[cam] \o Cells(s) \in Seq(Cell)
    BY <1>0, <1>2, CellsType, ConcatProperties DEF Write
  <2>2. wire' \in [ConnIds -> Seq(Cell)]
    BY <1>0, <1>2, <2>1 DEF Write, StreamType
  <2>3. disturbed' \subseteq ConnIds
    BY <1>0, <1>2 DEF Write, StreamType
  <2>4. QED
    BY <1>2, <2>2, <2>3 DEF Write, StreamType
<1>3. ASSUME NEW s \in Senders, WriteFails(s) PROVE StreamType'
  <2>1. PICK n \in 0..Len(Cells(s)) - 1 :
          /\ wire' = [wire EXCEPT ![cam] = @ \o SubSeq(Cells(s), 1, n)]
          /\ disturbed' = disturbed \cup IF pc[s] = "body" \/ n > 0 THEN {cam} ELSE {}
    BY <1>3 DEF WriteFails
  <2>2. Cells(s) \in Seq(Cell)
    BY <1>3, CellsType DEF WriteFails
  <2>3. SubSeq(Cells(s), 1, n) \in Seq(Cell)
    <3>1. Len(Cells(s)) \in Nat
      BY <2>2
    <3>2. n \in Int /\ n <= Len(Cells(s))
      BY <3>1
    <3>3. QED
      BY <2>2, <3>2, PartType
  <2>4. wire[cam] \o SubSeq(Cells(s), 1, n) \in Seq(Cell)
    BY <1>0, <2>3, ConcatProperties
  <2>5. wire' \in [ConnIds -> Seq(Cell)] /\ disturbed' \subseteq ConnIds
    BY <1>0, <2>1, <2>4 DEF StreamType
  <2>6. QED
    BY <1>3, <2>5 DEF WriteFails, StreamType
<1>4. CASE LinkLost
  <2>1. PICK n \in 0..Len(wire[cam]) : wire' = [wire EXCEPT ![cam] = SubSeq(@, 1, n)]
    BY <1>4 DEF LinkLost
  <2>2. SubSeq(wire[cam], 1, n) \in Seq(Cell)
    <3>1. Len(wire[cam]) \in Nat
      BY <1>0
    <3>2. n \in Int /\ n <= Len(wire[cam])
      BY <3>1
    <3>3. QED
      BY <1>0, <3>2, PartType
  <2>3. wire' \in [ConnIds -> Seq(Cell)]
    BY <1>0, <2>1, <2>2 DEF StreamType
  <2>4. QED
    BY <1>0, <1>4, <2>3 DEF LinkLost, StreamType
<1>5. CASE CameraEnds \/ CameraConnects
  <2>1. link' \in [ConnIds -> {"none", "open", "closed", "reset"}]
    BY <1>0, <1>5 DEF CameraEnds, CameraConnects, StreamType
  <2>2. QED
    BY <1>5, <2>1 DEF CameraEnds, CameraConnects, StreamType
<1>6. CASE RecvFrame
  <2>1. read_buf # <<>> /\ read_buf \in Seq(Cell) /\ Len(read_buf) \in Nat
        /\ Len(read_buf) > read_buf[1]
    BY <1>6 DEF RecvFrame, HasFrame, StreamType
  <2>2. read_buf[1] \in Cell
    BY <2>1
  <2>3. read_buf[1] + 2 \in Int /\ read_buf[1] + 2 >= 1
    BY <2>2 DEF Cell
  <2>4. read_buf' \in Seq(Cell)
    BY <1>6, <2>1, <2>3, PartType DEF RecvFrame
  <2>5. QED
    BY <1>6, <2>4 DEF RecvFrame, StreamType
<1>7. CASE RecvOversize
  BY <1>7 DEF RecvOversize, StreamType
<1>8. CASE RecvRead
  <2>1. PICK n \in 1..Len(wire[gnd]) :
          /\ read_buf' = read_buf \o SubSeq(wire[gnd], 1, n)
          /\ wire' = [wire EXCEPT ![gnd] = SubSeq(@, n + 1, Len(@))]
    BY <1>8 DEF RecvRead
  <2>2. Len(wire[gnd]) \in Nat /\ n \in Int /\ n <= Len(wire[gnd]) /\ n + 1 >= 1
    BY <1>0
  <2>3. SubSeq(wire[gnd], 1, n) \in Seq(Cell) /\ SubSeq(wire[gnd], n + 1, Len(wire[gnd])) \in Seq(Cell)
    BY <1>0, <2>2, PartType
  <2>4. read_buf' \in Seq(Cell)
    BY <2>1, <2>3, ConcatProperties DEF StreamType
  <2>5. wire' \in [ConnIds -> Seq(Cell)]
    BY <1>0, <2>1, <2>3 DEF StreamType
  <2>6. QED
    BY <1>8, <2>4, <2>5 DEF RecvRead, StreamType
<1>9. CASE RecvError \/ SendTakesError
  <2>1. link' \in [ConnIds -> {"none", "open", "closed", "reset"}]
    BY <1>0, <1>9 DEF RecvError, SendTakesError, StreamType
  <2>2. QED
    BY <1>9, <2>1 DEF RecvError, SendTakesError, StreamType
<1>10. CASE Reconnect
  <2>1. gnd + 1 \in ConnIds
    BY <1>10 DEF Reconnect, CameraType, ConnIds
  <2>2. QED
    BY <1>10, <2>1 DEF Reconnect, StreamType
<1>11. CASE UNCHANGED vars
  BY <1>11 DEF vars, StreamType
<1>12. QED
  BY <1>1, <1>2, <1>3, <1>4, <1>5, <1>6, <1>7, <1>8, <1>9, <1>10, <1>11
     DEF Next, Camera, World, Ground, Dispatcher

LEMMA HistoryTypeKept == CameraType /\ StreamType /\ HistoryType /\ [Next]_vars => HistoryType'
<1> SUFFICES ASSUME CameraType, StreamType, HistoryType, [Next]_vars PROVE HistoryType'
  OBVIOUS
<1> USE DEF camera, ground
<1>0. cam \in ConnIds /\ gnd \in ConnIds
  BY Constants DEF CameraType, ConnIds
<1>1. ASSUME NEW s \in Senders, Write(s) PROVE HistoryType'
  <2>1. frame[s] \in Payload
    BY <1>1, CellsType DEF Write
  <2>2. Append(written[cam], frame[s]) \in Seq(Payload)
    BY <1>0, <2>1, AppendProperties DEF HistoryType
  <2>3. written' \in [ConnIds -> Seq(Payload)]
    BY <1>0, <1>1, <2>2 DEF Write, HistoryType
  <2>4. QED
    BY <1>1, <2>3 DEF Write, HistoryType
<1>2. CASE RecvFrame
  <2>1. read_buf # <<>> /\ read_buf \in Seq(Cell) /\ Len(read_buf) \in Nat
        /\ Len(read_buf) > read_buf[1]
    BY <1>2 DEF RecvFrame, HasFrame, StreamType
  <2>2. read_buf[1] \in Cell
    BY <2>1
  <2>3. read_buf[1] + 1 \in Int /\ read_buf[1] + 1 <= Len(read_buf)
    BY <2>1, <2>2, Constants DEF Cell
  <2>4. SubSeq(read_buf, 2, read_buf[1] + 1) \in Seq(Cell)
    BY <2>1, <2>3, PartType
  <2>5. Append(got[gnd], SubSeq(read_buf, 2, read_buf[1] + 1)) \in Seq(Seq(Cell))
    BY <1>0, <2>4, AppendProperties DEF HistoryType
  <2>6. got' \in [ConnIds -> Seq(Seq(Cell))]
    BY <1>0, <1>2, <2>5 DEF RecvFrame, HistoryType
  <2>7. QED
    BY <1>2, <2>6 DEF RecvFrame, HistoryType
<1>3. CASE UNCHANGED <<written, got>>
  BY <1>3 DEF HistoryType
<1>4. QED
  BY <1>1, <1>2, <1>3
     DEF Next, Camera, SendBegins, WriteFails, World, LinkLost, CameraEnds, CameraConnects,
         Ground, Dispatcher, SendTakesError, RecvOversize, RecvRead, RecvError, Reconnect, vars

LEMMA TypesKept == IInv /\ [Next]_vars => IInv'
  BY FlagsKept, CameraTypeKept, StreamTypeKept, HistoryTypeKept DEF IInv

\* Every variable keeps its type: the ground never takes up a connection the camera
\* has not made, and all that travels are cells.
THEOREM TypeCorrect == Spec => []TypeOK
<1>1. IInv /\ [Next]_vars => IInv'
  BY TypesKept
<1>2. IInv => TypeOK
  BY Zenon DEF IInv, Flags, CameraType, StreamType, HistoryType, TypeOK, Cell
<1>3. QED
  BY <1>1, <1>2, Initially, PTL DEF Spec

-----------------------------------------------------------------------------
(* Frames in a stream.                                                     *)

\* The stream of w, frame after frame, ends its i-th frame after e[i] cells.
Ends(e, w) ==
  /\ e \in [0..Len(w) -> Nat]
  /\ \A i \in 1..Len(w) : e[i] = e[i - 1] + Len(w[i]) + 1
  /\ \A i, j \in 0..Len(w) : i < j => e[i] < e[j]

\* After off cells, q carries the prefix and the body of p, as far as it goes.
Carries(q, off, p) ==
  \A j \in 0..Len(p) :
    off + j + 1 \in 1..Len(q) => q[off + j + 1] = IF j = 0 THEN Len(p) ELSE p[j]

\* q carries, from their start, the payloads of w after the k-th.
Aligned(q, w, k, e) ==
  /\ Ends(e, w)
  /\ k \in 0..Len(w)
  /\ e[k] + Len(q) <= e[Len(w)]
  /\ \A i \in k + 1..Len(w) : Carries(q, e[i - 1] - e[k], w[i])

\* All of them.
Whole(q, w, k, e) == Aligned(q, w, k, e) /\ e[k] + Len(q) = e[Len(w)]

\* All but the body of the last.
Started(q, w, k, e) ==
  Aligned(q, w, k, e) /\ Len(w) > 0 /\ e[k] + Len(q) + Len(w[Len(w)]) = e[Len(w)]

\* The cells of a connection that recv has not consumed.
Stream(c) == IF c = gnd THEN read_buf \o wire[c] ELSE wire[c]

\* Nobody writes, and the connection carries all; or one sender does, and all but
\* the payload it is about to write.
Complete(c, e) ==
  \/ /\ \A s \in Senders : pc[s] # "body"
     /\ Whole(Stream(c), written[c], Len(got[c]), e)
  \/ \E s \in Senders :
       /\ pc[s] = "body" /\ ~AnotherInFrame(s)
       /\ Started(Stream(c), written[c], Len(got[c]), e)
       /\ frame[s] = written[c][Len(written[c])]

\* What recv returned is what was begun first, and the rest follows in order.
Framed(c) ==
  /\ IsPrefix(got[c], written[c])
  /\ c >= gnd =>
       \E e : /\ Aligned(Stream(c), written[c], Len(got[c]), e)
              /\ c = cam /\ link[c] = "open" => Complete(c, e)

\* A connection not yet made is empty, and one not yet accepted has returned
\* nothing; a camera that ended has no sender and no open connection.
Untouched ==
  /\ \A c \in ConnIds : c > cam => wire[c] = <<>> /\ written[c] = <<>>
  /\ \A c \in ConnIds : c > gnd => got[c] = <<>>
  /\ up = FALSE => link[cam] # "open" /\ \A s \in Senders : pc[s] = "idle"

FramingInv == Untouched /\ \A c \in ConnIds \ disturbed : Framed(c)

-----------------------------------------------------------------------------
(* What writes, losses and reads do to a stream.                           *)

LEMMA PayloadOf ==
  ASSUME NEW w \in Seq(Payload), NEW i \in 1..Len(w)
  PROVE  w[i] \in Seq(Cell) /\ Len(w[i]) \in Nat /\ Len(w[i]) > 0 /\ Len(w[i]) \in Cell
<1>1. w[i] \in Payload
  BY ElementOfSeq
<1>2. w[i] \in Seq(Cell) /\ Len(w[i]) \in 1..MaxLen
  BY <1>1, PayloadType
<1>3. QED
  BY <1>2, Constants DEF Cell

LEMMA AlignedFacts ==
  ASSUME NEW q \in Seq(Cell), NEW w \in Seq(Payload), NEW k, NEW e, Aligned(q, w, k, e)
  PROVE  /\ Len(w) \in Nat /\ Len(q) \in Nat /\ k \in 0..Len(w) /\ Ends(e, w)
         /\ \A i \in 0..Len(w) : e[i] \in Nat
         /\ \A i \in 0..Len(w) - 1 : e[i + 1] = e[i] + Len(w[i + 1]) + 1
         /\ \A i \in k..Len(w) - 1 : Carries(q, e[i] - e[k], w[i + 1])
<1>1. Len(w) \in Nat /\ Len(q) \in Nat /\ k \in 0..Len(w) /\ Ends(e, w)
  BY LenProperties DEF Aligned
<1>2. \A i \in 0..Len(w) : e[i] \in Nat
  BY <1>1 DEF Ends
<1>3. ASSUME NEW i \in 0..Len(w) - 1
      PROVE  /\ e[i + 1] = e[i] + Len(w[i + 1]) + 1
             /\ i >= k => Carries(q, e[i] - e[k], w[i + 1])
  <2>1. (i + 1) - 1 = i /\ i + 1 \in 1..Len(w) /\ (i >= k => i + 1 \in k + 1..Len(w))
    BY <1>1
  <2>2. e[i + 1] = e[(i + 1) - 1] + Len(w[i + 1]) + 1
    BY <1>1, <2>1 DEF Ends
  <2>3. i >= k => Carries(q, e[(i + 1) - 1] - e[k], w[i + 1])
    BY <2>1 DEF Aligned
  <2>4. QED
    BY <2>1, <2>2, <2>3
<1>4. QED
  BY <1>1, <1>2, <1>3

\* What is not consumed begins with the length of the next payload.
LEMMA FirstCell ==
  ASSUME NEW q \in Seq(Cell), NEW w \in Seq(Payload), NEW k, NEW e,
         Aligned(q, w, k, e), Len(q) > 0
  PROVE  k + 1 \in 1..Len(w) /\ q[1] = Len(w[k + 1]) /\ e[k + 1] = e[k] + q[1] + 1
<1>1. Len(w) \in Nat /\ Len(q) \in Nat /\ k \in 0..Len(w)
  BY AlignedFacts
<1>2. k + 1 \in 1..Len(w)
  <2>1. k # Len(w)
    BY <1>1 DEF Aligned, Ends
  <2>2. QED
    BY <1>1, <2>1
<1>3. /\ Carries(q, e[k] - e[k], w[k + 1]) /\ e[k] \in Nat
      /\ e[k + 1] = e[k] + Len(w[k + 1]) + 1
  BY <1>1, <1>2, AlignedFacts
<1>4. Len(w[k + 1]) \in Nat
  BY <1>2, PayloadOf
<1>5. 0 \in 0..Len(w[k + 1]) /\ e[k] - e[k] + 0 + 1 = 1 /\ 1 \in 1..Len(q)
  BY <1>1, <1>3, <1>4
<1>6. q[1] = Len(w[k + 1])
  BY <1>3, <1>5 DEF Carries
<1>7. QED
  BY <1>2, <1>3, <1>6

\* Once its body is there, recv takes exactly that payload, and leaves the
\* stream at the start of the one after it.
LEMMA FrameTaken ==
  ASSUME NEW q \in Seq(Cell), NEW w \in Seq(Payload), NEW k, NEW e,
         Aligned(q, w, k, e), Len(q) > 0, Len(q) > q[1],
         NEW r, r = SubSeq(q, q[1] + 2, Len(q))
  PROVE  /\ k + 1 \in 1..Len(w) /\ SubSeq(q, 2, q[1] + 1) = w[k + 1]
         /\ Aligned(r, w, k + 1, e)
         /\ Whole(q, w, k, e) => Whole(r, w, k + 1, e)
         /\ Started(q, w, k, e) => Started(r, w, k + 1, e)
<1> DEFINE n == Len(w[k + 1])
<1>1. k + 1 \in 1..Len(w) /\ q[1] = n /\ e[k + 1] = e[k] + n + 1
  BY FirstCell
<1>2. w[k + 1] \in Seq(Cell) /\ n \in Nat /\ n > 0
  BY <1>1, PayloadOf
<1>3. /\ Len(w) \in Nat /\ Len(q) \in Nat /\ k \in 0..Len(w)
      /\ \A i \in 0..Len(w) : e[i] \in Nat
      /\ Ends(e, w)
  BY AlignedFacts
<1> HIDE DEF n
<1>4. SubSeq(q, 2, n + 1) = w[k + 1]
  <2>1. \A i \in 2..n + 1 : q[i] \in Cell
    BY <1>1, <1>2, <1>3, ElementOfSeq
  <2>2. /\ SubSeq(q, 2, n + 1) \in Seq(Cell)
        /\ Len(SubSeq(q, 2, n + 1)) = n
        /\ \A i \in 1..n : SubSeq(q, 2, n + 1)[i] = q[i + 1]
    BY <1>2, <2>1, SubSeqProperties
  <2>3. ASSUME NEW i \in 1..n PROVE q[i + 1] = w[k + 1][i]
    <3>1. Carries(q, e[k] - e[k], w[k + 1]) /\ e[k] \in Nat
      BY <1>1, <1>3, AlignedFacts
    <3>2. e[k] - e[k] + i + 1 = i + 1 /\ i + 1 \in 1..Len(q) /\ i \in 0..n /\ i # 0
      BY <1>1, <1>2, <1>3
    <3>3. QED
      BY <3>1, <3>2 DEF Carries, n
  <2>4. QED
    BY <1>2, <2>2, <2>3, SeqEqual DEF n
<1>5. /\ r \in Seq(Cell) /\ Len(r) = Len(q) - n - 1
      /\ \A i \in 1..Len(r) : r[i] = q[n + 1 + i]
  <2>1. \A i \in n + 2..Len(q) : q[i] \in Cell
    BY <1>2, <1>3, ElementOfSeq
  <2>2. QED
    BY <1>1, <1>2, <1>3, <2>1, SubSeqProperties
<1>6. e[k] \in Nat /\ e[k + 1] \in Nat /\ e[k + 1] + Len(r) = e[k] + Len(q)
  <2>1. k + 1 \in 0..Len(w)
    BY <1>1, <1>3
  <2>2. e[k] \in Nat /\ e[k + 1] \in Nat
    BY <1>3, <2>1
  <2>. DEFINE x == e[k]
              y == e[k + 1]
  <2>3. x \in Nat /\ y \in Nat /\ y = x + n + 1
    BY <1>1, <2>2
  <2>. HIDE DEF x, y
  <2>4. y + Len(r) = x + Len(q)
    <3>1. \A a, b, l, m \in Nat : b = a + n + 1 /\ m = l - n - 1 => b + m = a + l
      BY <1>2
    <3>2. Len(r) \in Nat
      BY <1>5, LenProperties
    <3>3. QED
      BY <1>3, <1>5, <2>3, <3>1, <3>2
  <2>5. QED
    BY <2>2, <2>4 DEF x, y
<1>7. ASSUME NEW i \in k + 2..Len(w)
      PROVE  Carries(r, e[i - 1] - e[k + 1], w[i])
  <2>1. i \in k + 1..Len(w) /\ i \in 1..Len(w) /\ i - 1 \in 0..Len(w)
    BY <1>1, <1>3
  <2>2. Carries(q, e[i - 1] - e[k], w[i]) /\ Len(w[i]) \in Nat
    BY <2>1, PayloadOf DEF Aligned
  <2>3. e[i - 1] \in Nat /\ e[k + 1] <= e[i - 1]
    <3>1. k + 1 \in 0..Len(w) /\ (k + 1 = i - 1 \/ k + 1 < i - 1)
      BY <1>1, <1>3, <2>1
    <3>2. k + 1 < i - 1 => e[k + 1] < e[i - 1]
      BY <1>3, <2>1, <3>1 DEF Ends
    <3>3. e[i - 1] \in Nat
      BY <1>3, <2>1
    <3>4. CASE k + 1 = i - 1
      BY <1>6, <3>3, <3>4
    <3>5. CASE k + 1 < i - 1
      BY <1>6, <3>3, <3>2, <3>5
    <3>6. QED
      BY <3>1, <3>3, <3>4, <3>5
  <2>. DEFINE x == e[i - 1]
              y == e[k + 1]
              z == e[k]
  <2>5. x \in Nat /\ y \in Nat /\ z \in Nat /\ y <= x /\ y = z + n + 1
    BY <1>1, <1>6, <2>3
  <2>. HIDE DEF x, y, z
  <2>4. ASSUME NEW j \in 0..Len(w[i]), e[i - 1] - e[k + 1] + j + 1 \in 1..Len(r)
        PROVE  r[e[i - 1] - e[k + 1] + j + 1] = IF j = 0 THEN Len(w[i]) ELSE w[i][j]
    <3>1. r[e[i - 1] - e[k + 1] + j + 1] = q[n + 1 + (e[i - 1] - e[k + 1] + j + 1)]
      BY <1>5, <2>4
    <3>2. n + 1 + (e[i - 1] - e[k + 1] + j + 1) = e[i - 1] - e[k] + j + 1
      <4>1. j \in Nat
        BY <2>2
      <4>2. n + 1 + (x - y + j + 1) = x - z + j + 1
        BY <1>2, <2>5, <4>1
      <4>3. QED
        BY <4>2 DEF x, y, z
    <3>3. e[i - 1] - e[k] + j + 1 \in 1..Len(q)
      <4>1. j \in Nat
        BY <2>2
      <4>2. x - y + j + 1 \in 1..Len(r)
        BY <2>4 DEF x, y
      <4>3. x - z + j + 1 \in 1..Len(q)
        BY <1>2, <1>3, <1>5, <2>5, <4>1, <4>2
      <4>4. QED
        BY <4>3 DEF x, z
    <3>4. QED
      BY <2>2, <3>1, <3>2, <3>3 DEF Carries
  <2>6. QED
    BY <2>4 DEF Carries
<1>8. Aligned(r, w, k + 1, e)
  <2>1. e[k + 1] + Len(r) <= e[Len(w)]
    BY <1>6 DEF Aligned
  <2>2. k + 1 \in 0..Len(w) /\ k + 1 + 1 = k + 2
    BY <1>1, <1>3
  <2>3. QED
    BY <1>3, <1>7, <2>1, <2>2 DEF Aligned
<1>9. QED
  BY <1>1, <1>4, <1>6, <1>8 DEF Whole, Started

\* What is left when the end is lost is still aligned.
LEMMA EndLost ==
  ASSUME NEW q \in Seq(Cell), NEW w \in Seq(Payload), NEW k, NEW e, Aligned(q, w, k, e),
         NEW r \in Seq(Cell), Len(r) <= Len(q), \A j \in 1..Len(r) : r[j] = q[j]
  PROVE  Aligned(r, w, k, e)
<1>1. /\ Len(w) \in Nat /\ Len(q) \in Nat /\ k \in 0..Len(w) /\ Ends(e, w)
      /\ e[k] \in Nat /\ e[Len(w)] \in Nat /\ Len(r) \in Nat
  BY AlignedFacts, LenProperties
<1>2. e[k] + Len(r) <= e[Len(w)]
  BY <1>1 DEF Aligned
<1>3. ASSUME NEW i \in k + 1..Len(w) PROVE Carries(r, e[i - 1] - e[k], w[i])
  <2>1. Carries(q, e[i - 1] - e[k], w[i])
    BY DEF Aligned
  <2>2. \A x \in 1..Len(r) : x \in 1..Len(q) /\ r[x] = q[x]
    BY <1>1
  <2>3. QED
    BY <2>1, <2>2 DEF Carries
<1>4. QED
  BY <1>1, <1>2, <1>3 DEF Aligned

\* The prefix of a further frame, after whole frames.
LEMMA PrefixWritten ==
  ASSUME NEW q \in Seq(Cell), NEW w \in Seq(Payload), NEW k, NEW e, Whole(q, w, k, e),
         NEW p \in Payload
  PROVE  \E f : Started(q \o <<Len(p)>>, Append(w, p), k, f)
<1> DEFINE r == q \o <<Len(p)>>
           v == Append(w, p)
           f == [i \in 0..Len(w) + 1 |-> IF i <= Len(w) THEN e[i] ELSE e[Len(w)] + Len(p) + 1]
<1>1. Aligned(q, w, k, e) /\ e[k] + Len(q) = e[Len(w)]
  BY DEF Whole
<1>2. /\ Len(w) \in Nat /\ Len(q) \in Nat /\ k \in 0..Len(w) /\ Ends(e, w)
      /\ \A i \in 0..Len(w) : e[i] \in Nat
      /\ e[k] \in Nat /\ e[Len(w)] \in Nat
  BY <1>1, AlignedFacts
<1>3. Len(p) \in Nat /\ Len(p) > 0 /\ <<Len(p)>> \in Seq(Cell)
  <2>1. Len(p) \in 1..MaxLen
    BY PayloadType
  <2>2. QED
    BY <2>1, Constants DEF Cell
<1>4. /\ v \in Seq(Payload) /\ Len(v) = Len(w) + 1 /\ v[Len(w) + 1] = p
      /\ \A i \in 1..Len(w) : v[i] = w[i]
  BY AppendProperties
<1>5. /\ r \in Seq(Cell) /\ Len(r) = Len(q) + 1 /\ r[Len(q) + 1] = Len(p)
      /\ \A i \in 1..Len(q) : r[i] = q[i]
  <2>1. Len(<<Len(p)>>) = 1 /\ <<Len(p)>>[1] = Len(p)
    OBVIOUS
  <2>2. QED
    BY <1>2, <1>3, <2>1, ConcatProperties
<1> HIDE DEF r, v
<1>6. /\ f \in [0..Len(v) -> Nat]
      /\ f[Len(v)] = e[Len(w)] + Len(p) + 1
      /\ \A i \in 0..Len(w) : f[i] = e[i]
  BY <1>2, <1>3, <1>4
<1> HIDE DEF f
<1>7. Ends(f, v)
  <2>1. ASSUME NEW i \in 1..Len(v) PROVE f[i] = f[i - 1] + Len(v[i]) + 1
    <3>1. CASE i = Len(w) + 1
      BY <1>2, <1>4, <1>6, <3>1
    <3>2. CASE i <= Len(w)
      <4>1. i \in 1..Len(w) /\ i \in 0..Len(w) /\ i - 1 \in 0..Len(w)
        BY <1>2, <3>2
      <4>2. f[i] = e[i] /\ f[i - 1] = e[i - 1] /\ v[i] = w[i]
        BY <1>4, <1>6, <4>1
      <4>3. QED
        BY <1>2, <4>1, <4>2 DEF Ends
    <3>3. QED
      BY <1>2, <1>4, <3>1, <3>2
  <2>2. ASSUME NEW i \in 0..Len(v), NEW j \in 0..Len(v), i < j PROVE f[i] < f[j]
    <3>1. CASE j = Len(w) + 1
      <4>1. i \in 0..Len(w) /\ (i = Len(w) \/ i < Len(w))
        BY <1>2, <1>4, <2>2, <3>1
      <4>2. e[i] \in Nat /\ e[i] <= e[Len(w)]
        BY <1>2, <4>1 DEF Ends
      <4>3. f[i] = e[i] /\ f[j] = e[Len(w)] + Len(p) + 1
        BY <1>4, <1>6, <3>1, <4>1
      <4>4. \A a, b, l \in Nat : a <= b => a < b + l + 1
        OBVIOUS
      <4>5. QED
        BY <1>2, <1>3, <4>2, <4>3, <4>4
    <3>2. CASE j <= Len(w)
      <4>1. i \in 0..Len(w) /\ j \in 0..Len(w)
        BY <1>2, <1>4, <2>2, <3>2
      <4>2. QED
        BY <1>2, <1>6, <2>2, <4>1 DEF Ends
    <3>3. QED
      BY <1>2, <1>4, <3>1, <3>2
  <2>3. QED
    BY <1>6, <2>1, <2>2 DEF Ends
<1>8. f[k] + Len(r) + Len(v[Len(v)]) = f[Len(v)] /\ f[k] + Len(r) <= f[Len(v)]
  <2>1. f[k] = e[k] /\ Len(v[Len(v)]) = Len(p) /\ f[Len(v)] = e[Len(w)] + Len(p) + 1
    <3>1. f[k] = e[k]
      BY <1>2, <1>6
    <3>2. v[Len(v)] = p
      BY <1>4
    <3>3. QED
      BY <1>6, <3>1, <3>2
  <2>2. \A a, b, l, n \in Nat :
          a + l = b => a + (l + 1) + n = b + n + 1 /\ a + (l + 1) <= b + n + 1
    OBVIOUS
  <2>. DEFINE a == e[k]
              b == e[Len(w)]
              n == Len(p)
              l == Len(q)
  <2>3. a \in Nat /\ b \in Nat /\ n \in Nat /\ l \in Nat /\ a + l = b
    BY <1>1, <1>2, <1>3
  <2>. HIDE DEF a, b, n, l
  <2>4. a + (l + 1) + n = b + n + 1 /\ a + (l + 1) <= b + n + 1
    BY <2>2, <2>3
  <2>5. Len(r) = l + 1 /\ f[k] = a /\ Len(v[Len(v)]) = n /\ f[Len(v)] = b + n + 1
    BY <1>5, <2>1 DEF a, b, n, l
  <2>6. f[k] + Len(r) = a + (l + 1) /\ f[Len(v)] = b + n + 1 /\ Len(v[Len(v)]) = n
    BY <2>5
  <2>7. f[k] + Len(r) + Len(v[Len(v)]) = a + (l + 1) + n
    BY <2>6
  <2>8. QED
    BY <2>4, <2>6, <2>7
<1>9. ASSUME NEW i \in k + 1..Len(v) PROVE Carries(r, f[i - 1] - f[k], v[i])
  <2>0. i - 1 \in 0..Len(w)
    BY <1>2, <1>4
  <2>1. f[i - 1] = e[i - 1] /\ f[k] = e[k] /\ e[i - 1] \in Nat
    BY <1>2, <1>6, <2>0
  <2>2. CASE i = Len(w) + 1
    <3>1. e[i - 1] - e[k] = Len(q) /\ v[i] = p
      BY <1>1, <1>2, <1>4, <2>2
    <3>2. ASSUME NEW j \in 0..Len(p), Len(q) + j + 1 \in 1..Len(r)
          PROVE  r[Len(q) + j + 1] = IF j = 0 THEN Len(p) ELSE p[j]
      <4>1. j = 0
        BY <1>2, <1>3, <1>5, <3>2
      <4>2. Len(q) + j + 1 = Len(q) + 1
        BY <1>2, <4>1
      <4>3. QED
        BY <1>5, <4>1, <4>2
    <3>3. QED
      BY <2>1, <3>1, <3>2 DEF Carries
  <2>3. CASE i <= Len(w)
    <3>1. i \in k + 1..Len(w) /\ i \in 1..Len(w) /\ v[i] = w[i]
      BY <1>2, <1>4, <2>3
    <3>2. Carries(q, e[i - 1] - e[k], w[i]) /\ Len(w[i]) \in Nat
      BY <1>1, <3>1, PayloadOf DEF Aligned
    <3>3. e[i] = e[i - 1] + Len(w[i]) + 1 /\ e[i] \in Nat /\ e[i] <= e[Len(w)]
      <4>1. i \in 0..Len(w) /\ (i = Len(w) \/ i < Len(w))
        BY <1>2, <3>1
      <4>2. e[i] \in Nat /\ (i < Len(w) => e[i] < e[Len(w)])
        BY <1>2, <4>1 DEF Ends
      <4>3. e[i] <= e[Len(w)]
        BY <1>2, <4>1, <4>2
      <4>4. QED
        BY <1>2, <3>1, <4>2, <4>3 DEF Ends
    <3>4. ASSUME NEW j \in 0..Len(w[i]), e[i - 1] - e[k] + j + 1 \in 1..Len(r)
          PROVE  e[i - 1] - e[k] + j + 1 \in 1..Len(q)
      <4>1. \A a, b, d, x, l, n, y \in Nat :
              /\ a + l = b /\ d = x + n + 1 /\ d <= b /\ y <= n
              => x - a + y + 1 <= l
        OBVIOUS
      <4>2. j \in Nat /\ j <= Len(w[i])
        BY <3>2
      <4>3. e[i - 1] - e[k] + j + 1 <= Len(q)
        BY <1>1, <1>2, <2>1, <3>2, <3>3, <4>1, <4>2
      <4>4. QED
        BY <1>2, <1>5, <3>4, <4>3
    <3>5. QED
      BY <1>5, <2>1, <3>1, <3>2, <3>4 DEF Carries
  <2>4. QED
    BY <1>2, <1>4, <2>2, <2>3
<1>10. k \in 0..Len(v) /\ Len(v) > 0
  BY <1>2, <1>4
<1>11. Started(r, v, k, f)
  BY <1>2, <1>4, <1>7, <1>8, <1>9, <1>10 DEF Started, Aligned
<1>12. QED
  BY <1>11 DEF r, v

\* Of a frame whose prefix alone is written, nothing has been consumed.
LEMMA StartedFacts ==
  ASSUME NEW q \in Seq(Cell), NEW w \in Seq(Payload), NEW k, NEW e, Started(q, w, k, e)
  PROVE  /\ Len(w) \in k + 1..Len(w) /\ Len(w) \in 1..Len(w) /\ e[Len(w) - 1] \in Nat
         /\ Len(q) > 0 /\ Len(q) = e[Len(w) - 1] - e[k] + 1
<1>1. Aligned(q, w, k, e) /\ Len(w) > 0 /\ e[k] + Len(q) + Len(w[Len(w)]) = e[Len(w)]
  BY DEF Started
<1>2. /\ Len(w) \in Nat /\ Len(q) \in Nat /\ k \in 0..Len(w) /\ Ends(e, w)
      /\ \A i \in 0..Len(w) : e[i] \in Nat
  BY <1>1, AlignedFacts
<1>3. Len(w) \in 0..Len(w) /\ Len(w) - 1 \in 0..Len(w) /\ Len(w) \in 1..Len(w)
  BY <1>1, <1>2
<1>4. Len(w[Len(w)]) \in Nat /\ Len(w[Len(w)]) > 0
  BY <1>3, PayloadOf
<1> DEFINE a == e[k]
           b == e[Len(w) - 1]
           n == Len(w[Len(w)])
           l == Len(q)
<1>5. a \in Nat /\ b \in Nat /\ n \in Nat /\ n > 0 /\ l \in Nat
  BY <1>2, <1>3, <1>4
<1>6. e[Len(w)] = b + n + 1
  BY <1>2, <1>3 DEF Ends
<1>7. a + l + n = e[Len(w)]
  BY <1>1
<1> HIDE DEF a, b, n, l
<1>8. l = b - a + 1 /\ e[Len(w)] # a
  BY <1>5, <1>6, <1>7
<1>9. k # Len(w)
  BY <1>8 DEF a
<1>10. k \in 0..Len(w) - 1
  BY <1>2, <1>9
<1>11. a <= b
  <2>1. CASE k = Len(w) - 1
    BY <1>5, <2>1 DEF a, b
  <2>2. CASE k < Len(w) - 1
    <3>1. e[k] < e[Len(w) - 1]
      BY <1>2, <1>3, <2>2 DEF Ends
    <3>2. QED
      BY <1>5, <3>1 DEF a, b
  <2>3. QED
    BY <1>2, <1>10, <2>1, <2>2
<1>12. l > 0
  BY <1>5, <1>8, <1>11
<1>13. Len(w) \in k + 1..Len(w)
  BY <1>2, <1>10
<1>14. QED
  BY <1>3, <1>5, <1>8, <1>12, <1>13 DEF a, b, l

\* The body that belongs to the prefix completes the frame.
LEMMA BodyWritten ==
  ASSUME NEW q \in Seq(Cell), NEW w \in Seq(Payload), NEW k, NEW e, Started(q, w, k, e),
         NEW r, r = q \o w[Len(w)]
  PROVE  Whole(r, w, k, e)
<1> DEFINE p == w[Len(w)]
<1>1. Aligned(q, w, k, e) /\ e[k] + Len(q) + Len(p) = e[Len(w)]
  BY DEF Started
<1>2. /\ Len(w) \in k + 1..Len(w) /\ Len(w) \in 1..Len(w)
      /\ Len(q) > 0 /\ Len(q) = e[Len(w) - 1] - e[k] + 1
      /\ e[Len(w) - 1] \in Nat
  BY StartedFacts
<1>3. /\ Len(w) \in Nat /\ Len(q) \in Nat /\ k \in 0..Len(w) /\ Ends(e, w)
      /\ \A i \in 0..Len(w) : e[i] \in Nat
      /\ e[k] \in Nat
  BY <1>1, AlignedFacts
<1>4. p \in Seq(Cell) /\ Len(p) \in Nat
  BY <1>2, PayloadOf
<1>5. /\ r \in Seq(Cell) /\ Len(r) = Len(q) + Len(p)
      /\ \A i \in 1..Len(q) : r[i] = q[i]
      /\ \A j \in 1..Len(p) : r[Len(q) + j] = p[j]
  <2>1. /\ r \in Seq(Cell) /\ Len(r) = Len(q) + Len(p)
        /\ \A i \in 1..Len(q) + Len(p) : r[i] = IF i <= Len(q) THEN q[i] ELSE p[i - Len(q)]
    BY <1>4, ConcatProperties
  <2>2. ASSUME NEW i \in 1..Len(q) PROVE r[i] = q[i]
    BY <1>3, <1>4, <2>1
  <2>3. ASSUME NEW j \in 1..Len(p) PROVE r[Len(q) + j] = p[j]
    <3>1. Len(q) + j \in 1..Len(q) + Len(p) /\ ~(Len(q) + j <= Len(q)) /\ (Len(q) + j) - Len(q) = j
      BY <1>3, <1>4
    <3>2. QED
      BY <2>1, <3>1
  <2>4. QED
    BY <2>1, <2>2, <2>3
<1>6. e[k] + Len(r) = e[Len(w)]
  BY <1>1, <1>3, <1>4, <1>5
<1>7. ASSUME NEW i \in k + 1..Len(w) PROVE Carries(r, e[i - 1] - e[k], w[i])
  <2>1. Carries(q, e[i - 1] - e[k], w[i])
    BY <1>1 DEF Aligned
  <2>2. CASE i = Len(w)
    <3>1. e[i - 1] - e[k] + 1 = Len(q) /\ w[i] = p
      BY <1>2, <2>2
    <3>2. ASSUME NEW j \in 0..Len(p) PROVE r[Len(q) + j] = IF j = 0 THEN Len(p) ELSE p[j]
      <4>1. CASE j = 0
        <5>1. e[i - 1] - e[k] + j + 1 = Len(q) /\ Len(q) + j = Len(q) /\ Len(q) \in 1..Len(q)
          BY <1>2, <1>3, <2>2, <4>1
        <5>2. q[Len(q)] = Len(p)
          BY <2>1, <3>1, <4>1, <5>1 DEF Carries
        <5>3. QED
          BY <1>5, <4>1, <5>1, <5>2
      <4>2. CASE j # 0
        <5>1. j \in 1..Len(p)
          BY <1>4, <4>2
        <5>2. QED
          BY <1>5, <4>2, <5>1
      <4>3. QED
        BY <4>1, <4>2
    <3>3. ASSUME NEW j \in 0..Len(p) PROVE e[i - 1] - e[k] + j + 1 = Len(q) + j
      <4>1. \A a, b, l, x \in Int : a - b + 1 = l => a - b + x + 1 = l + x
        OBVIOUS
      <4>2. e[i - 1] \in Int /\ e[k] \in Int /\ Len(q) \in Int /\ j \in Int
        BY <1>2, <1>3, <1>4, <2>2
      <4>. DEFINE a == e[i - 1]
                  b == e[k]
                  l == Len(q)
      <4>3. a \in Int /\ b \in Int /\ l \in Int /\ a - b + 1 = l
        BY <3>1, <4>2
      <4>. HIDE DEF a, b, l
      <4>4. a - b + j + 1 = l + j
        BY <4>1, <4>2, <4>3
      <4>5. QED
        BY <4>4 DEF a, b, l
    <3>4. QED
      BY <3>1, <3>2, <3>3 DEF Carries
  <2>3. CASE i # Len(w)
    <3>1. i \in 1..Len(w) /\ i \in 0..Len(w) - 1 /\ i \in 0..Len(w) /\ i - 1 \in 0..Len(w)
      BY <1>3, <2>3
    <3>2. e[i] = e[i - 1] + Len(w[i]) + 1 /\ e[i] \in Nat /\ e[i - 1] \in Nat /\ Len(w[i]) \in Nat
      BY <1>3, <3>1, PayloadOf DEF Ends
    <3>3. e[i] <= e[Len(w) - 1]
      <4>1. CASE i = Len(w) - 1
        BY <3>2, <4>1
      <4>2. CASE i < Len(w) - 1
        <5>1. Len(w) - 1 \in 0..Len(w)
          BY <1>2, <1>3
        <5>2. e[i] < e[Len(w) - 1]
          BY <1>3, <3>1, <4>2, <5>1 DEF Ends
        <5>3. QED
          BY <1>2, <3>2, <5>2
      <4>3. QED
        BY <1>3, <3>1, <4>1, <4>2
    <3>4. ASSUME NEW j \in 0..Len(w[i]), e[i - 1] - e[k] + j + 1 \in 1..Len(r)
          PROVE  e[i - 1] - e[k] + j + 1 \in 1..Len(q)
      <4>1. \A a, b, d, x, l, n, y \in Nat :
              /\ l = b - a + 1 /\ d = x + n + 1 /\ d <= b /\ y <= n
              => x - a + y + 1 <= l
        OBVIOUS
      <4>2. j \in Nat /\ j <= Len(w[i])
        BY <3>2
      <4>. DEFINE a == e[k]
                  b == e[Len(w) - 1]
                  d == e[i]
                  x == e[i - 1]
                  l == Len(q)
                  n == Len(w[i])
      <4>3. /\ a \in Nat /\ b \in Nat /\ d \in Nat /\ x \in Nat /\ l \in Nat /\ n \in Nat
            /\ l = b - a + 1 /\ d = x + n + 1 /\ d <= b
        BY <1>2, <1>3, <3>2, <3>3
      <4>. HIDE DEF a, b, d, x, l, n
      <4>4. j <= n
        BY <4>2 DEF n
      <4>5. x - a + j + 1 <= l
        BY <4>1, <4>2, <4>3, <4>4
      <4>6. e[i - 1] - e[k] + j + 1 <= Len(q)
        BY <4>5 DEF x, a, l
      <4>7. QED
        BY <1>3, <1>5, <3>4, <4>6
    <3>5. QED
      BY <1>5, <2>1, <3>4 DEF Carries
  <2>4. QED
    BY <2>2, <2>3
<1>8. e[Len(w)] \in Nat /\ e[k] + Len(r) <= e[Len(w)]
  BY <1>3, <1>6
<1>9. QED
  BY <1>3, <1>6, <1>7, <1>8 DEF Whole, Aligned

\* An empty stream of whole frames has been consumed to its end.
LEMMA NothingLeft ==
  ASSUME NEW q \in Seq(Cell), NEW w \in Seq(Payload), NEW k, NEW e, Whole(q, w, k, e), Len(q) = 0
  PROVE  k = Len(w)
<1>1. Aligned(q, w, k, e) /\ e[k] + Len(q) = e[Len(w)]
  BY DEF Whole
<1>2. Len(w) \in Nat /\ k \in 0..Len(w) /\ Ends(e, w) /\ \A i \in 0..Len(w) : e[i] \in Nat
  BY <1>1, AlignedFacts
<1>3. k < Len(w) => e[k] < e[Len(w)]
  BY <1>2 DEF Ends
<1>4. e[k] = e[Len(w)] /\ e[k] \in Nat
  BY <1>1, <1>2
<1>5. ~(k < Len(w))
  BY <1>3, <1>4
<1>6. QED
  BY <1>2, <1>5

-----------------------------------------------------------------------------
(* Prefixes.                                                               *)

LEMMA PrefixByCells ==
  ASSUME NEW S, NEW g \in Seq(S), NEW w \in Seq(S)
  PROVE  IsPrefix(g, w) <=> Len(g) <= Len(w) /\ \A i \in 1..Len(g) : g[i] = w[i]
<1>1. Len(g) \in Nat /\ Len(w) \in Nat /\ SubSeq(g, 1, Len(g)) = g
  BY LenProperties, SubSeqFull
<1>2. ASSUME Len(g) <= Len(w)
      PROVE  /\ SubSeq(w, 1, Len(g)) \in Seq(S) /\ Len(SubSeq(w, 1, Len(g))) = Len(g)
             /\ \A i \in 1..Len(g) : SubSeq(w, 1, Len(g))[i] = w[i]
  <2>1. \A i \in 1..Len(g) : w[i] \in S
    BY <1>1, <1>2, ElementOfSeq
  <2>2. QED
    BY <1>1, <2>1, SubSeqProperties
<1>3. ASSUME Len(g) <= Len(w), \A i \in 1..Len(g) : g[i] = w[i]
      PROVE  SubSeq(w, 1, Len(g)) = g
  BY <1>2, <1>3, SeqEqual
<1>4. QED
  BY <1>1, <1>2, <1>3 DEF IsPrefix

\* What recv returns next extends the prefix; so does what is begun next.
LEMMA PrefixGrows ==
  ASSUME NEW S, NEW g \in Seq(S), NEW w \in Seq(S), IsPrefix(g, w)
  PROVE  /\ Len(g) + 1 \in 1..Len(w) => IsPrefix(Append(g, w[Len(g) + 1]), w)
         /\ \A p \in S : IsPrefix(g, Append(w, p))
         /\ Len(g) = Len(w) => g = w
<1>1. /\ Len(g) \in Nat /\ Len(w) \in Nat /\ Len(g) <= Len(w)
      /\ \A i \in 1..Len(g) : g[i] = w[i]
  BY PrefixByCells, LenProperties
<1>2. ASSUME Len(g) + 1 \in 1..Len(w)
      PROVE  IsPrefix(Append(g, w[Len(g) + 1]), w)
  <2>. DEFINE h == Append(g, w[Len(g) + 1])
  <2>1. w[Len(g) + 1] \in S
    BY <1>2, ElementOfSeq
  <2>2. /\ h \in Seq(S) /\ Len(h) = Len(g) + 1 /\ h[Len(g) + 1] = w[Len(g) + 1]
        /\ \A i \in 1..Len(g) : h[i] = g[i]
    BY <2>1, AppendProperties
  <2>. HIDE DEF h
  <2>3. ASSUME NEW i \in 1..Len(h) PROVE h[i] = w[i]
    <3>1. i \in 1..Len(g) \/ i = Len(g) + 1
      BY <1>1, <2>2
    <3>2. QED
      BY <1>1, <2>2, <3>1
  <2>4. IsPrefix(h, w)
    BY <1>2, <1>1, <2>2, <2>3, PrefixByCells
  <2>5. QED
    BY <2>4 DEF h
<1>3. ASSUME NEW p \in S PROVE IsPrefix(g, Append(w, p))
  <2>1. /\ Append(w, p) \in Seq(S) /\ Len(Append(w, p)) = Len(w) + 1
        /\ \A i \in 1..Len(w) : Append(w, p)[i] = w[i]
    BY AppendProperties
  <2>2. \A i \in 1..Len(g) : i \in 1..Len(w)
    BY <1>1
  <2>3. Len(g) <= Len(Append(w, p)) /\ \A i \in 1..Len(g) : g[i] = Append(w, p)[i]
    BY <1>1, <2>1, <2>2
  <2>4. QED
    BY <2>1, <2>3, PrefixByCells
<1>4. Len(g) = Len(w) => g = w
  BY <1>1, SeqEqual
<1>5. QED
  BY <1>2, <1>3, <1>4

\* The library's facts about concatenation, for cells.
LEMMA CellConcat ==
  \A a, b \in Seq(Cell) :
    /\ a \o b \in Seq(Cell) /\ Len(a \o b) = Len(a) + Len(b)
    /\ \A i \in 1..Len(a) + Len(b) :
         (a \o b)[i] = IF i <= Len(a) THEN a[i] ELSE b[i - Len(a)]
  BY ConcatProperties

LEMMA CellAssociative ==
  \A a, b, d \in Seq(Cell) : (a \o b) \o d = a \o (b \o d)
  BY ConcatAssociative

LEMMA PayloadsAreCells == Payload \subseteq Seq(Cell)
  BY PayloadType

-----------------------------------------------------------------------------
(* The invariant is kept.                                                  *)

\* The sequences of the invariant have their types.
LEMMA StreamFacts ==
  ASSUME IInv, NEW c \in ConnIds
  PROVE  /\ wire[c] \in Seq(Cell) /\ read_buf \in Seq(Cell) /\ Stream(c) \in Seq(Cell)
         /\ written[c] \in Seq(Payload) /\ written[c] \in Seq(Seq(Cell))
         /\ got[c] \in Seq(Seq(Cell)) /\ Len(got[c]) \in Nat
         /\ gnd \in ConnIds /\ cam \in ConnIds /\ gnd <= cam /\ gnd \in Nat /\ cam \in Nat
<1>1. wire[c] \in Seq(Cell) /\ read_buf \in Seq(Cell)
  BY DEF IInv, StreamType
<1>2. Stream(c) \in Seq(Cell)
  BY <1>1, ConcatProperties DEF Stream
<1>3. written[c] \in Seq(Payload) /\ got[c] \in Seq(Seq(Cell))
  BY DEF IInv, HistoryType
<1>4. written[c] \in Seq(Seq(Cell))
  BY <1>3, PayloadsAreCells, SeqMonotonic
<1>5. gnd \in ConnIds /\ cam \in ConnIds /\ gnd <= cam /\ gnd \in Nat /\ cam \in Nat
  BY Constants DEF IInv, CameraType, ConnIds
<1>6. QED
  BY <1>1, <1>2, <1>3, <1>4, <1>5, LenProperties

LEMMA UntouchedKept == IInv /\ Untouched /\ [Next]_vars => Untouched'
<1> SUFFICES ASSUME IInv, Untouched, [Next]_vars PROVE Untouched'
  OBVIOUS
<1> USE DEF camera, ground
<1>0. /\ gnd \in ConnIds /\ cam \in ConnIds /\ gnd <= cam /\ gnd \in Nat /\ cam \in Nat
      /\ \A c \in ConnIds : c \in Nat
      /\ wire \in [ConnIds -> Seq(Cell)] /\ written \in [ConnIds -> Seq(Payload)]
      /\ got \in [ConnIds -> Seq(Seq(Cell))]
      /\ link \in [ConnIds -> {"none", "open", "closed", "reset"}]
      /\ up \in BOOLEAN
  BY StreamFacts, Constants DEF IInv, Flags, StreamType, HistoryType, CameraType, ConnIds
<1>1. ASSUME NEW s \in Senders, SendBegins(s) PROVE Untouched'
  BY <1>1 DEF SendBegins, Untouched
<1>2. ASSUME NEW s \in Senders, Write(s) PROVE Untouched'
  BY <1>0, <1>2 DEF Write, Untouched
<1>3. ASSUME NEW s \in Senders, WriteFails(s) PROVE Untouched'
  BY <1>0, <1>3 DEF WriteFails, Untouched
<1>4. CASE LinkLost
  BY <1>0, <1>4 DEF LinkLost, Untouched
<1>5. CASE CameraEnds
  BY <1>0, <1>5 DEF CameraEnds, Untouched
<1>6. CASE CameraConnects
  <2>1. up' = TRUE /\ cam' = cam + 1 /\ UNCHANGED <<wire, written, got, gnd>>
    BY <1>6 DEF CameraConnects
  <2>2. \A c \in ConnIds : c > cam' => c > cam
    BY <1>0, <2>1
  <2>3. QED
    BY <2>1, <2>2 DEF Untouched
<1>7. CASE RecvFrame
  BY <1>0, <1>7 DEF RecvFrame, Untouched
<1>8. CASE RecvRead
  BY <1>0, <1>8 DEF RecvRead, Untouched
<1>9. CASE RecvError \/ SendTakesError
  BY <1>0, <1>9 DEF RecvError, SendTakesError, Untouched
<1>10. CASE Reconnect
  BY <1>0, <1>10 DEF Reconnect, Untouched
<1>11. CASE RecvOversize \/ UNCHANGED vars
  BY <1>11 DEF RecvOversize, Untouched, vars
<1>12. QED
  BY <1>1, <1>2, <1>3, <1>4, <1>5, <1>6, <1>7, <1>8, <1>9, <1>10, <1>11
     DEF Next, Camera, World, Ground, Dispatcher

\* A step that leaves alone what a connection carries, and who is inside a frame.
LEMMA SameStream ==
  ASSUME NEW c \in ConnIds, Framed(c),
         UNCHANGED <<written, got>> \/ (written'[c] = written[c] /\ got'[c] = got[c]),
         c >= gnd' => c >= gnd /\ Stream(c)' = Stream(c),
         c = cam' /\ link'[c] = "open" =>
           /\ c = cam /\ link[c] = "open"
           /\ \A s \in Senders : pc'[s] = "body" <=> pc[s] = "body"
           /\ \A s \in Senders : pc[s] = "body" => frame'[s] = frame[s]
  PROVE  Framed(c)'
<1>1. written'[c] = written[c] /\ got'[c] = got[c]
  OBVIOUS
<1>2. IsPrefix(got[c], written[c])'
  BY <1>1 DEF Framed, IsPrefix
<1>3. ASSUME c >= gnd'
      PROVE  \E e : /\ Aligned(Stream(c), written[c], Len(got[c]), e)'
                    /\ c = cam' /\ link'[c] = "open" => Complete(c, e)'
  <2>1. PICK e : /\ Aligned(Stream(c), written[c], Len(got[c]), e)
                 /\ c = cam /\ link[c] = "open" => Complete(c, e)
    BY <1>3 DEF Framed
  <2>2. Aligned(Stream(c)', written'[c], Len(got'[c]), e)
    BY <1>1, <1>3, <2>1
  <2>3. ASSUME c = cam', link'[c] = "open" PROVE Complete(c, e)'
    <3>1. Complete(c, e)
      BY <2>1, <2>3
    <3>2. /\ \A s \in Senders : pc'[s] = "body" <=> pc[s] = "body"
          /\ \A s \in Senders : pc[s] = "body" => frame'[s] = frame[s]
      BY <2>3
    <3>3. ASSUME \A s \in Senders : pc[s] # "body",
                 Whole(Stream(c), written[c], Len(got[c]), e)
          PROVE  Complete(c, e)'
      <4>1. \A s \in Senders : pc'[s] # "body"
        BY <3>2, <3>3
      <4>2. Whole(Stream(c)', written'[c], Len(got'[c]), e)
        BY <1>1, <1>3, <3>3
      <4>3. QED
        BY <4>1, <4>2 DEF Complete
    <3>4. ASSUME NEW s \in Senders, pc[s] = "body", ~AnotherInFrame(s),
                 Started(Stream(c), written[c], Len(got[c]), e),
                 frame[s] = written[c][Len(written[c])]
          PROVE  Complete(c, e)'
      <4>1. pc'[s] = "body" /\ ~AnotherInFrame(s)' /\ frame'[s] = written'[c][Len(written'[c])]
        BY <1>1, <3>2, <3>4 DEF AnotherInFrame
      <4>2. Started(Stream(c)', written'[c], Len(got'[c]), e)
        BY <1>1, <1>3, <3>4
      <4>3. QED
        BY <4>1, <4>2 DEF Complete
    <3>5. QED
      BY <3>1, <3>3, <3>4 DEF Complete
  <2>4. QED
    BY <2>2, <2>3
<1>4. QED
  BY <1>2, <1>3 DEF Framed

LEMMA WriteKeepsFraming ==
  ASSUME IInv, NEW s \in Senders, Write(s), NEW c \in ConnIds, c \notin disturbed', Framed(c)
  PROVE  Framed(c)'
<1> USE DEF camera, ground
<1> DEFINE k == Len(got[c])
<1>1. /\ wire[c] \in Seq(Cell) /\ read_buf \in Seq(Cell) /\ Stream(c) \in Seq(Cell)
      /\ written[c] \in Seq(Payload) /\ written[c] \in Seq(Seq(Cell))
      /\ got[c] \in Seq(Seq(Cell)) /\ cam \in ConnIds /\ gnd <= cam /\ gnd \in Nat /\ cam \in Nat
      /\ wire \in [ConnIds -> Seq(Cell)] /\ written \in [ConnIds -> Seq(Payload)]
      /\ pc \in [Senders -> {"idle", "prefix", "body"}]
  BY StreamFacts DEF IInv, StreamType, HistoryType, CameraType
<1>2. CASE c # cam
  <2>1. written'[c] = written[c] /\ got'[c] = got[c] /\ gnd' = gnd /\ cam' = cam
    BY <1>1, <1>2 DEF Write
  <2>2. Stream(c)' = Stream(c)
    BY <1>1, <1>2 DEF Write, Stream
  <2>3. QED
    BY <1>2, <2>1, <2>2, SameStream
<1>3. CASE c = cam
  <2>1. /\ link[c] = "open" /\ pc[s] # "idle" /\ UNCHANGED <<frame, link, got, gnd, cam, read_buf>>
        /\ ~AnotherInFrame(s) /\ Cells(s) \in Seq(Cell) /\ frame[s] \in Payload
        /\ wire'[c] = wire[c] \o Cells(s) /\ c >= gnd
    <3>1. /\ link[c] = "open" /\ pc[s] # "idle"
          /\ UNCHANGED <<frame, link, got, gnd, cam, read_buf>>
          /\ wire' = [wire EXCEPT ![cam] = @ \o Cells(s)]
          /\ disturbed' = disturbed \cup IF AnotherInFrame(s) THEN {cam} ELSE {}
      BY <1>3 DEF Write
    <3>2. ~AnotherInFrame(s)
      BY <1>3, <3>1
    <3>3. CameraType
      BY DEF IInv
    <3>4. Cells(s) \in Seq(Cell) /\ frame[s] \in Payload
      BY <3>1, <3>3, CellsType
    <3>5. wire'[c] = wire[c] \o Cells(s)
      BY <1>1, <1>3, <3>1
    <3>6. c >= gnd
      BY <1>1, <1>3
    <3>7. QED
      BY <3>1, <3>2, <3>4, <3>5, <3>6
  <2>2. Stream(c)' = Stream(c) \o Cells(s)
    <3>1. (read_buf \o wire[c]) \o Cells(s) = read_buf \o (wire[c] \o Cells(s))
      <4>1. read_buf \in Seq(Cell) /\ wire[c] \in Seq(Cell) /\ Cells(s) \in Seq(Cell)
        BY <1>1, <2>1
      <4>2. QED
        BY Zenon, <4>1, CellAssociative
    <3>2. CASE c = gnd
      BY <2>1, <3>1, <3>2 DEF Stream
    <3>3. CASE c # gnd
      BY <2>1, <3>3 DEF Stream
    <3>4. QED
      BY <3>2, <3>3
  <2>3. PICK e : Complete(c, e)
    BY <1>3, <2>1 DEF Framed
  <2>4. IsPrefix(got[c], written[c])
    BY DEF Framed
  <2>5. CASE pc[s] = "prefix"
    <3>1. Cells(s) = <<Len(frame[s])>> /\ written'[c] = Append(written[c], frame[s])
      BY <1>1, <1>3, <2>5 DEF Write, Cells
    <3>2. pc' = [pc EXCEPT ![s] = "body"]
      BY <2>5 DEF Write
    <3>3. Whole(Stream(c), written[c], k, e)
      BY <2>1, <2>3, <2>5 DEF Complete, AnotherInFrame
    <3>4. PICK f : Started(Stream(c) \o Cells(s), Append(written[c], frame[s]), k, f)
      BY <1>1, <2>1, <3>1, <3>3, PrefixWritten
    <3>5. Started(Stream(c)', written'[c], Len(got'[c]), f)
      BY <2>1, <2>2, <3>1, <3>4
    <3>6. pc'[s] = "body" /\ ~AnotherInFrame(s)'
      BY <1>1, <2>1, <3>2 DEF AnotherInFrame
    <3>7. frame'[s] = written'[c][Len(written'[c])]
      BY <1>1, <2>1, <3>1, AppendProperties
    <3>8. Complete(c, f)'
      BY <3>5, <3>6, <3>7 DEF Complete
    <3>9. Aligned(Stream(c)', written'[c], Len(got'[c]), f)
      BY <3>5 DEF Started
    <3>10. IsPrefix(got[c], written[c])'
      <4>1. frame[s] \in Seq(Cell)
        BY <2>1, PayloadsAreCells
      <4>2. IsPrefix(got[c], Append(written[c], frame[s]))
        BY <1>1, <2>4, <4>1, PrefixGrows
      <4>3. QED
        BY <2>1, <3>1, <4>2
    <3>11. QED
      BY <3>8, <3>9, <3>10 DEF Framed
  <2>6. CASE pc[s] = "body"
    <3>1. Cells(s) = frame[s] /\ written'[c] = written[c] /\ pc' = [pc EXCEPT ![s] = "idle"]
      BY <2>6 DEF Write, Cells
    <3>2. /\ Started(Stream(c), written[c], k, e)
          /\ frame[s] = written[c][Len(written[c])]
      BY <2>1, <2>3, <2>6 DEF Complete, AnotherInFrame
    <3>3. Whole(Stream(c) \o frame[s], written[c], k, e)
      BY <1>1, <3>2, BodyWritten
    <3>4. Whole(Stream(c)', written'[c], Len(got'[c]), e)
      BY <2>1, <2>2, <3>1, <3>3
    <3>5. \A t \in Senders : pc'[t] # "body"
      BY <1>1, <2>1, <3>1 DEF AnotherInFrame
    <3>6. Complete(c, e)'
      BY <3>4, <3>5 DEF Complete
    <3>7. Aligned(Stream(c)', written'[c], Len(got'[c]), e)
      BY <3>4 DEF Whole
    <3>8. IsPrefix(got[c], written[c])'
      BY <2>1, <2>4, <3>1
    <3>9. QED
      BY <3>6, <3>7, <3>8 DEF Framed
  <2>7. QED
    BY <1>1, <2>1, <2>5, <2>6
<1>4. QED
  BY <1>2, <1>3

LEMMA WriteFailsKeepsFraming ==
  ASSUME IInv, NEW s \in Senders, WriteFails(s), NEW c \in ConnIds, c \notin disturbed', Framed(c)
  PROVE  Framed(c)'
<1> USE DEF camera, ground
<1>1. /\ wire[c] \in Seq(Cell) /\ cam \in ConnIds /\ wire \in [ConnIds -> Seq(Cell)]
      /\ pc \in [Senders -> {"idle", "prefix", "body"}]
  BY StreamFacts DEF IInv, StreamType, CameraType
<1>2. PICK n \in 0..Len(Cells(s)) - 1 :
        /\ wire' = [wire EXCEPT ![cam] = @ \o SubSeq(Cells(s), 1, n)]
        /\ disturbed' = disturbed \cup IF pc[s] = "body" \/ n > 0 THEN {cam} ELSE {}
  BY DEF WriteFails
<1>3. UNCHANGED <<frame, cam, link, written, gnd, read_buf, got>> /\ pc' = [pc EXCEPT ![s] = "idle"]
  BY DEF WriteFails
<1>4. wire'[c] = wire[c]
  <2>1. CASE c # cam
    BY <1>1, <1>2, <2>1
  <2>2. CASE c = cam
    <3>1. n = 0
      <4>1. ~(n > 0)
        BY <1>2, <2>2
      <4>2. n \in Nat
        BY <1>2
      <4>3. QED
        BY <4>1, <4>2
    <3>2. SubSeq(Cells(s), 1, n) = <<>>
      BY <3>1, SubSeqEmpty
    <3>3. wire[c] \o <<>> = wire[c]
      BY <1>1, ConcatEmptySeq
    <3>4. QED
      BY <1>1, <1>2, <2>2, <3>2, <3>3
  <2>3. QED
    BY <2>1, <2>2
<1>5. Stream(c)' = Stream(c)
  BY <1>3, <1>4 DEF Stream
<1>6. c = cam => pc[s] # "body"
  BY <1>2
<1>7. c = cam => \A t \in Senders : pc'[t] = "body" <=> pc[t] = "body"
  BY <1>1, <1>3, <1>6
<1>8. QED
  BY <1>3, <1>5, <1>7, SameStream

LEMMA WorldKeepsFraming ==
  ASSUME IInv, Untouched, World, NEW c \in ConnIds, c \notin disturbed', Framed(c)
  PROVE  Framed(c)'
<1> USE DEF camera, ground
<1>1. /\ wire[c] \in Seq(Cell) /\ read_buf \in Seq(Cell) /\ Stream(c) \in Seq(Cell)
      /\ written[c] \in Seq(Payload)
      /\ cam \in ConnIds /\ gnd <= cam /\ gnd \in Nat /\ cam \in Nat
      /\ wire \in [ConnIds -> Seq(Cell)]
      /\ link \in [ConnIds -> {"none", "open", "closed", "reset"}]
  BY StreamFacts DEF IInv, StreamType
<1>2. CASE LinkLost
  <2>1. PICK n \in 0..Len(wire[cam]) : wire' = [wire EXCEPT ![cam] = SubSeq(@, 1, n)]
    BY <1>2 DEF LinkLost
  <2>2. /\ link' = [link EXCEPT ![cam] = "reset"]
        /\ UNCHANGED <<pc, frame, cam, gnd, read_buf, got, written>>
    BY <1>2 DEF LinkLost
  <2>3. CASE c # cam
    <3>1. Stream(c)' = Stream(c)
      BY <1>1, <2>1, <2>2, <2>3 DEF Stream
    <3>2. QED
      BY <2>2, <2>3, <3>1, SameStream
  <2>4. CASE c = cam
    <3>1. wire'[c] = SubSeq(wire[c], 1, n) /\ link'[c] # "open" /\ n \in Nat /\ n <= Len(wire[c])
      BY <1>1, <2>1, <2>2, <2>4
    <3>2. Len(wire[c]) \in Nat /\ \A i \in 1..n : wire[c][i] \in Cell
      BY <1>1, <3>1, ElementOfSeq, LenProperties
    <3>3. /\ wire'[c] \in Seq(Cell) /\ Len(wire'[c]) = n
          /\ \A i \in 1..n : wire'[c][i] = wire[c][i]
      BY <3>1, <3>2, SubSeqProperties
    <3>4. /\ Stream(c)' \in Seq(Cell) /\ Len(Stream(c)') <= Len(Stream(c))
          /\ \A i \in 1..Len(Stream(c)') : Stream(c)'[i] = Stream(c)[i]
      <4>1. CASE c = gnd
        <5> DEFINE a == read_buf \o wire[c]
                   b == read_buf \o wire'[c]
        <5>1. Stream(c) = a /\ Stream(c)' = b
          BY <2>2, <4>1 DEF Stream
        <5>2. /\ a \in Seq(Cell) /\ Len(a) = Len(read_buf) + Len(wire[c])
              /\ \A i \in 1..Len(read_buf) + Len(wire[c]) :
                   a[i] = IF i <= Len(read_buf) THEN read_buf[i] ELSE wire[c][i - Len(read_buf)]
          BY <1>1, ConcatProperties
        <5>3. /\ b \in Seq(Cell) /\ Len(b) = Len(read_buf) + n
              /\ \A i \in 1..Len(read_buf) + n :
                   b[i] = IF i <= Len(read_buf) THEN read_buf[i] ELSE wire'[c][i - Len(read_buf)]
          BY <1>1, <3>3, ConcatProperties
        <5>4. Len(read_buf) \in Nat
          BY <1>1, LenProperties
        <5> HIDE DEF a, b
        <5>5. ASSUME NEW i \in 1..Len(b) PROVE b[i] = a[i]
          <6>1. i \in 1..Len(read_buf) + n /\ i \in 1..Len(read_buf) + Len(wire[c])
            BY <3>1, <3>2, <5>3, <5>4
          <6>2. ~(i <= Len(read_buf)) => i - Len(read_buf) \in 1..n
            BY <3>1, <5>4, <6>1
          <6>3. QED
            BY <3>3, <5>2, <5>3, <6>1, <6>2
        <5>6. Len(b) <= Len(a)
          BY <3>1, <3>2, <5>2, <5>3, <5>4
        <5>7. QED
          BY <5>1, <5>3, <5>5, <5>6
      <4>2. CASE c # gnd
        BY <2>2, <3>1, <3>3, <4>2 DEF Stream
      <4>3. QED
        BY <4>1, <4>2
    <3>5. ASSUME c >= gnd'
          PROVE  \E e : Aligned(Stream(c), written[c], Len(got[c]), e)'
      <4>1. PICK e : Aligned(Stream(c), written[c], Len(got[c]), e)
        BY <2>2, <3>5 DEF Framed
      <4>2. Aligned(Stream(c)', written[c], Len(got[c]), e)
        BY <1>1, <3>4, <4>1, EndLost
      <4>3. QED
        BY <2>2, <4>2
    <3>6. IsPrefix(got[c], written[c])'
      BY <2>2 DEF Framed
    <3>7. QED
      BY <3>1, <3>5, <3>6 DEF Framed
  <2>5. QED
    BY <2>3, <2>4
<1>3. CASE CameraEnds
  <2>1. /\ UNCHANGED <<frame, cam, wire, gnd, read_buf, got, written>>
        /\ link'[cam] # "open"
    BY <1>1, <1>3 DEF CameraEnds
  <2>2. Stream(c)' = Stream(c)
    BY <2>1 DEF Stream
  <2>3. QED
    BY <2>1, <2>2, SameStream
<1>4. CASE CameraConnects
  <2>1. /\ UNCHANGED <<pc, frame, wire, gnd, read_buf, got, written>>
        /\ cam' = cam + 1 /\ up = FALSE
    BY <1>4 DEF CameraConnects, IInv, Flags
  <2>2. Stream(c)' = Stream(c)
    BY <2>1 DEF Stream
  <2>3. CASE c # cam + 1
    BY <2>1, <2>2, <2>3, SameStream
  <2>4. CASE c = cam + 1
    <3>1. c > cam /\ c # gnd /\ c >= gnd
      BY <1>1, <2>4
    <3>2. wire[c] = <<>> /\ written[c] = <<>> /\ got[c] = <<>> /\ Stream(c) = <<>>
      <4>1. c > gnd
        BY <1>1, <2>4
      <4>2. QED
        BY <3>1, <4>1 DEF Untouched, Stream
    <3>3. PICK e : Aligned(<<>>, <<>>, 0, e)
      <4>1. Len(got[c]) = 0
        BY <3>2
      <4>2. QED
        BY <3>1, <3>2, <4>1 DEF Framed
    <3>4. Whole(<<>>, <<>>, 0, e)
      <4>1. <<>> \in Seq(Cell) /\ <<>> \in Seq(Payload) /\ Len(<<>>) = 0 /\ 0 \in 0..0
        OBVIOUS
      <4>2. e[0] \in Nat
        BY <3>3, <4>1, AlignedFacts
      <4>3. QED
        BY <3>3, <4>1, <4>2 DEF Whole
    <3>5. Whole(Stream(c)', written'[c], Len(got'[c]), e)
      <4>1. Len(got'[c]) = 0 /\ Stream(c)' = <<>> /\ written'[c] = <<>>
        BY <2>1, <2>2, <3>2
      <4>2. QED
        BY <3>4, <4>1
    <3>6. Complete(c, e)'
      <4>1. \A s \in Senders : pc'[s] # "body"
        BY <2>1 DEF Untouched
      <4>2. QED
        BY <3>5, <4>1 DEF Complete
    <3>7. Aligned(Stream(c)', written'[c], Len(got'[c]), e)
      BY <3>5 DEF Whole
    <3>8. IsPrefix(got[c], written[c])'
      BY <2>1 DEF Framed
    <3>9. QED
      BY <3>6, <3>7, <3>8 DEF Framed
  <2>5. QED
    BY <2>3, <2>4
<1>5. QED
  BY <1>2, <1>3, <1>4 DEF World

LEMMA RecvFrameKeepsFraming ==
  ASSUME IInv, RecvFrame, NEW c \in ConnIds, c = gnd, c \notin disturbed', Framed(c)
  PROVE  Framed(c)'
<1> USE DEF camera, ground
<1> DEFINE q == Stream(c)
           k == Len(got[c])
           n == read_buf[1]
           r == Stream(c)'
<1>1. /\ wire[c] \in Seq(Cell) /\ read_buf \in Seq(Cell) /\ q \in Seq(Cell)
      /\ written[c] \in Seq(Payload) /\ written[c] \in Seq(Seq(Cell))
      /\ got[c] \in Seq(Seq(Cell)) /\ k \in Nat /\ gnd \in Nat
      /\ got \in [ConnIds -> Seq(Seq(Cell))]
      /\ Len(wire[c]) \in Nat /\ Len(read_buf) \in Nat
  BY StreamFacts, LenProperties DEF IInv, HistoryType
<1>2. /\ read_buf # <<>> /\ Len(read_buf) > 0 /\ Len(read_buf) > n /\ n \in Nat
      /\ read_buf' = SubSeq(read_buf, n + 2, Len(read_buf))
      /\ got' = IF n = 0 THEN got
                ELSE [got EXCEPT ![gnd] = Append(@, SubSeq(read_buf, 2, n + 1))]
      /\ UNCHANGED <<pc, frame, cam, wire, link, gnd, written>>
  <2>1. /\ read_buf # <<>> /\ Len(read_buf) > n
        /\ read_buf' = SubSeq(read_buf, n + 2, Len(read_buf))
        /\ got' = IF n = 0 THEN got
                  ELSE [got EXCEPT ![gnd] = Append(@, SubSeq(read_buf, 2, n + 1))]
        /\ UNCHANGED <<pc, frame, cam, wire, link, gnd, written>>
    BY DEF RecvFrame, HasFrame
  <2>2. Len(read_buf) > 0
    BY <1>1, <2>1, EmptySeq
  <2>3. n \in Cell
    BY <1>1, <2>2, ElementOfSeq
  <2>4. n \in Nat
    BY <2>3, Constants DEF Cell
  <2>5. QED
    BY <2>1, <2>2, <2>4
<1>3. /\ q = read_buf \o wire[c] /\ r = read_buf' \o wire[c]
      /\ Len(q) = Len(read_buf) + Len(wire[c])
      /\ \A i \in 1..Len(read_buf) : q[i] = read_buf[i]
      /\ \A i \in 1..Len(wire[c]) : q[Len(read_buf) + i] = wire[c][i]
  <2>1. q = read_buf \o wire[c] /\ r = read_buf' \o wire[c]
    BY <1>2 DEF Stream
  <2>2. /\ Len(q) = Len(read_buf) + Len(wire[c])
        /\ \A i \in 1..Len(read_buf) + Len(wire[c]) :
             q[i] = IF i <= Len(read_buf) THEN read_buf[i] ELSE wire[c][i - Len(read_buf)]
    BY <1>1, <2>1, ConcatProperties
  <2>3. ASSUME NEW i \in 1..Len(read_buf) PROVE q[i] = read_buf[i]
    <3>1. i \in 1..Len(read_buf) + Len(wire[c]) /\ i <= Len(read_buf)
      BY <1>1
    <3>2. QED
      BY <2>2, <3>1
  <2>4. ASSUME NEW i \in 1..Len(wire[c]) PROVE q[Len(read_buf) + i] = wire[c][i]
    <3>1. /\ Len(read_buf) + i \in 1..Len(read_buf) + Len(wire[c])
          /\ ~(Len(read_buf) + i <= Len(read_buf)) /\ (Len(read_buf) + i) - Len(read_buf) = i
      BY <1>1
    <3>2. QED
      BY <2>2, <3>1
  <2>5. QED
    BY <2>1, <2>2, <2>3, <2>4
<1> HIDE DEF q, r, k, n
<1>4. Len(q) > 0 /\ Len(q) > n /\ q[1] = n /\ Len(q) \in Nat
  <2>1. 1 \in 1..Len(read_buf)
    BY <1>1, <1>2
  <2>2. q[1] = n
    BY <1>3, <2>1 DEF n
  <2>3. Len(read_buf) > n
    BY <1>2 DEF n
  <2>4. Len(q) \in Nat /\ Len(q) >= Len(read_buf)
    BY <1>1, <1>3
  <2>5. QED
    BY <1>1, <1>2, <2>2, <2>3, <2>4
<1>5. SubSeq(q, 2, n + 1) = SubSeq(read_buf, 2, n + 1)
  <2>1. \A i \in 2..n + 1 : read_buf[i] \in Cell /\ q[i] \in Cell /\ q[i] = read_buf[i]
    BY <1>1, <1>2, <1>3, ElementOfSeq
  <2>2. /\ SubSeq(q, 2, n + 1) \in Seq(Cell) /\ Len(SubSeq(q, 2, n + 1)) = n
        /\ \A i \in 1..n : SubSeq(q, 2, n + 1)[i] = q[i + 1]
    BY <1>2, <2>1, SubSeqProperties
  <2>3. /\ SubSeq(read_buf, 2, n + 1) \in Seq(Cell) /\ Len(SubSeq(read_buf, 2, n + 1)) = n
        /\ \A i \in 1..n : SubSeq(read_buf, 2, n + 1)[i] = read_buf[i + 1]
    BY <1>2, <2>1, SubSeqProperties
  <2>4. \A i \in 1..n : q[i + 1] = read_buf[i + 1]
    BY <1>2, <2>1
  <2>5. QED
    BY <2>2, <2>3, <2>4, SeqEqual
<1>6. r = SubSeq(q, n + 2, Len(q))
  <2> DEFINE l == Len(read_buf)
             m == Len(wire[c])
             t == SubSeq(q, n + 2, Len(q))
  <2>1. l \in Nat /\ m \in Nat /\ l > n /\ Len(q) = l + m
    BY <1>1, <1>2, <1>3
  <2>2. \A i \in n + 2..l : read_buf[i] \in Cell
    BY <1>1, <1>2, ElementOfSeq
  <2>3. /\ read_buf' \in Seq(Cell) /\ Len(read_buf') = l - n - 1
        /\ \A i \in 1..l - n - 1 : read_buf'[i] = read_buf[n + 1 + i]
    <3>1. l \in Int /\ n + 2 \in Int /\ (IF n + 2 <= l THEN l - (n + 2) + 1 ELSE 0) = l - n - 1
      BY <1>2, <2>1
    <3>2. /\ read_buf' \in Seq(Cell) /\ Len(read_buf') = IF n + 2 <= l THEN l - (n + 2) + 1 ELSE 0
          /\ \A i \in 1..l - (n + 2) + 1 : read_buf'[i] = read_buf[(n + 2) + i - 1]
      BY <1>2, <2>2, <3>1, SubSeqProperties
    <3>3. \A i \in 1..l - n - 1 : i \in 1..l - (n + 2) + 1 /\ (n + 2) + i - 1 = n + 1 + i
      BY <1>2, <2>1
    <3>4. QED
      BY <3>1, <3>2, <3>3
  <2>4. /\ t \in Seq(Cell) /\ Len(t) = l + m - n - 1
        /\ \A i \in 1..l + m - n - 1 : t[i] = q[n + 1 + i]
    <3>1. \A i \in n + 2..Len(q) : q[i] \in Cell
      BY <1>1, <1>2, <1>4, ElementOfSeq
    <3>2. /\ t \in Seq(Cell)
          /\ Len(t) = IF n + 2 <= Len(q) THEN Len(q) - (n + 2) + 1 ELSE 0
          /\ \A i \in 1..Len(q) - (n + 2) + 1 : t[i] = q[(n + 2) + i - 1]
      BY <1>2, <1>4, <3>1, SubSeqProperties
    <3>3. \A i \in 1..l + m - n - 1 :
            i \in 1..Len(q) - (n + 2) + 1 /\ (n + 2) + i - 1 = n + 1 + i
      BY <1>2, <2>1
    <3>4. (IF n + 2 <= Len(q) THEN Len(q) - (n + 2) + 1 ELSE 0) = l + m - n - 1
      BY <1>2, <2>1
    <3>5. QED
      BY <3>2, <3>3, <3>4
  <2>5. /\ r \in Seq(Cell) /\ Len(r) = (l - n - 1) + m
        /\ \A i \in 1..(l - n - 1) + m :
             r[i] = IF i <= l - n - 1 THEN read_buf'[i] ELSE wire[c][i - (l - n - 1)]
    <3>1. /\ r \in Seq(Cell) /\ Len(r) = Len(read_buf') + m
          /\ \A i \in 1..Len(read_buf') + m :
               r[i] = IF i <= Len(read_buf') THEN read_buf'[i] ELSE wire[c][i - Len(read_buf')]
      <4>1. read_buf' \in Seq(Cell) /\ wire[c] \in Seq(Cell) /\ r = read_buf' \o wire[c]
        BY <1>1, <1>3, <2>3
      <4>2. QED
        BY Zenon, <4>1, CellConcat DEF m
    <3>2. QED
      BY <2>3, <3>1
  <2> HIDE DEF l, m, t
  <2>6. ASSUME NEW i \in 1..Len(r) PROVE r[i] = t[i]
    <3>1. i \in 1..l + m - n - 1 /\ i \in 1..(l - n - 1) + m
      BY <1>2, <2>1, <2>5
    <3>2. CASE i <= l - n - 1
      <4>1. i \in 1..l - n - 1 /\ n + 1 + i \in 1..l
        BY <1>2, <2>1, <3>1, <3>2
      <4>2. q[n + 1 + i] = read_buf[n + 1 + i]
        BY <1>3, <4>1 DEF l
      <4>3. QED
        BY <2>3, <2>4, <2>5, <3>1, <3>2, <4>1, <4>2
    <3>3. CASE ~(i <= l - n - 1)
      <4>1. i - (l - n - 1) \in 1..m /\ l + (i - (l - n - 1)) = n + 1 + i
        BY <1>2, <2>1, <3>1, <3>3
      <4>2. q[l + (i - (l - n - 1))] = wire[c][i - (l - n - 1)]
        BY <1>3, <4>1 DEF l, m
      <4>3. QED
        BY <2>4, <2>5, <3>1, <3>3, <4>1, <4>2
    <3>4. QED
      BY <3>2, <3>3
  <2>7. Len(r) = Len(t)
    BY <1>2, <2>1, <2>4, <2>5
  <2>8. r = t
    BY <2>4, <2>5, <2>6, <2>7, SeqEqual
  <2>9. QED
    BY <2>8 DEF t
<1>7. ASSUME NEW e, Aligned(q, written[c], k, e)
      PROVE  /\ k + 1 \in 1..Len(written[c]) /\ n # 0
             /\ got'[c] = Append(got[c], written[c][k + 1]) /\ Len(got'[c]) = k + 1
             /\ Aligned(r, written[c], k + 1, e)
             /\ Whole(q, written[c], k, e) => Whole(r, written[c], k + 1, e)
             /\ Started(q, written[c], k, e) => Started(r, written[c], k + 1, e)
  <2>1. /\ k + 1 \in 1..Len(written[c]) /\ SubSeq(q, 2, n + 1) = written[c][k + 1]
        /\ Aligned(r, written[c], k + 1, e)
        /\ Whole(q, written[c], k, e) => Whole(r, written[c], k + 1, e)
        /\ Started(q, written[c], k, e) => Started(r, written[c], k + 1, e)
    <3>1. r = SubSeq(q, q[1] + 2, Len(q)) /\ Len(q) > q[1] /\ Len(q) > 0
      BY <1>4, <1>6
    <3>2. /\ k + 1 \in 1..Len(written[c]) /\ SubSeq(q, 2, q[1] + 1) = written[c][k + 1]
          /\ Aligned(r, written[c], k + 1, e)
          /\ Whole(q, written[c], k, e) => Whole(r, written[c], k + 1, e)
          /\ Started(q, written[c], k, e) => Started(r, written[c], k + 1, e)
      <4>1. q \in Seq(Cell) /\ written[c] \in Seq(Payload)
        BY <1>1
      <4>2. QED
        BY Zenon, <4>1, <1>7, <3>1, FrameTaken
    <3>3. QED
      BY <1>4, <3>2
  <2>2. n = Len(written[c][k + 1])
    BY <1>1, <1>4, <1>7, FirstCell
  <2>3. n # 0 /\ written[c][k + 1] \in Seq(Cell)
    BY <1>1, <2>1, <2>2, PayloadOf
  <2>4. got'[c] = Append(got[c], written[c][k + 1])
    BY <1>1, <1>2, <1>5, <2>1, <2>3
  <2>5. Len(got'[c]) = k + 1
    BY <1>1, <2>3, <2>4, AppendProperties DEF k
  <2>6. QED
    BY <2>1, <2>3, <2>4, <2>5
<1>8. PICK e : /\ Aligned(q, written[c], k, e)
               /\ c = cam /\ link[c] = "open" => Complete(c, e)
  <2>1. c >= gnd
    BY <1>1
  <2>2. QED
    BY <2>1 DEF Framed, q, k
<1>9. IsPrefix(got[c], written[c])'
  <2>1. IsPrefix(got[c], written[c])
    BY DEF Framed
  <2>2. IsPrefix(Append(got[c], written[c][k + 1]), written[c])
    BY <1>1, <1>7, <1>8, <2>1, PrefixGrows DEF k
  <2>3. QED
    BY <1>2, <1>7, <1>8, <2>2
<1>10. Aligned(Stream(c), written[c], Len(got[c]), e)'
  BY <1>2, <1>7, <1>8 DEF r
<1>11. ASSUME c = cam', link'[c] = "open" PROVE Complete(c, e)'
  <2>1. Complete(c, e)
    BY <1>2, <1>8, <1>11
  <2>2. ASSUME \A s \in Senders : pc[s] # "body", Whole(q, written[c], k, e)
        PROVE  Complete(c, e)'
    <3>1. Whole(Stream(c)', written'[c], Len(got'[c]), e)
      BY <1>2, <1>7, <1>8, <2>2 DEF r
    <3>2. QED
      BY <1>2, <2>2, <3>1 DEF Complete
  <2>3. ASSUME NEW s \in Senders, pc[s] = "body", ~AnotherInFrame(s),
               Started(q, written[c], k, e), frame[s] = written[c][Len(written[c])]
        PROVE  Complete(c, e)'
    <3>1. Started(Stream(c)', written'[c], Len(got'[c]), e)
      BY <1>2, <1>7, <1>8, <2>3 DEF r
    <3>2. pc'[s] = "body" /\ ~AnotherInFrame(s)' /\ frame'[s] = written'[c][Len(written'[c])]
      BY <1>2, <2>3 DEF AnotherInFrame
    <3>3. QED
      BY <3>1, <3>2 DEF Complete
  <2>4. QED
    BY <2>1, <2>2, <2>3 DEF Complete, q, k
<1>12. QED
  BY <1>9, <1>10, <1>11 DEF Framed

LEMMA RecvReadKeepsFraming ==
  ASSUME IInv, RecvRead, NEW c \in ConnIds, c \notin disturbed', Framed(c)
  PROVE  Framed(c)'
<1> USE DEF camera, ground
<1>1. /\ wire[c] \in Seq(Cell) /\ read_buf \in Seq(Cell) /\ gnd \in ConnIds
      /\ wire \in [ConnIds -> Seq(Cell)]
  BY StreamFacts DEF IInv, StreamType
<1>2. PICK n \in 1..Len(wire[gnd]) :
        /\ read_buf' = read_buf \o SubSeq(wire[gnd], 1, n)
        /\ wire' = [wire EXCEPT ![gnd] = SubSeq(@, n + 1, Len(@))]
  BY DEF RecvRead
<1>3. UNCHANGED <<pc, frame, cam, link, written, gnd, got>>
  BY DEF RecvRead
<1>4. Stream(c)' = Stream(c)
  <2>1. CASE c = gnd
    <3> DEFINE a == SubSeq(wire[c], 1, n)
               b == SubSeq(wire[c], n + 1, Len(wire[c]))
               l == Len(wire[c])
    <3>1. l \in Nat /\ n \in Nat /\ n <= l
      BY <1>1, <1>2, <2>1
    <3>2. \A i \in 1..l : wire[c][i] \in Cell
      BY <1>1, ElementOfSeq
    <3>3. a \in Seq(Cell) /\ Len(a) = n /\ \A i \in 1..n : a[i] = wire[c][i]
      <4>1. \A i \in 1..n : wire[c][i] \in Cell
        BY <3>1, <3>2
      <4>2. n - 1 + 1 = n /\ \A i \in 1..n : 1 + i - 1 = i
        BY <3>1
      <4>3. /\ a \in Seq(Cell) /\ Len(a) = IF 1 <= n THEN n - 1 + 1 ELSE 0
            /\ \A i \in 1..n - 1 + 1 : a[i] = wire[c][1 + i - 1]
        BY <3>1, <4>1, SubSeqProperties
      <4>4. QED
        BY <1>2, <4>2, <4>3
    <3>4. b \in Seq(Cell) /\ Len(b) = l - n /\ \A i \in 1..l - n : b[i] = wire[c][n + i]
      <4>1. \A i \in n + 1..l : wire[c][i] \in Cell
        BY <3>1, <3>2
      <4>2. l - (n + 1) + 1 = l - n /\ \A i \in 1..l - n : (n + 1) + i - 1 = n + i
        BY <3>1
      <4>3. /\ b \in Seq(Cell) /\ Len(b) = IF n + 1 <= l THEN l - (n + 1) + 1 ELSE 0
            /\ \A i \in 1..l - (n + 1) + 1 : b[i] = wire[c][(n + 1) + i - 1]
        BY <3>1, <4>1, SubSeqProperties
      <4>4. (IF n + 1 <= l THEN l - (n + 1) + 1 ELSE 0) = l - n
        BY <3>1
      <4>5. QED
        BY <4>2, <4>3, <4>4
    <3>5. a \o b = wire[c]
      <4>1. /\ a \o b \in Seq(Cell) /\ Len(a \o b) = Len(a) + Len(b)
            /\ \A i \in 1..Len(a) + Len(b) :
                 (a \o b)[i] = IF i <= Len(a) THEN a[i] ELSE b[i - Len(a)]
        BY Zenon, <3>3, <3>4, CellConcat
      <4> DEFINE t == a \o b
      <4>2. /\ t \in Seq(Cell) /\ Len(t) = l
            /\ \A i \in 1..l : t[i] = IF i <= n THEN a[i] ELSE b[i - n]
        <5>1. Len(a) + Len(b) = l
          BY <3>1, <3>3, <3>4
        <5>2. QED
          BY <3>3, <4>1, <5>1
      <4> HIDE DEF a, b, t
      <4>3. ASSUME NEW i \in 1..l PROVE t[i] = wire[c][i]
        <5>1. CASE i <= n
          BY <3>1, <3>3, <4>2, <5>1
        <5>2. CASE ~(i <= n)
          <6>1. i - n \in 1..l - n /\ n + (i - n) = i
            BY <3>1, <5>2
          <6>2. QED
            BY <3>4, <4>2, <5>2, <6>1
        <5>3. QED
          BY <5>1, <5>2
      <4>4. t = wire[c]
        BY <1>1, <4>2, <4>3, SeqEqual
      <4>5. QED
        BY <4>4 DEF t
    <3>6. (read_buf \o a) \o b = read_buf \o (a \o b)
      BY Zenon, <1>1, <3>3, <3>4, CellAssociative
    <3>7. read_buf' = read_buf \o a /\ wire'[c] = b
      BY <1>1, <1>2, <2>1
    <3>8. QED
      BY <1>3, <2>1, <3>5, <3>6, <3>7 DEF Stream
  <2>2. CASE c # gnd
    BY <1>1, <1>2, <1>3, <2>2 DEF Stream
  <2>3. QED
    BY <2>1, <2>2
<1>5. QED
  BY <1>3, <1>4, SameStream

LEMMA DispatcherKeepsFraming ==
  ASSUME IInv, Ground, NEW c \in ConnIds, c \notin disturbed', Framed(c)
  PROVE  Framed(c)'
<1> USE DEF camera, ground
<1>1. /\ wire[c] \in Seq(Cell) /\ read_buf \in Seq(Cell) /\ Stream(c) \in Seq(Cell)
      /\ written[c] \in Seq(Payload) /\ gnd \in ConnIds /\ gnd \in Nat /\ c \in Nat
      /\ got \in [ConnIds -> Seq(Seq(Cell))]
      /\ link \in [ConnIds -> {"none", "open", "closed", "reset"}]
  <2>1. c \in Nat
    BY Constants DEF ConnIds
  <2>2. QED
    BY <2>1, StreamFacts DEF IInv, StreamType, HistoryType
<1>2. CASE RecvFrame
  <2>1. CASE c = gnd
    BY <1>2, <2>1, RecvFrameKeepsFraming
  <2>2. CASE c # gnd
    <3>1. UNCHANGED <<pc, frame, cam, wire, link, gnd, written>> /\ got'[c] = got[c]
      BY <1>1, <1>2, <2>2 DEF RecvFrame
    <3>2. Stream(c)' = Stream(c)
      BY <2>2, <3>1 DEF Stream
    <3>3. QED
      BY <3>1, <3>2, SameStream
  <2>3. QED
    BY <2>1, <2>2
<1>3. CASE RecvOversize
  <2>1. UNCHANGED <<pc, frame, cam, wire, link, gnd, got, written, disturbed>>
    BY <1>3 DEF RecvOversize
  <2>2. CASE c # gnd
    <3>1. Stream(c)' = Stream(c)
      BY <2>1, <2>2 DEF Stream
    <3>2. QED
      BY <2>1, <3>1, SameStream
  <2>3. c # gnd
    <3> SUFFICES ASSUME c = gnd PROVE FALSE
      OBVIOUS
    <3>1. c >= gnd
      BY <1>1
    <3>2. PICK e : Aligned(Stream(c), written[c], Len(got[c]), e)
      BY <3>1 DEF Framed
    <3>3. read_buf # <<>> /\ read_buf[1] > MaxLen
      BY <1>3 DEF RecvOversize, Oversize
    <3>4. Len(read_buf) \in Nat /\ Len(read_buf) > 0 /\ Len(wire[c]) \in Nat
      BY <1>1, <3>3, EmptySeq, LenProperties
    <3>5. Len(Stream(c)) > 0 /\ Stream(c)[1] = read_buf[1]
      <4>1. /\ Len(read_buf \o wire[c]) = Len(read_buf) + Len(wire[c])
            /\ \A i \in 1..Len(read_buf) + Len(wire[c]) :
                 (read_buf \o wire[c])[i] = IF i <= Len(read_buf) THEN read_buf[i]
                                            ELSE wire[c][i - Len(read_buf)]
        BY Zenon, <1>1, CellConcat
      <4>2. 1 \in 1..Len(read_buf) + Len(wire[c]) /\ 1 <= Len(read_buf)
        BY <3>4
      <4>3. Stream(c) = read_buf \o wire[c]
        BY DEF Stream
      <4>4. QED
        BY <3>4, <4>1, <4>2, <4>3
    <3>6. /\ Len(got[c]) + 1 \in 1..Len(written[c])
          /\ read_buf[1] = Len(written[c][Len(got[c]) + 1])
      BY <1>1, <3>2, <3>5, FirstCell
    <3>7. written[c][Len(got[c]) + 1] \in Payload
      BY <1>1, <3>6, ElementOfSeq
    <3>8. read_buf[1] \in 1..MaxLen
      BY <3>6, <3>7, PayloadType
    <3>9. QED
      BY <3>3, <3>8, Constants
  <2>4. QED
    BY <2>2, <2>3
<1>4. CASE RecvRead
  BY <1>4, RecvReadKeepsFraming
<1>5. CASE RecvError \/ SendTakesError
  <2>1. /\ UNCHANGED <<pc, frame, cam, wire, gnd, read_buf, got, written>>
        /\ link'[c] = "open" => link[c] = "open"
    BY <1>1, <1>5 DEF RecvError, SendTakesError
  <2>2. Stream(c)' = Stream(c)
    BY <2>1 DEF Stream
  <2>3. QED
    BY <2>1, <2>2, SameStream
<1>6. CASE Reconnect
  <2>1. /\ UNCHANGED <<pc, frame, cam, wire, link, read_buf, got, written>>
        /\ gnd' = gnd + 1
        /\ disturbed' = disturbed \cup IF read_buf # <<>> THEN {gnd + 1} ELSE {}
    BY <1>6 DEF Reconnect
  <2>2. ASSUME c >= gnd' PROVE c >= gnd /\ Stream(c)' = Stream(c)
    <3>1. c >= gnd /\ c # gnd
      BY <1>1, <2>1, <2>2
    <3>2. CASE c = gnd + 1
      <4>1. read_buf = <<>>
        BY <2>1, <3>2
      <4>2. read_buf \o wire[c] = wire[c]
        BY <1>1, <4>1, ConcatEmptySeq
      <4>3. QED
        BY <2>1, <3>1, <3>2, <4>2 DEF Stream
    <3>3. CASE c # gnd + 1
      BY <2>1, <3>1, <3>3 DEF Stream
    <3>4. QED
      BY <3>2, <3>3
  <2>3. QED
    BY <2>1, <2>2, SameStream
<1>7. QED
  BY <1>2, <1>3, <1>4, <1>5, <1>6 DEF Ground, Dispatcher

LEMMA FramingInitially == Init => FramingInv
<1> SUFFICES ASSUME Init PROVE FramingInv
  OBVIOUS
<1>1. gnd = 1 /\ cam = 1 /\ up = TRUE /\ read_buf = <<>> /\ disturbed = {}
  BY DEF Init
<1>2. ASSUME NEW c \in ConnIds
      PROVE  wire[c] = <<>> /\ written[c] = <<>> /\ got[c] = <<>> /\ Stream(c) = <<>>
  <2>1. wire[c] = <<>> /\ written[c] = <<>> /\ got[c] = <<>>
    BY DEF Init
  <2>2. <<>> \o <<>> = <<>>
    BY ConcatEmptySeq
  <2>3. QED
    BY <1>1, <2>1, <2>2 DEF Stream
<1>3. Untouched
  BY <1>1, <1>2 DEF Untouched
<1> DEFINE e == [i \in 0..0 |-> 0]
<1>4. Whole(<<>>, <<>>, 0, e)
  <2>1. Len(<<>>) = 0 /\ e \in [0..0 -> Nat] /\ e[0] = 0
    OBVIOUS
  <2> HIDE DEF e
  <2>2. Ends(e, <<>>)
    <3>1. 1..0 = {} /\ \A i, j \in 0..0 : ~(i < j)
      OBVIOUS
    <3>2. QED
      BY <2>1, <3>1 DEF Ends
  <2>3. Aligned(<<>>, <<>>, 0, e)
    <3>1. 0 + 1..0 = {} /\ 0 \in 0..0 /\ e[0] + 0 <= e[0] /\ e[0] + 0 = e[0]
      BY <2>1
    <3>2. QED
      BY <2>1, <2>2, <3>1 DEF Aligned
  <2>4. QED
    BY <2>1, <2>3 DEF Whole
<1>5. ASSUME NEW c \in ConnIds PROVE Framed(c)
  <2>1. Whole(Stream(c), written[c], Len(got[c]), e)
    <3>1. Len(got[c]) = 0
      BY <1>2
    <3>2. QED
      BY <1>2, <1>4, <3>1
  <2>2. \A s \in Senders : pc[s] # "body"
    BY DEF Init
  <2>3. Complete(c, e)
    BY <2>1, <2>2 DEF Complete
  <2>4. Aligned(Stream(c), written[c], Len(got[c]), e)
    BY <2>1 DEF Whole
  <2>5. IsPrefix(got[c], written[c])
    <3>2. IsPrefix(<<>>, <<>>)
      BY DEF IsPrefix
    <3>3. QED
      BY <1>2, <3>2
  <2>6. QED
    BY <2>3, <2>4, <2>5 DEF Framed
<1>6. QED
  BY <1>3, <1>5 DEF FramingInv

LEMMA FramingKept == IInv /\ FramingInv /\ [Next]_vars => FramingInv'
<1> SUFFICES ASSUME IInv, FramingInv, [Next]_vars PROVE FramingInv'
  OBVIOUS
<1>1. Untouched'
  BY UntouchedKept DEF FramingInv
<1>2. disturbed \subseteq disturbed'
  BY DEF Next, Camera, SendBegins, Write, WriteFails, World, LinkLost, CameraEnds,
         CameraConnects, Ground, Dispatcher, SendTakesError, RecvFrame, RecvOversize,
         RecvRead, RecvError, Reconnect, vars
<1>3. ASSUME NEW c \in ConnIds, c \notin disturbed' PROVE Framed(c)'
  <2>1. Framed(c)
    BY <1>2, <1>3 DEF FramingInv
  <2>2. ASSUME NEW s \in Senders, SendBegins(s) PROVE Framed(c)'
    <3>1. /\ UNCHANGED <<cam, wire, link, gnd, read_buf, got, written>>
          /\ pc[s] = "idle" /\ pc' = [pc EXCEPT ![s] = "prefix"]
          /\ \E p \in Payload : frame' = [frame EXCEPT ![s] = p]
          /\ pc \in [Senders -> {"idle", "prefix", "body"}] /\ frame \in [Senders -> Seq(Nat)]
      BY <2>2 DEF SendBegins, ground, IInv, CameraType
    <3>2. Stream(c)' = Stream(c)
      BY <3>1 DEF Stream
    <3>3. /\ \A t \in Senders : pc'[t] = "body" <=> pc[t] = "body"
          /\ \A t \in Senders : pc[t] = "body" => frame'[t] = frame[t]
      BY <3>1
    <3>4. QED
      BY <2>1, <3>1, <3>2, <3>3, SameStream
  <2>3. CASE UNCHANGED vars
    <3>1. Stream(c)' = Stream(c) /\ UNCHANGED <<pc, frame, cam, link, gnd, got, written>>
      BY <2>3 DEF Stream, vars
    <3>2. QED
      BY <2>1, <3>1, SameStream
  <2>4. QED
    BY <1>3, <2>1, <2>2, <2>3, WriteKeepsFraming, WriteFailsKeepsFraming, WorldKeepsFraming,
       DispatcherKeepsFraming DEF Next, Camera, FramingInv
<1>4. QED
  BY <1>1, <1>3 DEF FramingInv

\* Every reachable state is typed and framed.
THEOREM FramingInvariant == Spec => [](IInv /\ FramingInv)
<1>1. IInv /\ [Next]_vars => IInv'
  BY TypesKept
<1>2. QED
  BY <1>1, Initially, FramingInitially, FramingKept, PTL DEF Spec

\* On a connection on which nobody wrote into another's frame, no write was cut short
\* and no old bytes were left, recv returns the payloads in the order they were begun,
\* each once and unchanged, however the reads cut the stream and wherever it was lost.
THEOREM FramingTheorem == Spec => []UndisturbedFraming
<1>1. FramingInv => UndisturbedFraming
  BY DEF FramingInv, Framed, UndisturbedFraming
<1>2. QED
  BY <1>1, FramingInvariant, PTL

\* Nothing is held back or dropped on such a connection: while it is open, a stream
\* and a read_buf that are empty mean that recv has returned all that was begun.
THEOREM NothingVanishesTheorem == Spec => []NothingVanishes
<1>1. ASSUME IInv, FramingInv PROVE NothingVanishes
  <2> SUFFICES ASSUME gnd \notin disturbed, gnd = cam, link[gnd] = "open",
                      wire[gnd] = <<>>, read_buf = <<>>
               PROVE  got[gnd] = written[gnd] /\ \A s \in Senders : pc[s] # "body"
    BY DEF NothingVanishes
  <2>1. gnd \in ConnIds /\ gnd \in Nat
    BY <1>1, Constants DEF IInv, CameraType, ConnIds
  <2>2. /\ written[gnd] \in Seq(Payload) /\ written[gnd] \in Seq(Seq(Cell))
        /\ got[gnd] \in Seq(Seq(Cell)) /\ Stream(gnd) \in Seq(Cell)
    BY <1>1, <2>1, StreamFacts
  <2>3. gnd >= gnd /\ Framed(gnd)
    BY <1>1, <2>1 DEF FramingInv
  <2>4. PICK e : Complete(gnd, e)
    BY <2>3 DEF Framed
  <2>5. Stream(gnd) = <<>> /\ Len(Stream(gnd)) = 0
    <3>1. <<>> \o <<>> = <<>>
      BY ConcatEmptySeq
    <3>2. Stream(gnd) = <<>>
      BY <3>1 DEF Stream
    <3>3. QED
      BY <3>2
  <2>6. ~Started(Stream(gnd), written[gnd], Len(got[gnd]), e)
    <3>1. Started(Stream(gnd), written[gnd], Len(got[gnd]), e) => Len(Stream(gnd)) > 0
      BY <2>2, StartedFacts
    <3>2. QED
      BY <2>5, <3>1
  <2>7. /\ \A s \in Senders : pc[s] # "body"
        /\ Whole(Stream(gnd), written[gnd], Len(got[gnd]), e)
    BY <2>4, <2>6 DEF Complete
  <2>8. Len(got[gnd]) = Len(written[gnd])
    BY <2>2, <2>5, <2>7, NothingLeft
  <2>9. got[gnd] = written[gnd]
    BY <2>2, <2>3, <2>8, PrefixGrows DEF Framed
  <2>10. QED
    BY <2>7, <2>9
<1>2. QED
  BY <1>1, FramingInvariant, PTL
===============================================================================
