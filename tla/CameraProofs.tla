----------------------------- MODULE CameraProofs -----------------------------
(***************************************************************************)
(* Proofs about the camera's video thread (VideoTx) and about the channels *)
(* and threads around it (Downlink), for every value of the constants.     *)
(*                                                                         *)
(* Downlink has a variable pc, and names like TypeOK and Next, of its own; *)
(* it is taken as D, with threads for its pc.                              *)
(***************************************************************************)
EXTENDS VideoTx, SequenceTheorems, WellFoundedInduction, TLAPS

CONSTANTS HpCap, DownlinkCap, TelemCap

VARIABLES downlink, telem, hp, threads, restarted, joined

D == INSTANCE Downlink WITH pc <- threads

\* Downlink as VideoTx shows it: no thread but video_tx takes a step.
Label   == CASE pc \in Ended -> "ended" [] pc = "top" -> "loop" [] OTHER -> "read"
Thread0 == [t \in D!Threads |-> IF t = "video_tx" THEN Label ELSE "loop"]

Alone == INSTANCE Downlink
           WITH downlink <- 0, telem <- 0, hp <- <<>>, joined <- 0, pc <- Thread0,
                restarted <- life > 1

-----------------------------------------------------------------------------
(* Cells, and what is taken out of the buffer.                             *)

\* Cell d comes behind cell c in what a camera process writes.
Follows(c, d) ==
  \/ c.end /\ d.pos = 0
  \/ /\ ~c.end
     /\ d.life = c.life /\ d.nal = c.nal /\ d.kind = c.kind
     /\ d.pos = c.pos + 1

\* A start code is not the end of its NAL unit, and a parameter set fits into a slot.
IsCell(c) ==
  /\ c.pos = 0 \/ c.pos = 1 => ~c.end
  /\ c.kind \in Params => c.pos + 2 <= MaxData

\* An uninterrupted piece of the stream, up to the end of a NAL unit.
Stream(w) ==
  /\ \A i \in DOMAIN w : IsCell(w[i])
  /\ \A i \in DOMAIN w : IF i = Len(w) THEN w[i].end ELSE Follows(w[i], w[i + 1])

\* The first whole start code of buf is at s, and its NAL unit goes as far as e.
Cut(buf, s, e) ==
  /\ s \in Starts(buf) /\ e \in (s + 1)..Len(buf)
  /\ \A i \in 1..e : i \in Starts(buf) <=> i = s
  /\ e = Len(buf) \/ e + 1 \in Starts(buf)

\* Where the whole start codes of a sequence of cells are.
LEMMA StartsAre ==
  ASSUME NEW S, NEW buf \in Seq(S)
  PROVE  /\ Len(buf) \in Nat /\ DOMAIN buf = 1..Len(buf)
         /\ \A i : i \in Starts(buf) <=> /\ i \in 1..Len(buf) /\ i + 1 \in 1..Len(buf)
                                          /\ buf[i].pos = 0 /\ buf[i + 1].pos = 1
<1>1. Len(buf) \in Nat /\ DOMAIN buf = 1..Len(buf)
  BY LenProperties
<1>2. QED
  BY <1>1 DEF Starts

\* A set of natural numbers has a least element.
LEMMA Least ==
  ASSUME NEW T \in SUBSET Nat, T # {}
  PROVE  \E n \in T : \A k \in T : n <= k
<1>1. PICK n \in T : \A k \in T : ~(<<k, n>> \in OpToRel(<, Nat))
  BY NatLessThanWellFounded, WFMin, Zenon
<1>2. \A k \in T : ~(k < n)
  BY <1>1, Zenon DEF OpToRel
<1>3. QED
  BY <1>2

LEMMA FirstIsLeast ==
  ASSUME NEW T \in SUBSET Nat, T # {}
  PROVE  First(T) \in T /\ \A k \in T : First(T) <= k
<1>1. \E n \in T : \A k \in T : n <= k
  BY Least
<1>2. QED
  BY <1>1 DEF First

\* A piece of a sequence.
LEMMA Piece ==
  ASSUME NEW S, NEW w \in Seq(S), NEW s \in 1..(Len(w) + 1), NEW e \in (s - 1)..Len(w)
  PROVE  /\ SubSeq(w, s, e) \in Seq(S)
         /\ Len(SubSeq(w, s, e)) = e - s + 1
         /\ DOMAIN SubSeq(w, s, e) = 1..(e - s + 1)
         /\ \A i \in 1..(e - s + 1) : SubSeq(w, s, e)[i] = w[s + i - 1]
<1>1. Len(w) \in Nat /\ \A i \in 1..Len(w) : w[i] \in S
  BY LenProperties, ElementOfSeq
<1>2. s \in Int /\ e \in Int /\ \A i \in s..e : i \in 1..Len(w)
  BY <1>1
<1>3. \A i \in s..e : w[i] \in S
  BY <1>1, <1>2
<1> DEFINE t == SubSeq(w, s, e)
<1>4. /\ t \in Seq(S)
      /\ Len(t) = IF s <= e THEN e - s + 1 ELSE 0
      /\ \A i \in 1..(e - s + 1) : t[i] = w[s + i - 1]
  BY <1>2, <1>3, SubSeqProperties
<1> HIDE DEF t
<1>5. Len(t) = e - s + 1
  BY <1>1, <1>4
<1>6. DOMAIN t = 1..(e - s + 1)
  BY <1>4, <1>5, LenProperties
<1>7. QED
  BY <1>4, <1>5, <1>6 DEF t

\* What is taken out of the buffer.
LEMMA ExtractCuts ==
  ASSUME NEW buf \in Seq(Cell), Starts(buf) # {}
  PROVE  \E s, e \in 1..Len(buf) :
           /\ Cut(buf, s, e)
           /\ Extract(buf) \in Seq(Cell)
           /\ Len(Extract(buf)) = e - s + 1
           /\ DOMAIN Extract(buf) = 1..(e - s + 1)
           /\ \A i \in 1..(e - s + 1) : Extract(buf)[i] = buf[s + i - 1]
<1> DEFINE s == First(Starts(buf))
           later == {i \in Starts(buf) : i > s}
           e == IF later = {} THEN Len(buf) ELSE First(later) - 1
<1>1. Len(buf) \in Nat /\ DOMAIN buf = 1..Len(buf)
  BY LenProperties
<1>2. /\ Starts(buf) \in SUBSET Nat
      /\ \A i : i \in Starts(buf) <=> /\ i \in 1..Len(buf) /\ i + 1 \in 1..Len(buf)
                                       /\ buf[i].pos = 0 /\ buf[i + 1].pos = 1
  BY <1>1, StartsAre DEF Starts
<1>3. s \in Starts(buf) /\ \A k \in Starts(buf) : s <= k
  BY <1>2, FirstIsLeast
<1>4. later # {} => First(later) \in later /\ \A k \in later : First(later) <= k
  BY <1>2, FirstIsLeast
<1>5. Extract(buf) = SubSeq(buf, s, e)
  BY DEF Extract
<1> HIDE DEF s
<1>6. e \in (s + 1)..Len(buf) /\ s \in 1..Len(buf)
  <2>1. s \in 1..Len(buf) /\ s + 1 \in 1..Len(buf) /\ buf[s + 1].pos = 1
    BY <1>2, <1>3
  <2>2. CASE later = {}
    BY <1>1, <2>1, <2>2
  <2>3. CASE later # {}
    <3>1. First(later) \in 1..Len(buf) /\ First(later) > s /\ buf[First(later)].pos = 0
      BY <1>2, <1>4, <2>3
    <3>2. First(later) # s + 1
      BY <2>1, <3>1
    <3>3. e = First(later) - 1
      BY <2>3
    <3> HIDE DEF later, e
    <3>4. QED
      BY <1>1, <2>1, <3>1, <3>2, <3>3
  <2>4. QED
    BY <2>2, <2>3
<1>7. \A i \in 1..e : i \in Starts(buf) <=> i = s
  <2> SUFFICES ASSUME NEW i \in 1..e, i \in Starts(buf), i # s
               PROVE  FALSE
    BY <1>3
  <2>0. i \in Nat
    BY <1>2
  <2>1. i \in later
    BY <1>2, <1>3, <1>6, <2>0
  <2>2. e = First(later) - 1 /\ First(later) \in Nat
    BY <1>2, <1>4, <2>1
  <2>3. First(later) <= i
    BY <1>4, <2>1
  <2> HIDE DEF e, later
  <2>4. QED
    BY <2>2, <2>3
<1>8. e = Len(buf) \/ e + 1 \in Starts(buf)
  <2>1. CASE later = {}
    BY <2>1
  <2>2. CASE later # {}
    <3>1. First(later) \in Nat /\ First(later) \in Starts(buf)
      BY <1>2, <1>4, <2>2
    <3>2. e + 1 = First(later)
      BY <2>2, <3>1
    <3>3. QED
      BY <3>1, <3>2
  <2>3. QED
    BY <2>1, <2>2
<1> HIDE DEF e
<1>9. Cut(buf, s, e)
  BY <1>3, <1>6, <1>7, <1>8 DEF Cut
<1>10. s \in 1..(Len(buf) + 1) /\ e \in (s - 1)..Len(buf) /\ e \in 1..Len(buf)
  BY <1>1, <1>6
<1>11. /\ SubSeq(buf, s, e) \in Seq(Cell)
       /\ Len(SubSeq(buf, s, e)) = e - s + 1
       /\ DOMAIN SubSeq(buf, s, e) = 1..(e - s + 1)
       /\ \A i \in 1..(e - s + 1) : SubSeq(buf, s, e)[i] = buf[s + i - 1]
  BY <1>10, Piece
<1>12. QED
  BY <1>5, <1>6, <1>9, <1>10, <1>11

\* Cells that follow each other, with no start code but the first, are of one NAL unit.
LEMMA OneNal ==
  ASSUME NEW buf \in Seq(Cell), NEW s \in 1..Len(buf), NEW e \in s..Len(buf),
         buf[s].pos = 0,
         \A i \in s..(e - 1) : Follows(buf[i], buf[i + 1]) /\ buf[i + 1].pos # 0
  PROVE  \A i \in s..e : /\ buf[i].life = buf[s].life /\ buf[i].nal = buf[s].nal
                         /\ buf[i].kind = buf[s].kind /\ buf[i].pos = i - s
<1> DEFINE Same(i) == /\ buf[i].life = buf[s].life /\ buf[i].nal = buf[s].nal
                      /\ buf[i].kind = buf[s].kind /\ buf[i].pos = i - s
           Bad == {i \in s..e : ~Same(i)}
<1>1. Len(buf) \in Nat /\ s \in Nat /\ e \in Nat
  BY LenProperties
<1> SUFFICES ASSUME Bad # {} PROVE FALSE
  OBVIOUS
<1>2. Bad \in SUBSET Nat
  BY <1>1
<1>3. PICK i \in Bad : \A k \in Bad : i <= k
  BY <1>2, Least
<1>4. i \in s..e /\ ~Same(i) /\ i \in Nat
  BY <1>2
<1>5. Same(s)
  BY <1>1
<1>6. i # s
  BY <1>4, <1>5
<1>7. i - 1 \in s..(e - 1) /\ (i - 1) + 1 = i /\ i - 1 \in s..e /\ ~(i <= i - 1)
  BY <1>1, <1>4, <1>6
<1>8. Same(i - 1)
  BY <1>3, <1>7
<1>9. /\ buf[i].life = buf[i - 1].life /\ buf[i].nal = buf[i - 1].nal
      /\ buf[i].kind = buf[i - 1].kind /\ buf[i].pos = buf[i - 1].pos + 1
  <2>1. Follows(buf[i - 1], buf[i]) /\ buf[i].pos # 0
    BY <1>7
  <2>2. QED
    BY <2>1 DEF Follows
<1>10. buf[i].pos = i - s
  BY <1>1, <1>4, <1>8, <1>9
<1>11. Same(i)
  BY <1>8, <1>9, <1>10
<1>12. QED
  BY <1>4, <1>11

LEMMA Constants ==
  /\ FragHdr \in Nat /\ MaxShard \in Nat /\ MaxData \in Nat /\ MaxData >= 3
  /\ FragHdr + MaxData = MaxShard
  /\ NalMod \in Nat \ {0} /\ Lives \in Nat /\ Lives > 0 /\ Nals \in Nat
  /\ MaxNalBuf \in Nat /\ ReadMax \in Nat
  /\ None \notin Nat
  BY VideoTxAssumption DEF MaxData

\* A NAL unit is taken: cells s to e of the buffer, of which as many are drained from
\* its front.
LEMMA Taking ==
  ASSUME nal_buf \in Seq(Cell), Found
  PROVE  \E s, e \in 1..Len(nal_buf) :
           /\ Cut(nal_buf, s, e) /\ s + 1 < e
           /\ nal_data \in Seq(Cell)
           /\ Len(nal_data) = e - s + 1 /\ DOMAIN nal_data = 1..(e - s + 1)
           /\ \A i \in 1..(e - s + 1) : nal_data[i] = nal_buf[s + i - 1]
           /\ Drained \in Seq(Cell)
           /\ Len(Drained) = Len(nal_buf) - (e - s + 1)
           /\ DOMAIN Drained = 1..(Len(nal_buf) - (e - s + 1))
           /\ \A i \in 1..(Len(nal_buf) - (e - s + 1)) : Drained[i] = nal_buf[(e - s + 1) + i]
<1> DEFINE m == Len(nal_buf)
<1>1. m \in Nat
  BY LenProperties
<1>2. Starts(nal_buf) # {}
  <2>1. Len(<<>>) = 0
    BY EmptySeq
  <2>2. QED
    BY <2>1 DEF Found, nal_data, Extract
<1>3. PICK s, e \in 1..m :
        /\ Cut(nal_buf, s, e)
        /\ nal_data \in Seq(Cell)
        /\ Len(nal_data) = e - s + 1 /\ DOMAIN nal_data = 1..(e - s + 1)
        /\ \A i \in 1..(e - s + 1) : nal_data[i] = nal_buf[s + i - 1]
  BY <1>2, ExtractCuts DEF nal_data
<1> DEFINE n == e - s + 1
<1>4. s + 1 < e
  <2>1. n > 2
    BY <1>3 DEF Found
  <2>2. QED
    BY <1>1, <2>1
<1>5. n \in Nat /\ n + 1 \in 1..(m + 1) /\ m \in ((n + 1) - 1)..m /\ m - (n + 1) + 1 = m - n
  BY <1>1, <1>4
<1>6. Drained = SubSeq(nal_buf, n + 1, m)
  BY <1>3 DEF Drained
<1> HIDE DEF n
<1>7. /\ Drained \in Seq(Cell)
      /\ Len(Drained) = m - n
      /\ DOMAIN Drained = 1..(m - n)
      /\ \A i \in 1..(m - n) : Drained[i] = nal_buf[(n + 1) + i - 1]
  <2> DEFINE p == n + 1
             q == m - n
  <2>1. p \in 1..(m + 1) /\ m \in (p - 1)..m /\ m - p + 1 = q
    BY <1>5
  <2> HIDE DEF p
  <2>2. /\ SubSeq(nal_buf, p, m) \in Seq(Cell)
        /\ Len(SubSeq(nal_buf, p, m)) = m - p + 1
        /\ DOMAIN SubSeq(nal_buf, p, m) = 1..(m - p + 1)
        /\ \A i \in 1..(m - p + 1) : SubSeq(nal_buf, p, m)[i] = nal_buf[p + i - 1]
    BY <2>1, Piece
  <2>3. QED
    BY <1>6, <2>1, <2>2 DEF p
<1>8. \A i \in 1..(m - n) : (n + 1) + i - 1 = n + i
  BY <1>1, <1>5
<1>9. \A i \in 1..(m - n) : Drained[i] = nal_buf[n + i]
  BY <1>7, <1>8
<1>10. QED
  BY <1>3, <1>4, <1>7, <1>9 DEF n

\* What is kept of a buffer that is too long is its end.
LEMMA MadeRoomIsEnd ==
  ASSUME nal_buf \in Seq(Cell), NEW n
  PROVE  /\ MadeRoom(n) \in Seq(Cell)
         /\ MadeRoom(n) = <<>> \/ \E s \in 1..(Len(nal_buf) + 1) :
              MadeRoom(n) = SubSeq(nal_buf, s, Len(nal_buf))
         /\ MadeRoom(n) # nal_buf =>
              \/ MadeRoom(n) = <<>> /\ \A i \in Starts(nal_buf) : i <= Len(nal_buf) \div 4
              \/ \E s \in Starts(nal_buf) :
                   /\ s > Len(nal_buf) \div 4
                   /\ \A i \in Starts(nal_buf) : i > Len(nal_buf) \div 4 => s <= i
                   /\ MadeRoom(n) = SubSeq(nal_buf, s, Len(nal_buf))
<1> DEFINE m == Len(nal_buf)
           late == {i \in Starts(nal_buf) : i > m \div 4}
<1>1. m \in Nat /\ DOMAIN nal_buf = 1..m /\ <<>> \in Seq(Cell)
  BY LenProperties, EmptySeq
<1>2. Starts(nal_buf) \in SUBSET (1..m) /\ late \in SUBSET Nat /\ late \subseteq Starts(nal_buf)
  BY <1>1 DEF Starts
<1>3. \/ MadeRoom(n) = nal_buf
      \/ MadeRoom(n) = <<>> /\ late = {}
      \/ late # {} /\ MadeRoom(n) = SubSeq(nal_buf, First(late), m)
  BY DEF MadeRoom
<1>4. late # {} => First(late) \in late /\ \A k \in late : First(late) <= k
  BY <1>2, FirstIsLeast
<1>5. CASE MadeRoom(n) = nal_buf
  <2>1. nal_buf = SubSeq(nal_buf, 1, m) /\ 1 \in 1..(m + 1)
    BY <1>1, SubSeqFull
  <2>2. QED
    BY <1>5, <2>1
<1>6. CASE MadeRoom(n) = <<>> /\ late = {}
  <2>1. \A i \in Starts(nal_buf) : i <= m \div 4
    BY <1>1, <1>2, <1>6
  <2>2. QED
    BY <1>1, <1>6, <2>1
<1>7. CASE late # {} /\ MadeRoom(n) = SubSeq(nal_buf, First(late), m)
  <2> DEFINE s == First(late)
  <2>1. /\ s \in Starts(nal_buf) /\ s > m \div 4
        /\ \A i \in Starts(nal_buf) : i > m \div 4 => s <= i
    BY <1>4, <1>7
  <2>2. MadeRoom(n) = SubSeq(nal_buf, s, m)
    BY <1>7
  <2> HIDE DEF s
  <2>3. s \in 1..(m + 1) /\ m \in (s - 1)..m
    BY <1>1, <1>2, <2>1
  <2>4. SubSeq(nal_buf, s, m) \in Seq(Cell)
    BY <2>3, Piece
  <2>5. QED
    BY <2>1, <2>2, <2>3, <2>4
<1>8. QED
  BY <1>3, <1>5, <1>6, <1>7

\* What the camera process writes at once.
LEMMA NalOfIsSeq ==
  ASSUME life \in 1..Lives, made \in 0..Nals, made < Nals, NEW kind \in Kinds, NEW len \in Nat
  PROVE  /\ NalOf(kind, len) \in Seq(Cell)
         /\ Len(NalOf(kind, len)) = len + 2
         /\ DOMAIN NalOf(kind, len) = 1..(len + 2)
<1> DEFINE t == NalOf(kind, len)
<1>1. t \in [1..(len + 2) -> Cell]
  <2>1. made + 1 \in 1..Nals /\ \A i \in 1..(len + 2) : i - 1 \in Nat
    BY Constants
  <2>2. \A i \in 1..(len + 2) :
          [life |-> life, nal |-> made + 1, kind |-> kind, pos |-> i - 1, end |-> i = len + 2] \in Cell
    BY <2>1 DEF Cell
  <2>3. QED
    BY <2>2 DEF NalOf
<1>2. len + 2 \in Nat /\ DOMAIN t = 1..(len + 2)
  BY DEF NalOf
<1> HIDE DEF t
<1>3. t \in Seq(Cell)
  BY <1>1, <1>2, SeqDef
<1>4. Len(t) = len + 2
  BY <1>2, <1>3, LenProperties
<1>5. QED
  BY <1>2, <1>3, <1>4 DEF t

-----------------------------------------------------------------------------
(* Types.                                                                  *)

\* What the ground holds keeps its type, whether the group reaches it or not.
LEMMA TransmitType ==
  ASSUME NEW data \in Seq(Cell), nal_seq \in NalIds,
         assembly \in [NalIds -> Seq(Cell) \cup {None}], shown \in Seq(Cell),
         Transmit([num |-> 1, id |-> nal_seq, data |-> data])
  PROVE  assembly' \in [NalIds -> Seq(Cell) \cup {None}] /\ shown' \in Seq(Cell)
<1> DEFINE f == [num |-> 1, id |-> nal_seq, data |-> data]
<1>1. CASE UNCHANGED receiver
  BY <1>1 DEF receiver
<1>2. CASE assembly' = emit_block(f).assembly /\ shown' = emit_block(f).shown
  <2>1. emit_block(f) = [assembly |-> [assembly EXCEPT ![nal_seq] = data], shown |-> shown]
    <3>1. f.num = 1 /\ f.id = nal_seq /\ f.data = data
      OBVIOUS
    <3> HIDE DEF f
    <3>2. QED
      BY <3>1 DEF emit_block
  <2>2. assembly' = [assembly EXCEPT ![nal_seq] = data] /\ shown' = shown
    <3> DEFINE r == emit_block(f)
    <3>1. assembly' = r.assembly /\ shown' = r.shown
      BY <1>2
    <3>2. r = [assembly |-> [assembly EXCEPT ![nal_seq] = data], shown |-> shown]
      BY <2>1
    <3> HIDE DEF r
    <3>3. QED
      BY <3>1, <3>2
  <2>3. QED
    BY <2>2
<1>3. QED
  BY <1>1, <1>2 DEF Transmit

LEMMA ZeroIsId == 0 \in NalIds
BY Constants DEF NalIds

LEMMA NextIdType == nal_seq \in NalIds => NextId \in NalIds
BY Constants DEF NalIds, NextId

\* The parameter sets keep their type.
LEMMA StoreType ==
  ASSUME nal_data \in Seq(Cell), sps \in Seq(Cell), pps \in Seq(Cell), Store
  PROVE  sps' \in Seq(Cell) /\ pps' \in Seq(Cell)
BY DEF Store

\* TypeOK is inductive.
LEMMA TypeStep == TypeOK /\ [Next]_vars => TypeOK'
<1> SUFFICES ASSUME TypeOK, [Next]_vars PROVE TypeOK'
  OBVIOUS
<1> USE DEF TypeOK
<1>0. <<>> \in Seq(Cell) /\ \A a, b \in Seq(Cell) : a \o b \in Seq(Cell)
  BY EmptySeq, ConcatProperties
<1>1. CASE CameraWrites
  <2>0. PICK kind \in Kinds : \E len \in LensOf(kind) :
          pipe' = pipe \o NalOf(kind, len)
    BY <1>1 DEF CameraWrites
  <2>1. PICK len \in LensOf(kind) :
          pipe' = pipe \o NalOf(kind, len)
    BY <2>0
  <2>2. len \in Nat
    BY VideoTxAssumption DEF VideoTxAssumption, LensOf
  <2>3. NalOf(kind, len) \in Seq(Cell)
    BY <1>1, <2>2, NalOfIsSeq DEF CameraWrites
  <2>4. pipe' \in Seq(Cell) /\ made' \in 0..Nals
    BY <1>0, <1>1, <2>1, <2>3, Constants DEF CameraWrites
  <2>5. QED
    BY <1>1, <2>4 DEF CameraWrites, receiver
<1>2. CASE CameraDies
  BY <1>2 DEF CameraDies, receiver
<1>3. CASE Interrupt
  BY <1>3 DEF Interrupt, camera, receiver
<1>4. CASE Stop
  BY <1>4 DEF Stop, receiver, Ended
<1>5. CASE GiveUp
  BY <1>5 DEF GiveUp, camera, receiver, Ended
<1>6. CASE Restart
  <2>1. life + 1 \in 1..Lives
    BY <1>6, Constants DEF Restart
  <2>2. nal_seq' \in NalIds
    BY <1>6, ZeroIsId DEF Restart, Reset
  <2>3. QED
    BY <1>0, <1>6, <2>1, <2>2 DEF Restart, Reset, receiver
<1>7. CASE RestartFails
  BY <1>0, <1>7, ZeroIsId DEF RestartFails, Reset, camera, receiver, Ended
<1>8. CASE Read
  <2>1. PICK n \in 1..Len(pipe) :
          /\ nal_buf' = MadeRoom(n) \o SubSeq(pipe, 1, n)
          /\ pipe' = SubSeq(pipe, n + 1, Len(pipe))
    BY <1>8 DEF Read
  <2> DEFINE m == Len(pipe)
             p == n + 1
  <2>2. /\ 1 \in 1..(m + 1) /\ n \in (1 - 1)..m
        /\ p \in 1..(m + 1) /\ m \in (p - 1)..m
    BY LenProperties
  <2> HIDE DEF p
  <2>3. SubSeq(pipe, 1, n) \in Seq(Cell) /\ SubSeq(pipe, p, m) \in Seq(Cell)
    BY <2>2, Piece
  <2>4. MadeRoom(n) \in Seq(Cell)
    BY MadeRoomIsEnd
  <2>5. nal_buf' \in Seq(Cell) /\ pipe' \in Seq(Cell)
    BY <1>0, <2>1, <2>3, <2>4 DEF p
  <2>6. QED
    BY <1>8, <2>5 DEF Read, receiver
<1>9. CASE ReadFails
  BY <1>0, <1>9 DEF ReadFails, camera, receiver
<1>10. CASE NoNal \/ StillAlive \/ ReadNothing
  BY <1>10 DEF NoNal, StillAlive, ReadNothing, camera, receiver
<1>11. ASSUME Found
       PROVE  nal_data \in Seq(Cell) /\ Len(nal_data) \in Nat /\ Drained \in Seq(Cell)
  BY <1>11, Taking, LenProperties
<1>12. CASE Inject
  <2>1. nal_buf' \in Seq(Cell)
    BY <1>0, <1>11, <1>12 DEF Inject, Taken
  <2>2. QED
    BY <1>12, <2>1 DEF Inject, Taken, camera, receiver
<1>13. CASE SendShort
  <2>1. Store /\ nal_data \in Seq(Cell) /\ Drained \in Seq(Cell)
    BY <1>11, <1>13 DEF SendShort, Taken
  <2>2. sps' \in Seq(Cell) /\ pps' \in Seq(Cell)
    BY <2>1, StoreType
  <2>3. assembly' \in [NalIds -> Seq(Cell) \cup {None}] /\ shown' \in Seq(Cell)
    BY <1>13, <2>1, TransmitType DEF SendShort
  <2>4. nal_seq' \in NalIds
    BY <1>13, NextIdType DEF SendShort
  <2>5. QED
    BY <1>13, <2>1, <2>2, <2>3, <2>4 DEF SendShort, Taken, camera
<1>14. CASE BeginLong
  <2>1. Store /\ nal_data \in Seq(Cell) /\ Drained \in Seq(Cell)
    BY <1>11, <1>14 DEF BeginLong, Taken
  <2>2. sps' \in Seq(Cell) /\ pps' \in Seq(Cell)
    BY <2>1, StoreType
  <2>3. slot0' \in Seq(Cell)
    <3>1. Len(nal_data) \in Nat /\ Len(nal_data) > MaxData /\ slot0' = SubSeq(nal_data, 1, MaxData)
      BY <1>11, <1>14 DEF BeginLong, Taken
    <3>2. 1 \in 1..(Len(nal_data) + 1) /\ MaxData \in (1 - 1)..Len(nal_data)
      BY <3>1, Constants
    <3>3. QED
      BY <2>1, <3>1, <3>2, Piece
  <2>4. nal_seq' \in NalIds
    BY <1>14, NextIdType DEF BeginLong
  <2>5. pending' \in Nat
    BY <1>14, Constants DEF BeginLong
  <2>6. QED
    BY <1>14, <2>1, <2>2, <2>3, <2>4, <2>5 DEF BeginLong, Taken, camera, receiver
<1>15. CASE Overrun
  <2>1. Store /\ nal_data \in Seq(Cell)
    BY <1>11, <1>15 DEF Overrun, Taken
  <2>2. sps' \in Seq(Cell) /\ pps' \in Seq(Cell)
    BY <2>1, StoreType
  <2>3. nal_seq' \in NalIds
    BY <1>15, NextIdType DEF Overrun
  <2>4. QED
    BY <1>15, <2>2, <2>3 DEF Overrun, Taken, camera, receiver, Ended
<1>16. CASE Cleanup
  BY <1>16 DEF Cleanup, camera
<1>17. CASE UNCHANGED vars
  BY <1>17 DEF vars
<1>18. QED
  BY <1>1, <1>2, <1>3, <1>4, <1>5, <1>6, <1>7, <1>8, <1>9, <1>10, <1>12, <1>13, <1>14,
     <1>15, <1>16, <1>17
  DEF Next, World, Thread, Top, Reading, NalLoop

\* The buffers, the arena, the stored parameter sets and what the ground holds are
\* sequences of cells, and nal_seq stays in its range.
THEOREM TypeCorrect == Spec => []TypeOK
<1>1. Init => TypeOK
  BY EmptySeq, ZeroIsId, Constants DEF Init, TypeOK
<1>2. QED
  BY <1>1, TypeStep, PTL DEF Spec

-----------------------------------------------------------------------------
(* Streams.                                                                *)

LEMMA Joined ==
  ASSUME NEW a \in Seq(Cell), NEW b \in Seq(Cell)
  PROVE  /\ a \o b \in Seq(Cell)
         /\ Len(a) \in Nat /\ Len(b) \in Nat
         /\ Len(a \o b) = Len(a) + Len(b)
         /\ DOMAIN a = 1..Len(a) /\ DOMAIN b = 1..Len(b)
         /\ DOMAIN (a \o b) = 1..(Len(a) + Len(b))
         /\ \A i \in 1..Len(a) : (a \o b)[i] = a[i]
         /\ \A i \in 1..Len(b) : (a \o b)[Len(a) + i] = b[i]
<1>1. /\ Len(a) \in Nat /\ Len(b) \in Nat
      /\ DOMAIN a = 1..Len(a) /\ DOMAIN b = 1..Len(b)
  BY LenProperties
<1> DEFINE w == a \o b
           m == Len(a)
           n == Len(b)
<1>2. /\ w \in Seq(Cell) /\ Len(w) = m + n
      /\ \A i \in 1..(m + n) : w[i] = IF i <= m THEN a[i] ELSE b[i - m]
  BY ConcatProperties
<1>3. DOMAIN w = 1..Len(w)
  BY <1>2, LenProperties
<1>4. m \in Nat /\ n \in Nat
  BY <1>1
<1> HIDE DEF w, m, n
<1>5. \A i \in 1..m : w[i] = a[i]
  BY <1>2, <1>4
<1>6. \A i \in 1..n : w[m + i] = b[i]
  <2> TAKE i \in 1..n
  <2>1. m + i \in 1..(m + n) /\ ~(m + i <= m) /\ (m + i) - m = i
    BY <1>4
  <2>2. w[m + i] = b[(m + i) - m]
    BY <1>2, <2>1
  <2>3. QED
    BY <2>1, <2>2
<1>7. QED
  BY <1>1, <1>2, <1>3, <1>5, <1>6 DEF w, m, n

\* The end of a stream is a stream.
LEMMA StreamEnd ==
  ASSUME NEW w \in Seq(Cell), Stream(w), NEW v \in Seq(Cell), NEW k \in Nat,
         Len(w) = k + Len(v), \A i \in 1..Len(v) : v[i] = w[k + i]
  PROVE  Stream(v)
<1> DEFINE m == Len(w)
           n == Len(v)
<1>1. m \in Nat /\ n \in Nat /\ DOMAIN w = 1..m /\ DOMAIN v = 1..n
  BY LenProperties
<1>2. m = k + n /\ \A i \in 1..n : v[i] = w[k + i]
  OBVIOUS
<1>3. /\ \A i \in 1..m : IsCell(w[i])
      /\ \A i \in 1..m : IF i = m THEN w[i].end ELSE Follows(w[i], w[i + 1])
  BY <1>1 DEF Stream
<1> SUFFICES /\ \A i \in 1..n : IsCell(v[i])
             /\ \A i \in 1..n : IF i = n THEN v[i].end ELSE Follows(v[i], v[i + 1])
  BY <1>1 DEF Stream
<1> HIDE DEF m, n
<1>4. ASSUME NEW i \in 1..n PROVE IsCell(v[i])
  <2>1. k + i \in 1..m
    BY <1>1, <1>2
  <2>2. QED
    BY <1>2, <1>3, <2>1
<1>5. ASSUME NEW i \in 1..n
      PROVE  IF i = n THEN v[i].end ELSE Follows(v[i], v[i + 1])
  <2>1. k + i \in 1..m /\ (i = n <=> k + i = m)
    BY <1>1, <1>2
  <2>2. IF i = n THEN w[k + i].end ELSE Follows(w[k + i], w[(k + i) + 1])
    BY <1>3, <2>1
  <2>3. i # n => i + 1 \in 1..n /\ k + (i + 1) = (k + i) + 1
    BY <1>1, <1>2
  <2>4. QED
    BY <1>2, <2>2, <2>3
<1>6. QED
  BY <1>4, <1>5

\* What is behind the front of a stream is a stream.
LEMMA StreamRest ==
  ASSUME NEW a \in Seq(Cell), NEW b \in Seq(Cell), NEW c \in Seq(Cell), NEW k \in Nat,
         Stream(a \o b),
         Len(a) = k + Len(c), \A i \in 1..Len(c) : c[i] = a[k + i]
  PROVE  Stream(c \o b)
<1> DEFINE w == a \o b
           v == c \o b
           m == Len(a)
           n == Len(b)
           d == Len(c)
<1>1. /\ w \in Seq(Cell) /\ n \in Nat /\ m \in Nat /\ Len(w) = m + n
      /\ \A i \in 1..m : w[i] = a[i]
      /\ \A i \in 1..n : w[m + i] = b[i]
  BY Joined
<1>2. /\ v \in Seq(Cell) /\ d \in Nat /\ Len(v) = d + n
      /\ \A i \in 1..d : v[i] = c[i]
      /\ \A i \in 1..n : v[d + i] = b[i]
  BY Joined
<1>3. m = k + d /\ \A i \in 1..d : c[i] = a[k + i]
  OBVIOUS
<1>4. Stream(w)
  OBVIOUS
<1> SUFFICES Stream(v)
  OBVIOUS
<1> HIDE DEF w, v, n, d, m
<1>5. Len(w) = k + Len(v)
  BY <1>1, <1>2, <1>3
<1>6. \A i \in 1..Len(v) : v[i] = w[k + i]
  <2> TAKE i \in 1..Len(v)
  <2>1. CASE i <= d
    <3>1. i \in 1..d /\ k + i \in 1..m
      BY <1>1, <1>2, <1>3, <2>1
    <3>2. QED
      BY <1>1, <1>2, <1>3, <3>1
  <2>2. CASE i > d
    <3> DEFINE j == i - d
    <3>1. j \in 1..n /\ i = d + j /\ k + i = m + j
      BY <1>1, <1>2, <1>3, <2>2
    <3> HIDE DEF j
    <3>2. v[d + j] = b[j] /\ w[m + j] = b[j]
      BY <1>1, <1>2, <3>1
    <3>3. QED
      BY <3>1, <3>2
  <2>3. QED
    BY <1>1, <1>2, <2>1, <2>2
<1>7. QED
  BY <1>1, <1>2, <1>4, <1>5, <1>6, StreamEnd

\* A stream goes on with a NAL unit.
LEMMA StreamJoin ==
  ASSUME NEW a \in Seq(Cell), NEW b \in Seq(Cell), Stream(a), Stream(b),
         Len(b) > 0, b[1].pos = 0
  PROVE  Stream(a \o b)
<1> DEFINE w == a \o b
           m == Len(a)
           n == Len(b)
<1>1. /\ w \in Seq(Cell) /\ m \in Nat /\ n \in Nat /\ Len(w) = m + n
      /\ DOMAIN a = 1..m /\ DOMAIN b = 1..n /\ DOMAIN w = 1..(m + n)
      /\ \A i \in 1..m : w[i] = a[i]
      /\ \A i \in 1..n : w[m + i] = b[i]
      /\ n > 0
  BY Joined
<1>2. /\ \A i \in 1..m : IsCell(a[i])
      /\ \A i \in 1..m : IF i = m THEN a[i].end ELSE Follows(a[i], a[i + 1])
      /\ \A i \in 1..n : IsCell(b[i])
      /\ \A i \in 1..n : IF i = n THEN b[i].end ELSE Follows(b[i], b[i + 1])
  BY <1>1 DEF Stream
<1> SUFFICES /\ \A i \in 1..(m + n) : IsCell(w[i])
             /\ \A i \in 1..(m + n) : IF i = m + n THEN w[i].end ELSE Follows(w[i], w[i + 1])
  BY <1>1 DEF Stream
<1> HIDE DEF w, m, n
<1> SUFFICES ASSUME NEW i \in 1..(m + n)
             PROVE  /\ IsCell(w[i])
                    /\ IF i = m + n THEN w[i].end ELSE Follows(w[i], w[i + 1])
  OBVIOUS
<1>3. CASE i \in 1..m /\ i < m
  <2>1. i + 1 \in 1..m /\ i # m + n
    BY <1>1, <1>3
  <2>2. w[i] = a[i] /\ w[i + 1] = a[i + 1]
    BY <1>1, <1>3, <2>1
  <2>3. QED
    BY <1>2, <1>3, <2>1, <2>2
<1>4. CASE i = m
  <2>1. i \in 1..m /\ 1 \in 1..n /\ i # m + n
    BY <1>1, <1>4
  <2>2. w[i] = a[i] /\ w[i + 1] = b[1] /\ a[i].end
    BY <1>1, <1>2, <1>4, <2>1
  <2>3. Follows(w[i], w[i + 1])
    BY <2>2 DEF Follows
  <2>4. QED
    BY <1>2, <2>1, <2>2, <2>3
<1>5. CASE i > m
  <2> DEFINE j == i - m
  <2>1. j \in 1..n /\ i = m + j /\ (i = m + n <=> j = n)
    BY <1>1, <1>5
  <2>2. j # n => j + 1 \in 1..n /\ i + 1 = m + (j + 1)
    BY <1>1, <2>1
  <2> HIDE DEF j
  <2>3. w[i] = b[j] /\ (j # n => w[i + 1] = b[j + 1])
    BY <1>1, <2>1, <2>2
  <2>4. QED
    BY <1>2, <2>1, <2>3
<1>6. QED
  BY <1>1, <1>3, <1>4, <1>5

\* What the camera process writes at once is a NAL unit.
LEMMA NalOfStreams ==
  ASSUME life \in 1..Lives, made \in 0..Nals, made < Nals,
         NEW kind \in Kinds, NEW len \in LensOf(kind)
  PROVE  /\ NalOf(kind, len) \in Seq(Cell)
         /\ Len(NalOf(kind, len)) > 0
         /\ NalOf(kind, len)[1].pos = 0
         /\ Stream(NalOf(kind, len))
<1>1. len \in Nat /\ len > 0 /\ (kind \in Params => FragHdr + len + 3 <= MaxShard)
  BY VideoTxAssumption DEF VideoTxAssumption, LensOf
<1> DEFINE t == NalOf(kind, len)
           n == len + 2
<1>2. t \in Seq(Cell) /\ Len(t) = n /\ DOMAIN t = 1..n
  BY <1>1, NalOfIsSeq
<1>3. \A i \in 1..n :
        t[i] = [life |-> life, nal |-> made + 1, kind |-> kind, pos |-> i - 1, end |-> i = n]
  BY DEF NalOf
<1>4. n \in Nat /\ n > 2 /\ (kind \in Params => (n - 1) + 2 <= MaxData)
  BY <1>1, Constants
<1> HIDE DEF t, n
<1>5. \A i \in 1..n : /\ t[i].life = life /\ t[i].nal = made + 1 /\ t[i].kind = kind
                      /\ t[i].pos = i - 1 /\ (t[i].end <=> i = n)
  <2> TAKE i \in 1..n
  <2> DEFINE b == i = n
  <2>1. t[i] = [life |-> life, nal |-> made + 1, kind |-> kind, pos |-> i - 1, end |-> b]
    BY <1>3
  <2> HIDE DEF b
  <2>2. t[i].end = b
    BY <2>1
  <2>3. t[i].end <=> b
    BY <2>2, Zenon
  <2>4. QED
    BY <2>1, <2>3 DEF b
<1>6. ASSUME NEW i \in 1..n PROVE IsCell(t[i])
  <2>1. kind \in Params => (i - 1) + 2 <= MaxData
    BY <1>4, Constants
  <2>2. i - 1 = 0 \/ i - 1 = 1 => i # n
    BY <1>4
  <2>3. QED
    BY <1>5, <2>1, <2>2 DEF IsCell
<1>7. ASSUME NEW i \in 1..n
      PROVE  IF i = n THEN t[i].end ELSE Follows(t[i], t[i + 1])
  <2>1. CASE i = n
    BY <1>5, <2>1
  <2>2. CASE i # n
    <3>1. i + 1 \in 1..n /\ (i + 1) - 1 = (i - 1) + 1
      BY <1>4, <2>2
    <3>2. t[i + 1].pos = t[i].pos + 1
      BY <1>5, <3>1
    <3>3. QED
      BY <1>5, <2>2, <3>1, <3>2 DEF Follows
  <2>3. QED
    BY <2>1, <2>2
<1>8. Stream(t)
  BY <1>2, <1>6, <1>7 DEF Stream
<1>9. t[1].pos = 0
  BY <1>4, <1>5
<1>10. QED
  BY <1>2, <1>4, <1>8, <1>9 DEF t

-----------------------------------------------------------------------------
(* What one turn of the loop takes is one NAL unit.                        *)

\* The beginning of a NAL unit, up to where a read cut it, perhaps with the zeros of
\* the next start code.
Unit(w) ==
  /\ 1 \in Starts(w) /\ Len(w) > 2
  /\ \A i \in 1..Len(w) : IsCell(w[i])
  /\ \A i \in 1..Len(w) : i < Len(w) => Follows(w[i], w[i + 1])
  /\ \A i \in Starts(w) : i = 1

\* A stored parameter set is the beginning of a NAL unit of its kind.
ParamSet(buf, kind) == buf = <<>> \/ (Unit(buf) /\ buf[1].kind = kind)

\* The buffer begins with NAL units that are drained as exactly as they are taken, and
\* the first IDR unit behind them begins at j.
Trap(buf, j) ==
  /\ 1 \in Starts(buf) /\ j \in Starts(buf)
  /\ buf[j].kind = "idr"
  /\ \A i \in 1..Len(buf) : IsCell(buf[i])
  /\ \A i \in Starts(buf) : i <= j =>
       /\ i + 2 <= Len(buf)
       /\ Follows(buf[i], buf[i + 1]) /\ Follows(buf[i + 1], buf[i + 2])
  /\ \A i \in 1..(j - 1) : Follows(buf[i], buf[i + 1]) \/ i + 1 \in Starts(buf)

\* What is in the buffer once an IDR unit was put back behind its parameter sets.
Trapped == HasParams /\ \E j \in 1..Len(nal_buf) : Trap(nal_buf, j)

\* The buffer and the pipe behind it are a piece of what the camera wrote, unless the
\* buffer holds an IDR unit that was put back; and the loop over the NAL units leaves
\* in the buffer no whole start code but at its end.
NalInv ==
  /\ ParamSet(sps, "sps") /\ ParamSet(pps, "pps")
  /\ pc \in {"top", "read"} => /\ Stream(nal_buf \o pipe)
                               /\ \A i \in Starts(nal_buf) : i + 1 = Len(nal_buf)
  /\ pc = "nals" => Stream(nal_buf \o pipe) \/ Trapped

\* All cells of a unit but the last are of one NAL unit, and so is the last, unless a
\* read cut it off the next one.
LEMMA UnitIsOneNal ==
  ASSUME NEW w \in Seq(Cell), Unit(w)
  PROVE  \A i \in 1..Len(w) :
           \/ /\ w[i].life = w[1].life /\ w[i].nal = w[1].nal
              /\ w[i].kind = w[1].kind /\ w[i].pos = i - 1
           \/ w[i].pos = 0 /\ i = Len(w)
<1> DEFINE n == Len(w)
<1>1. /\ n \in Nat /\ n > 2 /\ w[1].pos = 0
      /\ \A i \in 1..n : IsCell(w[i])
      /\ \A i \in 1..n : i < n => Follows(w[i], w[i + 1])
      /\ \A i \in 1..n : i + 1 \in 1..n /\ w[i].pos = 0 /\ w[i + 1].pos = 1 => i = 1
  BY StartsAre DEF Unit
<1>2. \A i \in 1..(n - 1) : Follows(w[i], w[i + 1])
  BY <1>1
<1>3. ASSUME NEW i \in 1..n, i # 1, i < n PROVE w[i].pos # 0
  <2> SUFFICES ASSUME w[i].pos = 0 PROVE FALSE
    OBVIOUS
  <2>1. i + 1 \in 1..n /\ Follows(w[i], w[i + 1]) /\ IsCell(w[i])
    BY <1>1, <1>3
  <2>2. w[i + 1].pos = 1
    BY <2>1 DEF IsCell, Follows
  <2>3. QED
    BY <1>1, <1>3, <2>1, <2>2
<1> DEFINE Same(i) == /\ w[i].life = w[1].life /\ w[i].nal = w[1].nal
                      /\ w[i].kind = w[1].kind /\ w[i].pos = i - 1
<1>4. ASSUME NEW e \in 1..n, \A i \in 1..(e - 1) : w[i + 1].pos # 0
      PROVE  \A i \in 1..e : Same(i)
  <2>1. 1 \in 1..Len(w) /\ e \in 1..Len(w)
    BY <1>1
  <2>2. \A i \in 1..(e - 1) : Follows(w[i], w[i + 1]) /\ w[i + 1].pos # 0
    BY <1>1, <1>2, <1>4
  <2>3. QED
    BY <1>1, <2>1, <2>2, OneNal
<1>5. \A i \in 1..(n - 1) : Same(i)
  <2>1. n - 1 \in 1..n
    BY <1>1
  <2>2. \A i \in 1..((n - 1) - 1) : w[i + 1].pos # 0
    <3> TAKE i \in 1..((n - 1) - 1)
    <3>1. i + 1 \in 1..n /\ i + 1 # 1 /\ i + 1 < n
      BY <1>1
    <3>2. QED
      BY <1>3, <3>1
  <2> HIDE DEF n, Same
  <2>3. QED
    BY <1>4, <2>1, <2>2
<1>6. CASE w[n].pos = 0
  <2>1. \A i \in 1..n : i \in 1..(n - 1) \/ i = n
    BY <1>1
  <2>2. QED
    BY <1>5, <1>6, <2>1
<1>7. CASE w[n].pos # 0
  <2>1. \A i \in 1..(n - 1) : w[i + 1].pos # 0
    <3> TAKE i \in 1..(n - 1)
    <3>1. i + 1 \in 1..n /\ i + 1 # 1 /\ (i + 1 < n \/ i + 1 = n)
      BY <1>1
    <3>2. QED
      BY <1>3, <1>7, <3>1
  <2>2. n \in 1..n
    BY <1>1
  <2>3. \A i \in 1..n : Same(i)
    BY <1>4, <2>1, <2>2
  <2>4. QED
    BY <2>3
<1>8. QED
  BY <1>6, <1>7

\* What is cut out of cells that follow each other is a unit.
LEMMA PieceIsUnit ==
  ASSUME NEW buf \in Seq(Cell), NEW s \in 1..Len(buf), NEW e \in 1..Len(buf),
         Cut(buf, s, e), s + 1 < e,
         NEW w \in Seq(Cell), Len(w) = e - s + 1,
         \A i \in 1..(e - s + 1) : w[i] = buf[s + i - 1],
         \A i \in 1..Len(buf) : IsCell(buf[i]),
         \A i \in s..(e - 1) : Follows(buf[i], buf[i + 1])
  PROVE  Unit(w)
<1> DEFINE m == Len(buf)
           n == e - s + 1
<1>1. m \in Nat /\ s \in 1..m /\ e \in 1..m /\ s + 1 < e
  BY LenProperties
<1>2. /\ \A i : i \in Starts(buf) <=> /\ i \in 1..m /\ i + 1 \in 1..m
                                      /\ buf[i].pos = 0 /\ buf[i + 1].pos = 1
      /\ s \in Starts(buf)
      /\ \A i \in 1..e : i \in Starts(buf) <=> i = s
  BY StartsAre DEF Cut
<1>3. n \in Nat /\ n > 2 /\ Len(w) = n
  BY <1>1
<1>4. /\ \A i : i \in Starts(w) <=> /\ i \in 1..n /\ i + 1 \in 1..n
                                    /\ w[i].pos = 0 /\ w[i + 1].pos = 1
      /\ \A i \in 1..n : w[i] = buf[s + i - 1]
      /\ \A i \in 1..m : IsCell(buf[i])
  BY <1>3, StartsAre
<1>5. \A i \in 1..n : /\ s + i - 1 \in 1..m /\ s + i - 1 \in 1..e
                      /\ i < n => /\ i + 1 \in 1..n /\ s + i - 1 \in s..(e - 1)
                                  /\ s + (i + 1) - 1 = (s + i - 1) + 1
                                  /\ (s + i - 1) + 1 \in 1..m
  BY <1>1
<1>6. 1 \in 1..n /\ 2 \in 1..n /\ 1 + 1 = 2 /\ s + 1 - 1 = s /\ s + 2 - 1 = s + 1
  BY <1>1
<1>7. \A i \in 1..n : i + 1 \in 1..n => i < n
  BY <1>3
<1>8. \A i \in 1..n : s + i - 1 = s => i = 1
  BY <1>1
<1> HIDE DEF m, n
<1>9. \A i \in 1..n : i < n => w[i + 1] = buf[(s + i - 1) + 1]
  <2> SUFFICES ASSUME NEW i \in 1..n, i < n PROVE w[i + 1] = buf[(s + i - 1) + 1]
    OBVIOUS
  <2>1. i + 1 \in 1..n /\ s + (i + 1) - 1 = (s + i - 1) + 1
    BY <1>5
  <2>2. w[i + 1] = buf[s + (i + 1) - 1]
    BY <1>4, <2>1
  <2>3. QED
    BY <2>1, <2>2
<1>10. 1 \in Starts(w)
  <2>1. w[1] = buf[s + 1 - 1] /\ w[2] = buf[s + 2 - 1]
    BY <1>4, <1>6
  <2>2. w[1].pos = 0 /\ w[2].pos = 1
    BY <1>2, <1>6, <2>1
  <2>3. QED
    BY <1>4, <1>6, <2>2
<1>11. \A i \in 1..n : IsCell(w[i])
  BY <1>4, <1>5
<1>12. \A i \in 1..n : i < n => Follows(w[i], w[i + 1])
  <2> SUFFICES ASSUME NEW i \in 1..n, i < n PROVE Follows(w[i], w[i + 1])
    OBVIOUS
  <2>1. s + i - 1 \in s..(e - 1) /\ w[i] = buf[s + i - 1] /\ w[i + 1] = buf[(s + i - 1) + 1]
    BY <1>4, <1>5, <1>9
  <2>2. Follows(buf[s + i - 1], buf[(s + i - 1) + 1])
    BY <2>1
  <2>3. QED
    BY <2>1, <2>2
<1>13. ASSUME NEW i \in Starts(w) PROVE i = 1
  <2>1. i \in 1..n /\ i < n /\ w[i].pos = 0 /\ w[i + 1].pos = 1
    BY <1>4, <1>7
  <2>2. w[i] = buf[s + i - 1] /\ w[i + 1] = buf[(s + i - 1) + 1]
    BY <1>4, <1>9, <2>1
  <2>3. s + i - 1 \in 1..m /\ (s + i - 1) + 1 \in 1..m /\ s + i - 1 \in 1..e
    BY <1>5, <2>1
  <2>4. s + i - 1 \in Starts(buf)
    BY <1>2, <2>1, <2>2, <2>3
  <2>5. s + i - 1 = s
    BY <1>2, <2>3, <2>4
  <2>6. QED
    BY <1>8, <2>1, <2>5
<1>14. QED
  BY <1>3, <1>10, <1>11, <1>12, <1>13 DEF Unit

\* A unit in front of a trap makes a longer one.
LEMMA UnitBefore ==
  ASSUME NEW w \in Seq(Cell), Unit(w), NEW b \in Seq(Cell), NEW j \in Nat, Trap(b, j)
  PROVE  Trap(w \o b, Len(w) + j)
<1> DEFINE c == w \o b
           p == Len(w)
           m == Len(b)
<1>1. /\ c \in Seq(Cell) /\ p \in Nat /\ m \in Nat /\ Len(c) = p + m
      /\ \A i \in 1..p : c[i] = w[i]
      /\ \A i \in 1..m : c[p + i] = b[i]
  BY Joined
<1>2. /\ 1 \in Starts(w) /\ p > 2
      /\ \A i \in 1..p : IsCell(w[i])
      /\ \A i \in 1..p : i < p => Follows(w[i], w[i + 1])
      /\ \A i \in Starts(w) : i = 1
  BY DEF Unit
<1>3. /\ 1 \in Starts(b) /\ j \in Starts(b) /\ b[j].kind = "idr"
      /\ \A i \in 1..m : IsCell(b[i])
      /\ \A i \in Starts(b) : i <= j =>
           i + 2 <= m /\ Follows(b[i], b[i + 1]) /\ Follows(b[i + 1], b[i + 2])
      /\ \A i \in 1..(j - 1) : Follows(b[i], b[i + 1]) \/ i + 1 \in Starts(b)
  BY DEF Trap
<1>4. /\ \A i : i \in Starts(w) <=> /\ i \in 1..p /\ i + 1 \in 1..p
                                    /\ w[i].pos = 0 /\ w[i + 1].pos = 1
      /\ \A i : i \in Starts(b) <=> /\ i \in 1..m /\ i + 1 \in 1..m
                                    /\ b[i].pos = 0 /\ b[i + 1].pos = 1
  BY StartsAre
<1>5. \A i : i \in Starts(c) <=> /\ i \in 1..(p + m) /\ i + 1 \in 1..(p + m)
                                 /\ c[i].pos = 0 /\ c[i + 1].pos = 1
  BY <1>1, StartsAre
<1> HIDE DEF c, p, m
<1>6. \A i \in Starts(b) : p + i \in Starts(c)
  <2> TAKE i \in Starts(b)
  <2>1. i \in 1..m /\ i + 1 \in 1..m /\ b[i].pos = 0 /\ b[i + 1].pos = 1
    BY <1>4
  <2>2. /\ p + i \in 1..(p + m) /\ (p + i) + 1 \in 1..(p + m) /\ (p + i) + 1 = p + (i + 1)
    BY <1>1, <2>1
  <2>3. c[p + i] = b[i] /\ c[(p + i) + 1] = b[i + 1]
    BY <1>1, <2>1, <2>2
  <2>4. QED
    BY <1>5, <2>1, <2>2, <2>3
<1>7. 1 \in Starts(c)
  <2>1. /\ 1 \in 1..p /\ 1 + 1 \in 1..p /\ w[1].pos = 0 /\ w[1 + 1].pos = 1
    BY <1>2, <1>4
  <2>2. 1 \in 1..(p + m) /\ 1 + 1 \in 1..(p + m)
    BY <1>1, <2>1
  <2>3. c[1] = w[1] /\ c[1 + 1] = w[1 + 1]
    BY <1>1, <2>1
  <2>4. QED
    BY <1>5, <2>1, <2>2, <2>3
<1>8. ASSUME NEW i \in Starts(c) PROVE i = 1 \/ \E x \in Starts(b) : i = p + x
  <2>1. i \in 1..(p + m) /\ i + 1 \in 1..(p + m) /\ c[i].pos = 0 /\ c[i + 1].pos = 1
    BY <1>5
  <2>2. CASE i < p
    <3>1. i \in 1..p /\ i + 1 \in 1..p
      BY <1>1, <2>1, <2>2
    <3>2. i \in Starts(w)
      BY <1>1, <1>4, <2>1, <3>1
    <3>3. QED
      BY <1>2, <3>2
  <2>3. CASE i = p
    <3>1. 1 \in 1..m /\ b[1].pos = 0
      BY <1>3, <1>4
    <3>2. c[p + 1].pos = 0
      BY <1>1, <3>1
    <3>3. QED
      BY <2>1, <2>3, <3>2
  <2>4. CASE i > p
    <3> DEFINE x == i - p
    <3>1. x \in 1..m /\ x + 1 \in 1..m /\ i = p + x /\ i + 1 = p + (x + 1)
      BY <1>1, <2>1, <2>4
    <3> HIDE DEF x
    <3>2. c[p + x] = b[x] /\ c[p + (x + 1)] = b[x + 1]
      BY <1>1, <3>1
    <3>3. x \in Starts(b)
      BY <1>4, <2>1, <3>1, <3>2
    <3>4. QED
      BY <3>1, <3>3
  <2>5. QED
    BY <1>1, <2>1, <2>2, <2>3, <2>4
<1>9. ASSUME NEW i \in Starts(c), i <= p + j
      PROVE  i + 2 <= p + m /\ Follows(c[i], c[i + 1]) /\ Follows(c[i + 1], c[i + 2])
  <2>1. CASE i = 1
    <3>1. 1 \in 1..p /\ 2 \in 1..p /\ 3 \in 1..p /\ 1 < p /\ 2 < p /\ 3 <= p + m
      BY <1>1, <1>2
    <3>2. Follows(w[1], w[1 + 1]) /\ Follows(w[2], w[2 + 1])
      BY <1>2, <3>1
    <3>3. c[1] = w[1] /\ c[2] = w[2] /\ c[3] = w[3]
      BY <1>1, <3>1
    <3>4. 1 + 1 = 2 /\ 2 + 1 = 3 /\ 1 + 2 = 3
      OBVIOUS
    <3>5. Follows(w[1], w[2]) /\ Follows(w[2], w[3])
      BY <3>2, <3>4
    <3>6. QED
      BY <2>1, <3>1, <3>3, <3>4, <3>5
  <2>2. ASSUME NEW x \in Starts(b), i = p + x
        PROVE  i + 2 <= p + m /\ Follows(c[i], c[i + 1]) /\ Follows(c[i + 1], c[i + 2])
    <3>1. x \in 1..m /\ x + 1 \in 1..m
      BY <1>4
    <3>2. x <= j
      BY <1>1, <1>9, <2>2, <3>1
    <3>3. x + 2 <= m /\ Follows(b[x], b[x + 1]) /\ Follows(b[x + 1], b[x + 2])
      BY <1>3, <3>2
    <3>4. /\ x + 2 \in 1..m /\ i + 1 = p + (x + 1) /\ i + 2 = p + (x + 2) /\ i + 2 <= p + m
      BY <1>1, <2>2, <3>1, <3>3
    <3>5. c[i] = b[x] /\ c[i + 1] = b[x + 1] /\ c[i + 2] = b[x + 2]
      BY <1>1, <2>2, <3>1, <3>4
    <3>6. QED
      BY <3>3, <3>4, <3>5
  <2>3. QED
    BY <1>8, <2>1, <2>2
<1>10. ASSUME NEW i \in 1..((p + j) - 1)
       PROVE  Follows(c[i], c[i + 1]) \/ i + 1 \in Starts(c)
  <2>1. CASE i < p
    <3>1. i \in 1..p /\ i + 1 \in 1..p
      BY <1>1, <2>1
    <3>2. QED
      BY <1>1, <1>2, <2>1, <3>1
  <2>2. CASE i = p
    BY <1>3, <1>6, <2>2
  <2>3. CASE i > p
    <3> DEFINE x == i - p
    <3>1. j \in 1..m
      BY <1>3, <1>4
    <3>2. /\ x \in 1..(j - 1) /\ x \in 1..m /\ x + 1 \in 1..m
          /\ i = p + x /\ i + 1 = p + (x + 1)
      BY <1>1, <2>3, <3>1
    <3> HIDE DEF x
    <3>3. c[i] = b[x] /\ c[i + 1] = b[x + 1]
      BY <1>1, <3>2
    <3>4. CASE Follows(b[x], b[x + 1])
      BY <3>3, <3>4
    <3>5. CASE x + 1 \in Starts(b)
      BY <1>6, <3>2, <3>5
    <3>6. QED
      BY <1>3, <3>2, <3>4, <3>5
  <2>4. QED
    BY <1>1, <2>1, <2>2, <2>3
<1>11. ASSUME NEW i \in 1..(p + m) PROVE IsCell(c[i])
  <2>1. CASE i \in 1..p
    BY <1>1, <1>2, <2>1
  <2>2. CASE i \notin 1..p
    <3>1. i - p \in 1..m /\ i = p + (i - p)
      BY <1>1, <2>2
    <3>2. c[p + (i - p)] = b[i - p]
      BY <1>1, <3>1
    <3>3. QED
      BY <1>3, <3>1, <3>2
  <2>3. QED
    BY <2>1, <2>2
<1>12. p + j \in Starts(c) /\ c[p + j].kind = "idr"
  <2>1. j \in 1..m
    BY <1>3, <1>4
  <2>2. QED
    BY <1>1, <1>3, <1>6, <2>1
<1>13. Trap(c, p + j)
  BY <1>1, <1>7, <1>9, <1>10, <1>11, <1>12 DEF Trap
<1>14. QED
  BY <1>13 DEF c, p

\* The front of a stream.
LEMMA StreamFront ==
  ASSUME NEW a \in Seq(Cell), NEW b \in Seq(Cell), Stream(a \o b)
  PROVE  /\ \A i \in 1..Len(a) : IsCell(a[i])
         /\ \A i \in 1..Len(a) : i < Len(a) => Follows(a[i], a[i + 1])
<1> DEFINE w == a \o b
           m == Len(a)
           n == Len(b)
<1>1. /\ m \in Nat /\ n \in Nat /\ DOMAIN w = 1..(m + n) /\ Len(w) = m + n
      /\ \A i \in 1..m : w[i] = a[i]
  BY Joined
<1>2. /\ \A i \in 1..(m + n) : IsCell(w[i])
      /\ \A i \in 1..(m + n) : IF i = m + n THEN w[i].end ELSE Follows(w[i], w[i + 1])
  BY <1>1 DEF Stream
<1> SUFFICES ASSUME NEW i \in 1..m
             PROVE  IsCell(a[i]) /\ (i < m => Follows(a[i], a[i + 1]))
  OBVIOUS
<1> HIDE DEF w, m, n
<1>3. i \in 1..(m + n) /\ (i < m => i + 1 \in 1..m /\ i # m + n)
  BY <1>1
<1>4. QED
  BY <1>1, <1>2, <1>3

\* In a trapped buffer the first NAL unit is the first cells, and, unless it is the IDR
\* unit, ends before it.
LEMMA TrappedTaken ==
  ASSUME NEW buf \in Seq(Cell), NEW j \in Nat, Trap(buf, j),
         NEW s \in 1..Len(buf), NEW e \in 1..Len(buf), Cut(buf, s, e)
  PROVE  /\ s = 1 /\ s + 1 < e
         /\ Follows(buf[s], buf[s + 1]) /\ Follows(buf[s + 1], buf[s + 2])
         /\ buf[s + 2].kind = buf[s].kind
         /\ \/ buf[s].kind = "idr"
            \/ /\ e < j /\ e + 1 \in Starts(buf)
               /\ \A i \in s..(e - 1) : Follows(buf[i], buf[i + 1])
<1> DEFINE m == Len(buf)
<1>1. /\ m \in Nat
      /\ \A i : i \in Starts(buf) <=> /\ i \in 1..m /\ i + 1 \in 1..m
                                      /\ buf[i].pos = 0 /\ buf[i + 1].pos = 1
  BY StartsAre
<1>2. /\ 1 \in Starts(buf) /\ j \in Starts(buf) /\ buf[j].kind = "idr"
      /\ \A i \in 1..m : IsCell(buf[i])
      /\ \A i \in Starts(buf) : i <= j =>
           i + 2 <= m /\ Follows(buf[i], buf[i + 1]) /\ Follows(buf[i + 1], buf[i + 2])
      /\ \A i \in 1..(j - 1) : Follows(buf[i], buf[i + 1]) \/ i + 1 \in Starts(buf)
  BY DEF Trap
<1>3. /\ s \in Starts(buf) /\ e \in (s + 1)..m
      /\ \A i \in 1..e : i \in Starts(buf) <=> i = s
      /\ e = m \/ e + 1 \in Starts(buf)
  BY DEF Cut
<1> HIDE DEF m
<1>4. s = 1
  <2>1. 1 \in 1..e
    BY <1>1, <1>3
  <2>2. QED
    BY <1>2, <1>3, <2>1
<1>5. j \in 1..m /\ 1 <= j
  BY <1>1, <1>2
<1>6. 3 <= m /\ Follows(buf[1], buf[2]) /\ Follows(buf[2], buf[3])
  <2>1. 1 + 2 <= m /\ Follows(buf[1], buf[1 + 1]) /\ Follows(buf[1 + 1], buf[1 + 2])
    BY <1>2, <1>5
  <2>2. 1 + 1 = 2 /\ 1 + 2 = 3
    OBVIOUS
  <2>3. QED
    BY <2>1, <2>2
<1>7. /\ buf[1].pos = 0 /\ IsCell(buf[1]) /\ IsCell(buf[2])
      /\ buf[2].pos = 1 /\ buf[2].kind = buf[1].kind
      /\ buf[3].pos = 2 /\ buf[3].kind = buf[1].kind
  <2>1. 1 \in 1..m /\ 2 \in 1..m /\ 1 + 1 = 2
    BY <1>1, <1>6
  <2>2. buf[1].pos = 0 /\ IsCell(buf[1]) /\ IsCell(buf[2]) /\ buf[2].pos = 1
    BY <1>1, <1>2, <2>1
  <2>3. ~buf[1].end /\ ~buf[2].end
    BY <2>2 DEF IsCell
  <2>4. QED
    BY <1>6, <2>2, <2>3 DEF Follows
<1>8. e # 2
  <2>1. SUFFICES ASSUME e = 2 PROVE FALSE
    OBVIOUS
  <2>2. e # m /\ e + 1 = 3
    BY <1>1, <1>6, <2>1
  <2>3. QED
    BY <1>1, <1>3, <1>7, <2>2
<1>9. s + 1 < e /\ s + 1 = 2 /\ s + 2 = 3
  BY <1>1, <1>3, <1>4, <1>8
<1>10. CASE j \in 1..e
  <2>1. j = 1
    BY <1>2, <1>3, <1>4, <1>10
  <2>2. QED
    BY <1>2, <1>4, <1>6, <1>7, <1>9, <2>1
<1>11. CASE j \notin 1..e
  <2>1. e < j /\ e # m
    BY <1>1, <1>3, <1>5, <1>11
  <2>2. \A i \in s..(e - 1) : Follows(buf[i], buf[i + 1])
    <3> TAKE i \in s..(e - 1)
    <3>1. i \in 1..(j - 1) /\ i + 1 \in 1..e /\ i + 1 # s
      BY <1>1, <1>3, <1>4, <1>5, <2>1
    <3>2. QED
      BY <1>2, <1>3, <3>1
  <2>3. QED
    BY <1>3, <1>4, <1>6, <1>7, <1>9, <2>1, <2>2
<1>12. QED
  BY <1>10, <1>11

\* What one turn of the loop takes: the cells of one NAL unit, unless it is an IDR unit
\* that is put back.
LEMMA TakenIsOneNal ==
  ASSUME TypeOK, NalInv, pc = "nals", Found
  PROVE  \E s, e \in 1..Len(nal_buf) :
           /\ Cut(nal_buf, s, e) /\ s + 1 < e
           /\ nal_data \in Seq(Cell)
           /\ Len(nal_data) = e - s + 1 /\ DOMAIN nal_data = 1..(e - s + 1)
           /\ \A i \in 1..(e - s + 1) : nal_data[i] = nal_buf[s + i - 1]
           /\ Drained \in Seq(Cell)
           /\ Len(Drained) = Len(nal_buf) - (e - s + 1)
           /\ DOMAIN Drained = 1..(Len(nal_buf) - (e - s + 1))
           /\ \A i \in 1..(Len(nal_buf) - (e - s + 1)) : Drained[i] = nal_buf[(e - s + 1) + i]
           /\ \A i \in 1..Len(nal_buf) : IsCell(nal_buf[i])
           /\ s \in Starts(nal_buf) /\ nal_type = nal_buf[s].kind
           /\ Follows(nal_buf[s], nal_buf[s + 1]) /\ Follows(nal_buf[s + 1], nal_buf[s + 2])
           /\ Injects \/ Unit(nal_data)
           /\ \/ Stream(nal_buf \o pipe)
              \/ /\ s = 1 /\ HasParams
                 /\ \/ Injects
                    \/ /\ e + 1 \in Starts(nal_buf)
                       /\ \E j \in (e + 1)..Len(nal_buf) : Trap(nal_buf, j)
<1> DEFINE m == Len(nal_buf)
<1>1. nal_buf \in Seq(Cell) /\ pipe \in Seq(Cell) /\ m \in Nat /\ DOMAIN nal_buf = 1..m
  BY LenProperties DEF TypeOK
<1>2. PICK s \in 1..m, e \in 1..m :
           /\ Cut(nal_buf, s, e) /\ s + 1 < e
           /\ nal_data \in Seq(Cell)
           /\ Len(nal_data) = e - s + 1 /\ DOMAIN nal_data = 1..(e - s + 1)
           /\ \A i \in 1..(e - s + 1) : nal_data[i] = nal_buf[s + i - 1]
           /\ Drained \in Seq(Cell)
           /\ Len(Drained) = m - (e - s + 1)
           /\ DOMAIN Drained = 1..(m - (e - s + 1))
           /\ \A i \in 1..(m - (e - s + 1)) : Drained[i] = nal_buf[(e - s + 1) + i]
  BY <1>1, Taking
<1>3. nal_type = nal_buf[s + 2].kind
  <2>1. 3 \in 1..(e - s + 1) /\ s + 3 - 1 = s + 2
    BY <1>1, <1>2
  <2>2. nal_data[3] = nal_buf[s + 3 - 1]
    BY <1>2, <2>1
  <2>3. QED
    BY <2>1, <2>2 DEF nal_type
<1>4. s \in Starts(nal_buf) /\ nal_buf[s].pos = 0 /\ nal_buf[s + 1].pos = 1
  BY <1>1, <1>2, StartsAre DEF Cut
<1> DEFINE Good == /\ \A i \in 1..m : IsCell(nal_buf[i])
                   /\ nal_type = nal_buf[s].kind
                   /\ Follows(nal_buf[s], nal_buf[s + 1])
                   /\ Follows(nal_buf[s + 1], nal_buf[s + 2])
                   /\ Injects \/ Unit(nal_data)
                   /\ \/ Stream(nal_buf \o pipe)
                      \/ /\ s = 1 /\ HasParams
                         /\ \/ Injects
                            \/ /\ e + 1 \in Starts(nal_buf)
                               /\ \E j \in (e + 1)..m : Trap(nal_buf, j)
<1>5. ASSUME Stream(nal_buf \o pipe) PROVE Good
  <2>1. /\ \A i \in 1..m : IsCell(nal_buf[i])
        /\ \A i \in 1..m : i < m => Follows(nal_buf[i], nal_buf[i + 1])
    BY <1>1, <1>5, StreamFront
  <2>2. \A i \in s..(e - 1) : Follows(nal_buf[i], nal_buf[i + 1])
    <3>1. \A i \in s..(e - 1) : i \in 1..m /\ i < m
      BY <1>1
    <3>2. QED
      BY <2>1, <3>1
  <2>3. /\ Follows(nal_buf[s], nal_buf[s + 1]) /\ Follows(nal_buf[s + 1], nal_buf[s + 2])
        /\ nal_buf[s + 2].kind = nal_buf[s].kind
    <3>1. s \in s..(e - 1) /\ s + 1 \in s..(e - 1) /\ (s + 1) + 1 = s + 2 /\ s + 1 \in 1..m
      BY <1>1, <1>2
    <3>2. Follows(nal_buf[s], nal_buf[s + 1]) /\ Follows(nal_buf[s + 1], nal_buf[s + 2])
      BY <2>2, <3>1
    <3>3. ~nal_buf[s].end /\ ~nal_buf[s + 1].end
      BY <1>4, <2>1, <3>1 DEF IsCell
    <3>4. QED
      BY <3>2, <3>3 DEF Follows
  <2>4. Unit(nal_data)
    BY <1>1, <1>2, <2>1, <2>2, PieceIsUnit
  <2>5. QED
    BY <1>3, <1>5, <2>1, <2>3, <2>4
<1>6. ASSUME Trapped PROVE Good
  <2>1. PICK j \in 1..m : Trap(nal_buf, j)
    BY <1>6 DEF Trapped
  <2>2. HasParams /\ \A i \in 1..m : IsCell(nal_buf[i])
    BY <1>6, <2>1 DEF Trapped, Trap
  <2>3. /\ s = 1
        /\ Follows(nal_buf[s], nal_buf[s + 1]) /\ Follows(nal_buf[s + 1], nal_buf[s + 2])
        /\ nal_buf[s + 2].kind = nal_buf[s].kind
        /\ \/ nal_buf[s].kind = "idr"
           \/ /\ e < j /\ e + 1 \in Starts(nal_buf)
              /\ \A i \in s..(e - 1) : Follows(nal_buf[i], nal_buf[i + 1])
    <3>1. j \in Nat
      BY <1>1
    <3> HIDE DEF m
    <3>2. s \in 1..Len(nal_buf) /\ e \in 1..Len(nal_buf) /\ Cut(nal_buf, s, e)
      BY <1>2 DEF m
    <3>3. QED
      BY <1>1, <2>1, <3>1, <3>2, TrappedTaken
  <2>4. ASSUME nal_buf[s].kind = "idr" PROVE Good
    BY <1>3, <2>2, <2>3, <2>4 DEF Injects
  <2>5. ASSUME e < j, e + 1 \in Starts(nal_buf),
               \A i \in s..(e - 1) : Follows(nal_buf[i], nal_buf[i + 1])
        PROVE  Good
    <3>1. j \in (e + 1)..m
      BY <1>1, <2>5
    <3>2. Unit(nal_data)
      BY <1>1, <1>2, <2>2, <2>5, PieceIsUnit
    <3>3. QED
      BY <1>3, <2>1, <2>2, <2>3, <2>5, <3>1, <3>2
  <2>6. QED
    BY <2>3, <2>4, <2>5
<1>7. Good
  BY <1>5, <1>6 DEF NalInv
<1>8. QED
  BY <1>2, <1>4, <1>7

\* The cells that are taken are of one NAL unit.
LEMMA NalInvSays == TypeOK /\ NalInv => SentIsOneNal
<1> SUFFICES ASSUME TypeOK, NalInv, pc = "nals", Found, ~Injects, NEW k \in DOMAIN nal_data
             PROVE  \/ nal_data[k].nal = nal_data[1].nal /\ nal_data[k].pos = k - 1
                    \/ nal_data[k].pos = 0 /\ k = Len(nal_data)
  BY DEF SentIsOneNal
<1>1. nal_data \in Seq(Cell) /\ Unit(nal_data)
  BY TakenIsOneNal
<1>2. k \in 1..Len(nal_data)
  BY <1>1, LenProperties
<1>3. QED
  BY <1>1, <1>2, UnitIsOneNal

\* A parameter set that is taken is stored as far as it is there.
LEMMA NewParams ==
  ASSUME TypeOK, NalInv, pc = "nals", Found, ~Injects, Store
  PROVE  /\ ParamSet(sps', "sps") /\ ParamSet(pps', "pps")
         /\ HasParams => sps' # <<>> /\ pps' # <<>>
<1> DEFINE m == Len(nal_buf)
<1>1. nal_buf \in Seq(Cell) /\ m \in Nat
  BY LenProperties DEF TypeOK
<1>2. PICK s \in 1..m, e \in 1..m :
           /\ s + 1 < e
           /\ nal_data \in Seq(Cell) /\ Len(nal_data) = e - s + 1
           /\ \A i \in 1..(e - s + 1) : nal_data[i] = nal_buf[s + i - 1]
           /\ nal_type = nal_buf[s].kind
           /\ Unit(nal_data)
  BY TakenIsOneNal
<1>3. nal_data[1].kind = nal_type
  <2>1. 1 \in 1..(e - s + 1) /\ s + 1 - 1 = s
    BY <1>1, <1>2
  <2>2. nal_data[1] = nal_buf[s + 1 - 1]
    BY <1>2, <2>1
  <2>3. QED
    BY <1>2, <2>1, <2>2
<1>4. nal_data # <<>>
  <2>1. Len(nal_data) # 0
    BY <1>1, <1>2
  <2>2. QED
    BY <2>1, EmptySeq
<1>5. QED
  BY <1>2, <1>3, <1>4 DEF Store, ParamSet, HasParams, NalInv

\* What is left of a trap behind a NAL unit at its front is a trap.
LEMMA TrapRest ==
  ASSUME NEW buf \in Seq(Cell), NEW e \in 1..Len(buf), e + 1 \in Starts(buf),
         NEW j \in (e + 1)..Len(buf), Trap(buf, j),
         NEW c \in Seq(Cell), Len(c) = Len(buf) - e,
         \A i \in 1..(Len(buf) - e) : c[i] = buf[e + i]
  PROVE  Trap(c, j - e)
<1> DEFINE m == Len(buf)
           d == m - e
           x == j - e
<1>1. m \in Nat /\ e \in 1..m /\ j \in (e + 1)..m
  BY LenProperties
<1>2. d \in Nat /\ m = e + d /\ x \in 1..d /\ j = e + x
  BY <1>1
<1>3. Len(c) = d /\ \A i \in 1..d : c[i] = buf[e + i]
  OBVIOUS
<1>4. /\ e + 1 \in Starts(buf) /\ j \in Starts(buf) /\ buf[j].kind = "idr"
      /\ \A i \in 1..m : IsCell(buf[i])
      /\ \A i \in Starts(buf) : i <= j =>
           i + 2 <= m /\ Follows(buf[i], buf[i + 1]) /\ Follows(buf[i + 1], buf[i + 2])
      /\ \A i \in 1..(j - 1) : Follows(buf[i], buf[i + 1]) \/ i + 1 \in Starts(buf)
  BY DEF Trap
<1>5. /\ \A i : i \in Starts(buf) <=> /\ i \in 1..m /\ i + 1 \in 1..m
                                      /\ buf[i].pos = 0 /\ buf[i + 1].pos = 1
      /\ \A i : i \in Starts(c) <=> /\ i \in 1..d /\ i + 1 \in 1..d
                                    /\ c[i].pos = 0 /\ c[i + 1].pos = 1
  BY <1>3, StartsAre
<1> SUFFICES Trap(c, x)
  OBVIOUS
<1> HIDE DEF m, d, x
<1>6. \A i \in 1..d : i \in Starts(c) <=> e + i \in Starts(buf)
  <2> TAKE i \in 1..d
  <2>1. /\ e + i \in 1..m /\ (e + i) + 1 = e + (i + 1)
        /\ i + 1 \in 1..d <=> (e + i) + 1 \in 1..m
    BY <1>1, <1>2
  <2>2. c[i] = buf[e + i]
    BY <1>3
  <2>3. CASE i + 1 \in 1..d
    <3>1. c[i + 1] = buf[(e + i) + 1] /\ (e + i) + 1 \in 1..m
      BY <1>3, <2>1, <2>3
    <3>2. QED
      BY <1>5, <2>1, <2>2, <2>3, <3>1
  <2>4. CASE i + 1 \notin 1..d
    BY <1>5, <2>1, <2>4
  <2>5. QED
    BY <2>3, <2>4
<1>7. 1 \in Starts(c) /\ x \in Starts(c) /\ c[x].kind = "idr"
  <2>1. 1 \in 1..d
    BY <1>2
  <2>2. QED
    BY <1>2, <1>3, <1>4, <1>6, <2>1
<1>8. \A i \in 1..d : IsCell(c[i])
  <2>1. \A i \in 1..d : e + i \in 1..m
    BY <1>1, <1>2
  <2>2. QED
    BY <1>3, <1>4, <2>1
<1>9. ASSUME NEW i \in Starts(c), i <= x
      PROVE  i + 2 <= d /\ Follows(c[i], c[i + 1]) /\ Follows(c[i + 1], c[i + 2])
  <2>1. i \in 1..d /\ e + i \in Starts(buf) /\ e + i <= j
    BY <1>1, <1>2, <1>5, <1>6, <1>9
  <2>2. /\ (e + i) + 2 <= m
        /\ Follows(buf[e + i], buf[(e + i) + 1]) /\ Follows(buf[(e + i) + 1], buf[(e + i) + 2])
    BY <1>4, <2>1
  <2>3. /\ i + 2 <= d /\ i + 1 \in 1..d /\ i + 2 \in 1..d
        /\ (e + i) + 1 = e + (i + 1) /\ (e + i) + 2 = e + (i + 2)
    BY <1>1, <1>2, <2>1, <2>2
  <2>4. QED
    BY <1>3, <2>1, <2>2, <2>3
<1>10. ASSUME NEW i \in 1..(x - 1) PROVE Follows(c[i], c[i + 1]) \/ i + 1 \in Starts(c)
  <2>1. /\ i \in 1..d /\ i + 1 \in 1..d /\ e + i \in 1..(j - 1) /\ (e + i) + 1 = e + (i + 1)
    BY <1>1, <1>2
  <2>2. QED
    BY <1>3, <1>4, <1>6, <2>1
<1>11. QED
  BY <1>3, <1>7, <1>8, <1>9, <1>10 DEF Trap

\* What is left in the buffer is a piece of the stream again, or still holds an IDR
\* unit that was put back.
LEMMA DrainedStreams ==
  ASSUME TypeOK, NalInv, pc = "nals", Found, ~Injects, Store,
         nal_buf' = Drained, pipe' = pipe
  PROVE  Stream(nal_buf \o pipe)' \/ Trapped'
<1> DEFINE m == Len(nal_buf)
<1>1. nal_buf \in Seq(Cell) /\ pipe \in Seq(Cell) /\ m \in Nat
  BY LenProperties DEF TypeOK
<1>2. PICK s \in 1..m, e \in 1..m :
           /\ s + 1 < e
           /\ Drained \in Seq(Cell) /\ Len(Drained) = m - (e - s + 1)
           /\ \A i \in 1..(m - (e - s + 1)) : Drained[i] = nal_buf[(e - s + 1) + i]
           /\ \/ Stream(nal_buf \o pipe)
              \/ /\ s = 1 /\ HasParams
                 /\ e + 1 \in Starts(nal_buf)
                 /\ \E j \in (e + 1)..m : Trap(nal_buf, j)
  BY TakenIsOneNal
<1> DEFINE k == e - s + 1
<1>3. k \in Nat /\ k <= m
  BY <1>1, <1>2
<1>4. /\ Drained \in Seq(Cell) /\ Len(Drained) = m - k
      /\ \A i \in 1..(m - k) : Drained[i] = nal_buf[k + i]
  BY <1>2
<1>5. CASE Stream(nal_buf \o pipe)
  <2>1. Stream(Drained \o pipe)
    <3>1. m = k + Len(Drained) /\ \A i \in 1..Len(Drained) : Drained[i] = nal_buf[k + i]
      <4>1. m \in Nat /\ k \in Nat
        BY <1>1, <1>3
      <4>2. Len(Drained) = m - k /\ \A i \in 1..(m - k) : Drained[i] = nal_buf[k + i]
        BY <1>4
      <4> HIDE DEF m, k
      <4>3. m = k + Len(Drained)
        BY <4>1, <4>2
      <4>4. QED
        BY <4>2, <4>3
    <3> HIDE DEF k
    <3>2. QED
      BY <1>1, <1>3, <1>4, <1>5, <3>1, StreamRest
  <2>2. QED
    BY <2>1
<1>6. ASSUME s = 1, HasParams, e + 1 \in Starts(nal_buf),
             NEW j \in (e + 1)..m, Trap(nal_buf, j)
      PROVE  Trapped'
  <2>1. k = e
    BY <1>1, <1>6
  <2>2. Len(Drained) = m - e /\ \A i \in 1..(m - e) : Drained[i] = nal_buf[e + i]
    BY <1>4, <2>1
  <2>3. Trap(Drained, j - e)
    BY <1>1, <1>4, <1>6, <2>2, TrapRest
  <2>4. j - e \in 1..Len(Drained)
    BY <1>1, <2>2
  <2>5. HasParams'
    BY <1>6, NewParams DEF HasParams
  <2>6. QED
    BY <2>3, <2>4, <2>5 DEF Trapped
<1>7. QED
  BY <1>2, <1>5, <1>6

\* A start code that is left alone in the buffer is at its end.
LEMMA NoNalLeaves ==
  ASSUME TypeOK, NalInv, pc = "nals", ~Found
  PROVE  /\ Stream(nal_buf \o pipe)
         /\ \A i \in Starts(nal_buf) : i + 1 = Len(nal_buf)
<1> DEFINE m == Len(nal_buf)
<1>1. nal_buf \in Seq(Cell) /\ pipe \in Seq(Cell) /\ m \in Nat
  BY LenProperties DEF TypeOK
<1>2. \A i : i \in Starts(nal_buf) <=> /\ i \in 1..m /\ i + 1 \in 1..m
                                       /\ nal_buf[i].pos = 0 /\ nal_buf[i + 1].pos = 1
  BY <1>1, StartsAre
<1>3. ASSUME Starts(nal_buf) # {}
      PROVE  \E s \in 1..m : s + 1 \in 1..m /\ Cut(nal_buf, s, s + 1)
  <2>1. PICK s \in 1..m, e \in 1..m : Cut(nal_buf, s, e) /\ Len(nal_data) = e - s + 1
    BY <1>1, <1>3, ExtractCuts DEF nal_data
  <2>2. e \in (s + 1)..m /\ ~(e - s + 1 > 2)
    BY <2>1 DEF Cut, Found
  <2>3. e = s + 1
    BY <1>1, <2>2
  <2>4. QED
    BY <2>1, <2>3
<1>4. ~Trapped
  <2>1. SUFFICES ASSUME Trapped PROVE FALSE
    OBVIOUS
  <2>2. PICK j \in 1..m : Trap(nal_buf, j)
    BY <2>1 DEF Trapped
  <2>3. 1 \in Starts(nal_buf)
    BY <2>2 DEF Trap
  <2>4. PICK s \in 1..m : s + 1 \in 1..m /\ Cut(nal_buf, s, s + 1)
    BY <1>3, <2>3
  <2>5. s + 1 < s + 1
    BY <1>1, <2>2, <2>4, TrappedTaken
  <2>6. QED
    BY <1>1, <2>5
<1>5. Stream(nal_buf \o pipe)
  BY <1>4 DEF NalInv
<1>6. ASSUME NEW i \in Starts(nal_buf) PROVE i + 1 = m
  <2>1. i \in 1..m /\ i + 1 \in 1..m /\ nal_buf[i].pos = 0
    BY <1>2
  <2>2. PICK s \in 1..m : s + 1 \in 1..m /\ Cut(nal_buf, s, s + 1)
    BY <1>3, <1>6
  <2>3. /\ s \in Starts(nal_buf)
        /\ \A x \in 1..(s + 1) : x \in Starts(nal_buf) <=> x = s
        /\ s + 1 = m \/ (s + 1) + 1 \in Starts(nal_buf)
    BY <2>2 DEF Cut
  <2>4. s + 1 = m
    <3>1. SUFFICES ASSUME s + 1 # m PROVE FALSE
      OBVIOUS
    <3>2. s + 1 < m
      <4>1. s + 1 \in 1..m /\ m \in Nat
        BY <1>1, <2>2
      <4> HIDE DEF m
      <4>2. QED
        BY <3>1, <4>1
    <3>3. IsCell(nal_buf[s + 1]) /\ Follows(nal_buf[s + 1], nal_buf[(s + 1) + 1])
      BY <1>1, <1>5, <2>2, <3>2, StreamFront
    <3>4. nal_buf[s + 1].pos = 1
      BY <1>2, <2>3
    <3>5. nal_buf[(s + 1) + 1].pos = 2
      BY <3>3, <3>4 DEF IsCell, Follows
    <3>6. QED
      BY <1>2, <2>3, <3>1, <3>5
  <2>5. i \in 1..(s + 1) \/ i + 1 \notin 1..m
    <3>1. i \in 1..m /\ m = s + 1
      BY <2>1, <2>4
    <3>2. QED
      BY <3>1
  <2>6. QED
    BY <2>1, <2>3, <2>4, <2>5, <1>6
<1>7. QED
  BY <1>5, <1>6

\* An IDR unit that is put back is the first one behind the stored parameter sets.
LEMMA InjectTraps ==
  ASSUME TypeOK, NalInv, pc = "nals", Inject
  PROVE  Trapped'
<1> DEFINE m == Len(nal_buf)
<1>1. nal_buf \in Seq(Cell) /\ sps \in Seq(Cell) /\ pps \in Seq(Cell) /\ m \in Nat
  BY LenProperties DEF TypeOK
<1>2. /\ Found /\ nal_type = "idr" /\ HasParams
      /\ nal_buf' = sps \o pps \o nal_data \o Drained
      /\ sps' = sps /\ pps' = pps
  BY DEF Inject, Taken, Injects
<1>3. PICK s \in 1..m, e \in 1..m :
           /\ s + 1 < e
           /\ nal_data \in Seq(Cell) /\ Len(nal_data) = e - s + 1
           /\ \A i \in 1..(e - s + 1) : nal_data[i] = nal_buf[s + i - 1]
           /\ Drained \in Seq(Cell) /\ Len(Drained) = m - (e - s + 1)
           /\ \A i \in 1..(m - (e - s + 1)) : Drained[i] = nal_buf[(e - s + 1) + i]
           /\ \A i \in 1..m : IsCell(nal_buf[i])
           /\ s \in Starts(nal_buf) /\ nal_type = nal_buf[s].kind
           /\ Follows(nal_buf[s], nal_buf[s + 1]) /\ Follows(nal_buf[s + 1], nal_buf[s + 2])
  BY <1>2, TakenIsOneNal
<1>4. nal_buf[s].pos = 0 /\ nal_buf[s + 1].pos = 1
  BY <1>1, <1>3, StartsAre
<1>5. Unit(sps) /\ Unit(pps)
  BY <1>2 DEF HasParams, NalInv, ParamSet
<1> DEFINE k == e - s + 1
           d == m - k
           t == nal_data \o Drained
<1>6. /\ k \in Nat /\ k > 2 /\ d \in Nat /\ m = k + d
      /\ s \in Nat /\ s >= 1 /\ (s - 1) + k <= m
      /\ Len(nal_data) = k /\ Len(Drained) = d
  BY <1>1, <1>3
<1>7. /\ \A i \in 1..k : nal_data[i] = nal_buf[s + i - 1]
      /\ \A i \in 1..d : Drained[i] = nal_buf[k + i]
      /\ \A i \in 1..m : IsCell(nal_buf[i])
  BY <1>3
<1> HIDE DEF m, k, d
<1>8. /\ t \in Seq(Cell) /\ Len(t) = k + d
      /\ \A i \in 1..k : t[i] = nal_data[i]
      /\ \A i \in 1..d : t[k + i] = Drained[i]
  BY <1>3, <1>6, Joined
<1>9. /\ t[1] = nal_buf[s] /\ t[2] = nal_buf[s + 1] /\ t[3] = nal_buf[s + 2]
  <2>1. /\ 1 \in 1..k /\ s + 1 - 1 = s /\ 2 \in 1..k /\ s + 2 - 1 = s + 1
        /\ 3 \in 1..k /\ s + 3 - 1 = s + 2
    BY <1>6
  <2>2. /\ t[1] = nal_buf[s + 1 - 1] /\ t[2] = nal_buf[s + 2 - 1] /\ t[3] = nal_buf[s + 3 - 1]
    BY <1>7, <1>8, <2>1
  <2>3. QED
    BY <2>1, <2>2
<1>10. \A i \in 1..(k + d) : IsCell(t[i])
  <2> TAKE i \in 1..(k + d)
  <2>1. CASE i \in 1..k
    <3>1. s + i - 1 \in 1..m
      BY <1>6, <2>1
    <3>2. t[i] = nal_buf[s + i - 1]
      BY <1>7, <1>8, <2>1
    <3>3. QED
      BY <1>7, <3>1, <3>2
  <2>2. CASE i \notin 1..k
    <3>1. i - k \in 1..d /\ i = k + (i - k) /\ i \in 1..m
      BY <1>6, <2>2
    <3>2. t[k + (i - k)] = nal_buf[k + (i - k)]
      BY <1>7, <1>8, <3>1
    <3>3. QED
      BY <1>7, <3>1, <3>2
  <2>3. QED
    BY <2>1, <2>2
<1> HIDE DEF t
<1>11. Trap(t, 1)
  <2>1. 1 \in Starts(t)
    <3>1. 1 \in 1..Len(t) /\ 1 + 1 \in 1..Len(t) /\ 1 + 1 = 2
      BY <1>6, <1>8
    <3>2. t[1].pos = 0 /\ t[1 + 1].pos = 1
      BY <1>4, <1>9
    <3>3. QED
      BY <1>8, <3>1, <3>2, StartsAre
  <2>2. t[1].kind = "idr"
    BY <1>2, <1>3, <1>9
  <2>3. ASSUME NEW i \in Starts(t), i <= 1
        PROVE  i + 2 <= Len(t) /\ Follows(t[i], t[i + 1]) /\ Follows(t[i + 1], t[i + 2])
    <3>1. i \in 1..Len(t)
      BY <1>8, StartsAre
    <3>2. i = 1 /\ i + 1 = 2 /\ i + 2 = 3 /\ 3 <= Len(t)
      BY <1>6, <1>8, <2>3, <3>1
    <3>3. QED
      BY <1>3, <1>9, <3>2
  <2>4. \A i \in 1..(1 - 1) : Follows(t[i], t[i + 1]) \/ i + 1 \in Starts(t)
    OBVIOUS
  <2>5. QED
    BY <1>8, <1>10, <2>1, <2>2, <2>3, <2>4 DEF Trap
<1> DEFINE b == pps \o t
           c == sps \o b
           p == Len(pps) + 1
           q == Len(sps) + p
<1>12. b \in Seq(Cell) /\ Trap(b, p)
  BY <1>1, <1>5, <1>8, <1>11, UnitBefore, Joined
<1>13. Len(sps) \in Nat /\ Len(pps) \in Nat /\ p \in Nat
  BY <1>1, Joined
<1> HIDE DEF b, p
<1>14. c \in Seq(Cell) /\ Trap(c, q)
  BY <1>1, <1>5, <1>12, <1>13, UnitBefore, Joined
<1>15. nal_buf' = c
  <2> DEFINE a == sps \o pps
  <2>0. a \in Seq(Cell)
    BY <1>1, ConcatProperties
  <2>1. (a \o nal_data) \o Drained = a \o (nal_data \o Drained)
    <3> DEFINE x == nal_data
               y == Drained
    <3>1. x \in Seq(Cell) /\ y \in Seq(Cell)
      BY <1>3
    <3> HIDE DEF a, x, y
    <3>2. (a \o x) \o y = a \o (x \o y)
      BY <2>0, <3>1, ConcatAssociative
    <3>3. QED
      BY <3>2 DEF x, y
  <2>2. (sps \o pps) \o t = sps \o (pps \o t)
    BY <1>1, <1>8, ConcatAssociative
  <2>3. QED
    <3>1. nal_buf' = (a \o nal_data) \o Drained
      BY <1>2
    <3>2. c = a \o t
      BY <2>2 DEF b
    <3>3. QED
      BY <2>1, <3>1, <3>2 DEF t
<1>16. q \in 1..Len(c)
  <2>1. q \in Starts(c)
    BY <1>14 DEF Trap
  <2> HIDE DEF c, q
  <2>2. QED
    BY <1>14, <2>1, StartsAre
<1>17. HasParams'
  BY <1>2 DEF HasParams
<1>18. QED
  BY <1>14, <1>15, <1>16, <1>17 DEF Trapped

\* A read moves cells from the pipe to the end of the buffer.
LEMMA ReadStreams ==
  ASSUME TypeOK, Stream(nal_buf \o pipe), Read
  PROVE  Stream(nal_buf \o pipe)'
<1> DEFINE m == Len(nal_buf)
           q == Len(pipe)
<1>1. nal_buf \in Seq(Cell) /\ pipe \in Seq(Cell) /\ m \in Nat /\ q \in Nat
  BY LenProperties DEF TypeOK
<1>2. PICK n \in 1..q :
        /\ nal_buf' = MadeRoom(n) \o SubSeq(pipe, 1, n)
        /\ pipe' = SubSeq(pipe, n + 1, q)
  BY DEF Read
<1> DEFINE r == MadeRoom(n)
<1>3. r \in Seq(Cell) /\ (r = <<>> \/ \E s \in 1..(m + 1) : r = SubSeq(nal_buf, s, m))
  BY <1>1, MadeRoomIsEnd
<1>4. \E k \in Nat : m = k + Len(r) /\ \A i \in 1..Len(r) : r[i] = nal_buf[k + i]
  <2>1. CASE r = <<>>
    <3>1. Len(r) = 0
      BY <2>1, EmptySeq
    <3> HIDE DEF r
    <3>2. m = m + Len(r) /\ \A i \in 1..Len(r) : r[i] = nal_buf[m + i]
      BY <1>1, <3>1
    <3>3. QED
      BY <1>1, <3>2
  <2>2. ASSUME NEW s \in 1..(m + 1), r = SubSeq(nal_buf, s, m)
        PROVE  \E k \in Nat : m = k + Len(r) /\ \A i \in 1..Len(r) : r[i] = nal_buf[k + i]
    <3> DEFINE k == s - 1
    <3>1. m \in (s - 1)..m /\ k \in Nat /\ \A i \in Nat : s + i - 1 = k + i
      BY <1>1, <2>2
    <3>2. /\ Len(SubSeq(nal_buf, s, m)) = m - s + 1
          /\ \A i \in 1..(m - s + 1) : SubSeq(nal_buf, s, m)[i] = nal_buf[s + i - 1]
      BY <1>1, <3>1, Piece
    <3>3. m - s + 1 \in Nat /\ m = k + (m - s + 1)
      BY <1>1, <2>2
    <3>4. Len(r) = m - s + 1 /\ \A i \in 1..(m - s + 1) : r[i] = nal_buf[s + i - 1]
      BY <2>2, <3>2
    <3> HIDE DEF r, k, m
    <3>5. \A i \in 1..Len(r) : r[i] = nal_buf[k + i]
      <4> TAKE i \in 1..Len(r)
      <4>1. i \in 1..(m - s + 1) /\ i \in Nat
        BY <3>3, <3>4
      <4>2. s + i - 1 = k + i /\ r[i] = nal_buf[s + i - 1]
        BY <3>1, <3>4, <4>1
      <4>3. QED
        BY <4>2
    <3>6. QED
      BY <3>1, <3>3, <3>4, <3>5
  <2>3. QED
    BY <1>3, <2>1, <2>2
<1>5. Stream(r \o pipe)
  <2>1. PICK k \in Nat : m = k + Len(r) /\ \A i \in 1..Len(r) : r[i] = nal_buf[k + i]
    BY <1>4
  <2>2. r \in Seq(Cell)
    BY <1>3
  <2> HIDE DEF r
  <2>3. QED
    BY <1>1, <2>1, <2>2, StreamRest
<1>6. nal_buf' \o pipe' = r \o pipe
  <2> DEFINE p == SubSeq(pipe, 1, n)
             t == SubSeq(pipe, n + 1, q)
  <2>1. /\ 1 \in 1..(q + 1) /\ n \in (1 - 1)..q
        /\ n + 1 \in 1..(q + 1) /\ q \in ((n + 1) - 1)..q /\ q \in n..q
    BY <1>1, <1>2
  <2>2. p \in Seq(Cell) /\ t \in Seq(Cell)
    <3> DEFINE n1 == n + 1
    <3>1. n1 \in 1..(q + 1) /\ q \in (n1 - 1)..q
      BY <2>1
    <3> HIDE DEF n1
    <3>2. SubSeq(pipe, n1, q) \in Seq(Cell)
      BY <1>1, <3>1, Piece
    <3>3. p \in Seq(Cell)
      BY <1>1, <2>1, Piece
    <3>4. QED
      BY <3>2, <3>3 DEF n1
  <2>3. p \o t = pipe
    BY <1>1, <2>1, ConcatAdjacentSubSeq, SubSeqFull
  <2>4. (r \o p) \o t = r \o (p \o t)
    <3>1. r \in Seq(Cell)
      BY <1>3
    <3> HIDE DEF r, p, t
    <3>2. QED
      BY <2>2, <3>1, ConcatAssociative
  <2>5. QED
    BY <1>2, <2>3, <2>4
<1>7. QED
  BY <1>5, <1>6

\* NalInv is inductive.
LEMMA NalStep == TypeOK /\ NalInv /\ [Next]_vars => NalInv'
<1> SUFFICES ASSUME TypeOK, NalInv, [Next]_vars PROVE NalInv'
  OBVIOUS
<1>1. /\ nal_buf \in Seq(Cell) /\ pipe \in Seq(Cell)
      /\ ParamSet(sps, "sps") /\ ParamSet(pps, "pps")
  BY DEF TypeOK, NalInv
<1>2. ASSUME UNCHANGED <<sps, pps, nal_buf, pipe>>, pc' = pc \/ pc' \notin {"top", "read", "nals"}
      PROVE  NalInv'
  BY <1>2 DEF NalInv, Trapped, HasParams
<1>0. CASE StillAlive \/ ReadNothing
  BY <1>0 DEF StillAlive, ReadNothing, camera, NalInv
<1>3. CASE CameraDies \/ Interrupt \/ Stop \/ GiveUp \/ Cleanup \/ UNCHANGED vars
  BY <1>2, <1>3 DEF CameraDies, Interrupt, Stop, GiveUp, Cleanup, vars, camera
<1>4. CASE CameraWrites
  <2>0. PICK kind \in Kinds : \E len \in LensOf(kind) :
          pipe' = pipe \o NalOf(kind, len)
    BY <1>4 DEF CameraWrites
  <2>1. PICK len \in LensOf(kind) :
          pipe' = pipe \o NalOf(kind, len)
    BY <2>0
  <2> DEFINE t == NalOf(kind, len)
  <2>2. t \in Seq(Cell) /\ Len(t) > 0 /\ t[1].pos = 0 /\ Stream(t)
    BY <1>4, NalOfStreams DEF CameraWrites, TypeOK
  <2> HIDE DEF t
  <2>3. nal_buf \o (pipe \o t) = (nal_buf \o pipe) \o t /\ nal_buf \o pipe \in Seq(Cell)
    <3>1. nal_buf \o pipe \in Seq(Cell)
      BY <1>1, ConcatProperties
    <3>2. nal_buf \o (pipe \o t) = (nal_buf \o pipe) \o t
      BY <1>1, <2>2, ConcatAssociative
    <3>3. QED
      BY <3>1, <3>2
  <2>4. Stream(nal_buf \o pipe) => Stream(nal_buf \o (pipe \o t))
    BY <2>2, <2>3, StreamJoin
  <2>5. UNCHANGED <<pc, nal_buf, sps, pps>> /\ pipe' = pipe \o t
    BY <1>4, <2>1 DEF CameraWrites, t
  <2>6. QED
    BY <2>4, <2>5 DEF NalInv, Trapped, HasParams
<1>5. ASSUME pc' = "top", nal_buf' = <<>>, UNCHANGED <<sps, pps>>, Stream(nal_buf \o pipe)'
      PROVE  NalInv'
  <2>1. Starts(<<>>) = {}
    BY DEF Starts
  <2>2. QED
    BY <1>1, <1>5, <2>1 DEF NalInv
<1>6. CASE Restart
  <2>1. Stream(<<>>) /\ <<>> \o <<>> = <<>>
    BY EmptySeq, ConcatEmptySeq DEF Stream
  <2>2. QED
    BY <1>5, <1>6, <2>1 DEF Restart, Reset
<1>7. CASE RestartFails
  BY <1>1, <1>7 DEF RestartFails, Reset, NalInv
<1>8. CASE Read
  <2>1. Stream(nal_buf \o pipe)'
    BY <1>8, ReadStreams DEF Read, NalInv
  <2>2. pc' = "nals" /\ UNCHANGED <<sps, pps>>
    BY <1>8 DEF Read
  <2>3. QED
    BY <1>1, <2>1, <2>2 DEF NalInv
<1>9. CASE ReadFails
  <2>1. Stream(nal_buf \o pipe) /\ nal_buf' = <<>> /\ pipe' = pipe /\ UNCHANGED <<sps, pps>>
        /\ pc' = "top"
    BY <1>9 DEF ReadFails, camera, NalInv
  <2> DEFINE e == <<>>
  <2>2. e \in Seq(Cell) /\ Len(e) = 0
    BY EmptySeq
  <2>3. Len(nal_buf) \in Nat
    BY <1>1, LenProperties
  <2> HIDE DEF e
  <2>4. Len(nal_buf) = Len(nal_buf) + Len(e) /\ \A i \in 1..Len(e) : e[i] = nal_buf[Len(nal_buf) + i]
    BY <2>2, <2>3
  <2>5. Stream(e \o pipe)
    BY <1>1, <2>1, <2>2, <2>3, <2>4, StreamRest
  <2>6. QED
    BY <1>5, <2>1, <2>5 DEF e
<1>10. CASE NoNal
  <2>1. pc = "nals" /\ ~Found /\ pc' = "top" /\ UNCHANGED <<nal_buf, pipe, sps, pps>>
    BY <1>10 DEF NoNal, camera
  <2>2. Stream(nal_buf \o pipe) /\ \A i \in Starts(nal_buf) : i + 1 = Len(nal_buf)
    BY <2>1, NoNalLeaves
  <2>3. QED
    BY <1>1, <2>1, <2>2 DEF NalInv
<1>11. CASE Inject
  <2>1. pc = "nals" /\ pc' = "nals" /\ UNCHANGED <<sps, pps>>
    BY <1>11 DEF Inject, Taken
  <2>2. Trapped'
    BY <1>11, <2>1, InjectTraps
  <2>3. QED
    BY <1>1, <2>1, <2>2 DEF NalInv
<1>12. CASE SendShort \/ BeginLong
  <2>1. /\ pc = "nals" /\ Found /\ ~Injects /\ Store
        /\ nal_buf' = Drained /\ pipe' = pipe /\ pc' = pc
    BY <1>12 DEF SendShort, BeginLong, Taken, camera
  <2>2. Stream(nal_buf \o pipe)' \/ Trapped'
    BY <2>1, DrainedStreams
  <2>3. ParamSet(sps', "sps") /\ ParamSet(pps', "pps")
    BY <2>1, NewParams
  <2>4. QED
    BY <2>1, <2>2, <2>3 DEF NalInv
<1>13. CASE Overrun
  <2>1. pc = "nals" /\ Found /\ ~Injects /\ Store /\ pc' = "panicked"
    BY <1>13 DEF Overrun, Taken
  <2>2. ParamSet(sps', "sps") /\ ParamSet(pps', "pps")
    BY <2>1, NewParams
  <2>3. QED
    BY <2>1, <2>2 DEF NalInv
<1>14. QED
  BY <1>0, <1>3, <1>4, <1>6, <1>7, <1>8, <1>9, <1>10, <1>11, <1>12, <1>13
  DEF Next, World, Thread, Top, Reading, NalLoop

\* Buffer and pipe are a piece of the camera's stream, unless an IDR unit was put back;
\* a stored parameter set is the beginning of one, as far as it had been read.  Every
\* read, wherever it ends, every overflow, drain and restart keeps it so.
THEOREM NalInvariant == Spec => [](TypeOK /\ NalInv)
<1>1. Init => NalInv
  <2>1. <<>> \o <<>> = <<>> /\ Starts(<<>>) = {} /\ Stream(<<>>)
    BY EmptySeq, ConcatEmptySeq DEF Stream, Starts
  <2>2. QED
    BY <2>1 DEF Init, NalInv, ParamSet
<1>2. QED
  BY <1>1, NalStep, TypeCorrect, PTL DEF Spec

\* What is sent, or begun to be sent, as one NAL unit is the beginning of one NAL unit,
\* and at most the zeros of the next start code, which a read cut off, behind it.
THEOREM OneNalTheorem == Spec => []SentIsOneNal
BY NalInvariant, NalInvSays, PTL


-----------------------------------------------------------------------------
(* Camera processes.                                                       *)

\* Cells of the camera process that runs, and cells that may be used while it does.
Own  == {c \in Cell : c.life = life}
Kept == {c \in Cell : c.life = life \/ c.kind \in Params \/ c.pos = 0}

\* The pipe is the running process's own, and nothing of an earlier one but parameter
\* sets (and zeros that a read cut off behind them) is in the buffer or in the arena.
LifeInv ==
  /\ pipe \in Seq(Own)
  /\ nal_buf \in Seq(Kept)
  /\ slot0 \in Seq(Kept)

\* What waits in the arena is full, and of the camera process that runs.
PanicInv ==
  /\ pending # None => pending = MaxShard /\ Len(slot0) = MaxData /\ slot0[1].life = life
  /\ pc = "panicked" => pending # None

LEMMA SeqOfSubset ==
  ASSUME NEW S, NEW T, NEW w \in Seq(S), \A i \in 1..Len(w) : w[i] \in T
  PROVE  w \in Seq(T)
<1>1. w \in [1..Len(w) -> S] /\ Len(w) \in Nat
  BY LenProperties
<1>2. w \in [1..Len(w) -> T]
  BY <1>1
<1>3. QED
  BY <1>1, <1>2, SeqDef

LEMMA ParamsAreKept ==
  ASSUME NEW buf \in Seq(Cell), NEW kind \in Params, ParamSet(buf, kind)
  PROVE  buf \in Seq(Kept)
<1>1. CASE buf = <<>>
  BY <1>1, EmptySeq
<1>2. CASE buf # <<>>
  <2>1. Unit(buf) /\ buf[1].kind \in Params
    BY <1>2 DEF ParamSet
  <2>2. \A i \in 1..Len(buf) : buf[i].kind = buf[1].kind \/ buf[i].pos = 0
    BY <2>1, UnitIsOneNal
  <2>3. \A i \in 1..Len(buf) : buf[i] \in Cell
    BY ElementOfSeq
  <2>4. \A i \in 1..Len(buf) : buf[i] \in Kept
    BY <2>1, <2>2, <2>3 DEF Kept
  <2>5. QED
    BY <2>4, SeqOfSubset
<1>3. QED
  BY <1>1, <1>2

LEMMA OwnIsKept == ASSUME NEW w \in Seq(Own) PROVE w \in Seq(Kept)
<1>1. \A i \in 1..Len(w) : w[i] \in Own
  BY ElementOfSeq
<1>2. \A i \in 1..Len(w) : w[i] \in Kept
  BY <1>1 DEF Own, Kept
<1>3. QED
  BY <1>2, SeqOfSubset

\* What is taken from the buffer and what is left in it are cells of it.
LEMMA TakenIsKept ==
  ASSUME TypeOK, NalInv, LifeInv, pc = "nals", Found
  PROVE  /\ nal_data \in Seq(Kept) /\ Drained \in Seq(Kept)
         /\ nal_data[1].kind = nal_type
<1> DEFINE m == Len(nal_buf)
<1>1. nal_buf \in Seq(Cell) /\ m \in Nat
  BY LenProperties DEF TypeOK
<1>2. PICK s \in 1..m, e \in 1..m :
           /\ s + 1 < e
           /\ nal_data \in Seq(Cell) /\ Len(nal_data) = e - s + 1
           /\ \A i \in 1..(e - s + 1) : nal_data[i] = nal_buf[s + i - 1]
           /\ Drained \in Seq(Cell) /\ Len(Drained) = m - (e - s + 1)
           /\ \A i \in 1..(m - (e - s + 1)) : Drained[i] = nal_buf[(e - s + 1) + i]
           /\ nal_type = nal_buf[s].kind
  BY TakenIsOneNal
<1> DEFINE k == e - s + 1
           d == m - k
<1>3. /\ k \in Nat /\ k > 2 /\ d \in Nat /\ m = k + d
      /\ s \in Nat /\ s >= 1 /\ (s - 1) + k <= m
      /\ Len(nal_data) = k /\ Len(Drained) = d
  <2>1. m \in Nat /\ s \in 1..m /\ e \in 1..m /\ s + 1 < e
    BY <1>1, <1>2
  <2>2. Len(nal_data) = k /\ Len(Drained) = d
    BY <1>2
  <2> HIDE DEF m
  <2>3. QED
    BY <2>1, <2>2
<1>4. /\ \A i \in 1..k : nal_data[i] = nal_buf[s + i - 1]
      /\ \A i \in 1..d : Drained[i] = nal_buf[k + i]
  BY <1>2
<1>5. \A i \in 1..m : nal_buf[i] \in Kept
  BY ElementOfSeq DEF LifeInv
<1> HIDE DEF m, k, d
<1>6. /\ \A i \in 1..k : s + i - 1 \in 1..m
      /\ \A i \in 1..d : k + i \in 1..m
      /\ 1 \in 1..k /\ s + 1 - 1 = s
  BY <1>3
<1>7. \A i \in 1..k : nal_data[i] \in Kept
  BY <1>4, <1>5, <1>6
<1>8. \A i \in 1..d : Drained[i] \in Kept
  BY <1>4, <1>5, <1>6
<1>9. nal_data[1] = nal_buf[s]
  <2>1. nal_data[1] = nal_buf[s + 1 - 1]
    BY <1>4, <1>6
  <2>2. QED
    BY <1>6, <2>1
<1>10. nal_data \in Seq(Kept)
  BY <1>2, <1>3, <1>7, SeqOfSubset
<1>11. Drained \in Seq(Kept)
  BY <1>2, <1>3, <1>8, SeqOfSubset
<1>12. QED
  BY <1>2, <1>9, <1>10, <1>11

\* LifeInv is inductive.
LEMMA LifeStep == TypeOK /\ NalInv /\ LifeInv /\ [Next]_vars => LifeInv'
<1> SUFFICES ASSUME TypeOK, NalInv, LifeInv, [Next]_vars PROVE LifeInv'
  OBVIOUS
<1>1. pipe \in Seq(Own) /\ nal_buf \in Seq(Kept) /\ slot0 \in Seq(Kept)
  BY DEF LifeInv
<1>2. \A S : <<>> \in Seq(S) /\ \A a, b \in Seq(S) : a \o b \in Seq(S)
  BY EmptySeq, ConcatProperties
<1>3. ASSUME life' = life, pipe' \in Seq(Own), nal_buf' \in Seq(Kept), slot0' \in Seq(Kept)
      PROVE  LifeInv'
  BY <1>3 DEF LifeInv, Own, Kept
<1>4. CASE CameraDies \/ Interrupt \/ Stop \/ GiveUp \/ StillAlive \/ ReadNothing \/ NoNal
             \/ Overrun \/ Cleanup \/ UNCHANGED vars
  BY <1>1, <1>3, <1>4
  DEF CameraDies, Interrupt, Stop, GiveUp, StillAlive, ReadNothing, NoNal, Overrun, Cleanup,
      vars, camera
<1>5. CASE CameraWrites
  <2>0. PICK kind \in Kinds : \E len \in LensOf(kind) :
          pipe' = pipe \o NalOf(kind, len)
    BY <1>5 DEF CameraWrites
  <2>1. PICK len \in LensOf(kind) :
          pipe' = pipe \o NalOf(kind, len)
    BY <2>0
  <2> DEFINE t == NalOf(kind, len)
             n == len + 2
  <2>2. len \in Nat
    BY VideoTxAssumption DEF VideoTxAssumption, LensOf
  <2>3. t \in Seq(Cell) /\ Len(t) = n
    BY <1>5, <2>2, NalOfIsSeq DEF CameraWrites, TypeOK
  <2>4. \A i \in 1..n : t[i].life = life
    BY DEF NalOf
  <2> HIDE DEF t, n
  <2>5. \A i \in 1..n : t[i] \in Own
    BY <2>3, <2>4, ElementOfSeq DEF Own
  <2>6. t \in Seq(Own)
    BY <2>3, <2>5, SeqOfSubset
  <2>7. pipe' \in Seq(Own) /\ UNCHANGED <<life, nal_buf, slot0>>
    BY <1>1, <1>2, <1>5, <2>1, <2>6 DEF CameraWrites, t
  <2>8. QED
    BY <1>1, <1>3, <2>7
<1>6. CASE Restart
  BY <1>2, <1>6 DEF Restart, Reset, LifeInv
<1>7. CASE RestartFails
  BY <1>1, <1>2, <1>3, <1>7 DEF RestartFails, Reset, camera
<1>8. CASE Read
  <2> DEFINE q == Len(pipe)
  <2>1. PICK n \in 1..q :
          /\ nal_buf' = MadeRoom(n) \o SubSeq(pipe, 1, n)
          /\ pipe' = SubSeq(pipe, n + 1, q)
    BY <1>8 DEF Read
  <2>2. SubSeq(pipe, 1, n) \in Seq(Own) /\ SubSeq(pipe, n + 1, q) \in Seq(Own)
    <3> DEFINE p == n + 1
    <3>1. 1 \in 1..(q + 1) /\ n \in (1 - 1)..q /\ p \in 1..(q + 1) /\ q \in (p - 1)..q
      BY <1>1, LenProperties
    <3> HIDE DEF p
    <3>2. SubSeq(pipe, 1, n) \in Seq(Own) /\ SubSeq(pipe, p, q) \in Seq(Own)
      BY <1>1, <3>1, Piece
    <3>3. QED
      BY <3>2 DEF p
  <2>3. MadeRoom(n) \in Seq(Kept)
    <3>1. \/ MadeRoom(n) = <<>>
          \/ \E s \in 1..(Len(nal_buf) + 1) : MadeRoom(n) = SubSeq(nal_buf, s, Len(nal_buf))
      BY MadeRoomIsEnd DEF TypeOK
    <3>2. ASSUME NEW s \in 1..(Len(nal_buf) + 1)
          PROVE  SubSeq(nal_buf, s, Len(nal_buf)) \in Seq(Kept)
      <4>1. Len(nal_buf) \in (s - 1)..Len(nal_buf)
        BY <1>1, LenProperties
      <4>2. QED
        BY <1>1, <4>1, Piece
    <3>3. QED
      BY <1>2, <3>1, <3>2
  <2>4. nal_buf' \in Seq(Kept) /\ pipe' \in Seq(Own)
    BY <1>2, <2>1, <2>2, <2>3, OwnIsKept
  <2>5. UNCHANGED <<life, slot0>>
    BY <1>8 DEF Read
  <2>6. QED
    BY <1>1, <1>3, <2>4, <2>5
<1>9. CASE ReadFails
  BY <1>1, <1>2, <1>3, <1>9 DEF ReadFails, camera
<1>10. CASE Inject
  <2>1. sps \in Seq(Kept) /\ pps \in Seq(Kept)
    BY ParamsAreKept DEF TypeOK, NalInv, Params
  <2>2. /\ pc = "nals" /\ Found /\ UNCHANGED <<life, pipe, slot0>>
        /\ nal_buf' = sps \o pps \o nal_data \o Drained
    BY <1>10 DEF Inject, Taken, camera
  <2>3. nal_data \in Seq(Kept) /\ Drained \in Seq(Kept)
    BY <2>2, TakenIsKept
  <2>4. nal_buf' \in Seq(Kept)
    BY <1>2, <2>1, <2>2, <2>3
  <2>5. QED
    BY <1>1, <1>3, <2>2, <2>4
<1>11. CASE SendShort
  <2>1. pc = "nals" /\ Found /\ UNCHANGED <<life, pipe, slot0>> /\ nal_buf' = Drained
    BY <1>11 DEF SendShort, Taken, camera
  <2>2. QED
    BY <1>1, <1>3, <2>1, TakenIsKept
<1>12. CASE BeginLong
  <2>1. /\ pc = "nals" /\ Found /\ UNCHANGED <<life, pipe>> /\ nal_buf' = Drained
        /\ slot0' = SubSeq(nal_data, 1, MaxData) /\ Len(nal_data) > MaxData
    BY <1>12 DEF BeginLong, Taken, camera
  <2>2. nal_data \in Seq(Kept) /\ Drained \in Seq(Kept)
    BY <2>1, TakenIsKept
  <2>3. slot0' \in Seq(Kept)
    <3>1. 1 \in 1..(Len(nal_data) + 1) /\ MaxData \in (1 - 1)..Len(nal_data)
      BY <2>1, <2>2, LenProperties, Constants
    <3>2. QED
      BY <2>1, <2>2, <3>1, Piece
  <2>4. QED
    BY <1>1, <1>3, <2>1, <2>2, <2>3
<1>13. QED
  BY <1>4, <1>5, <1>6, <1>7, <1>8, <1>9, <1>10, <1>11, <1>12
  DEF Next, World, Thread, Top, Reading, NalLoop

\* PanicInv is inductive.
LEMMA PanicStep == TypeOK /\ NalInv /\ LifeInv /\ PanicInv /\ [Next]_vars => PanicInv'
<1> SUFFICES ASSUME TypeOK, NalInv, LifeInv, PanicInv, [Next]_vars PROVE PanicInv'
  OBVIOUS
<1>1. ASSUME UNCHANGED <<life, slot0, pending>>, pc' = pc \/ pc' # "panicked"
      PROVE  PanicInv'
  BY <1>1 DEF PanicInv
<1>2. CASE World \/ Cleanup \/ UNCHANGED vars
  BY <1>1, <1>2
  DEF World, CameraWrites, CameraDies, Interrupt, Cleanup, vars, camera
<1>3. CASE Stop \/ GiveUp \/ StillAlive \/ Reading
  BY <1>1, <1>3 DEF Stop, GiveUp, StillAlive, Reading, Read, ReadNothing, ReadFails, camera
<1>4. CASE NoNal \/ Inject \/ SendShort
  BY <1>1, <1>4 DEF NoNal, Inject, SendShort, Taken, camera
<1>5. CASE Restart \/ RestartFails
  BY <1>5 DEF Restart, RestartFails, Reset, PanicInv
<1>6. CASE Overrun
  BY <1>6 DEF Overrun, Taken, camera, PanicInv
<1>7. CASE BeginLong
  <2>1. /\ pc = "nals" /\ Found /\ ~Injects /\ Store /\ pc' = pc /\ life' = life
        /\ slot0' = SubSeq(nal_data, 1, MaxData) /\ Len(nal_data) > MaxData
        /\ pending' = FragHdr + MaxData
    BY <1>7 DEF BeginLong, Taken, camera
  <2>0. nal_data \in Seq(Cell)
    BY <2>1, TakenIsOneNal
  <2>2. nal_data \in Seq(Kept) /\ nal_data[1].kind = nal_type
    BY <2>1, TakenIsKept
  <2> DEFINE q == Len(nal_data)
  <2>3. q \in Nat /\ q > MaxData
    BY <2>1, <2>2, LenProperties
  <2>4. Len(slot0') = MaxData /\ slot0'[1] = nal_data[1]
    <3>1. /\ 1 \in 1..(q + 1) /\ MaxData \in (1 - 1)..q
          /\ MaxData - 1 + 1 = MaxData /\ 1 \in 1..MaxData /\ 1 + 1 - 1 = 1
      BY <2>3, Constants
    <3> DEFINE n == MaxData
    <3>2. n - 1 + 1 = n /\ 1 \in 1..n /\ n \in (1 - 1)..q
      BY <3>1
    <3> HIDE DEF n
    <3>3. /\ Len(SubSeq(nal_data, 1, n)) = n - 1 + 1
          /\ \A i \in 1..(n - 1 + 1) : SubSeq(nal_data, 1, n)[i] = nal_data[1 + i - 1]
      BY <2>2, <3>1, <3>2, Piece
    <3>4. /\ Len(SubSeq(nal_data, 1, n)) = n
          /\ SubSeq(nal_data, 1, n)[1] = nal_data[1 + 1 - 1]
      BY <3>2, <3>3
    <3>5. QED
      BY <2>1, <3>1, <3>4 DEF n
  <2>5. nal_type \notin Params
    <3>1. SUFFICES ASSUME nal_type \in Params PROVE FALSE
      OBVIOUS
    <3>2. ParamSet(sps', "sps") /\ ParamSet(pps', "pps")
      BY <2>1, NewParams
    <3>3. nal_data = sps' \/ nal_data = pps'
      BY <2>1, <3>1 DEF Store, Params
    <3>4. nal_data # <<>>
      BY <2>3, Constants, EmptySeq
    <3>5. Unit(nal_data) /\ nal_data[1].kind \in Params
      BY <3>2, <3>3, <3>4 DEF ParamSet, Params
    <3> DEFINE i == q - 1
    <3>6. i \in 1..q /\ i # q /\ ~((i - 1) + 2 <= MaxData)
      BY <2>3, Constants
    <3>7. IsCell(nal_data[i])
      BY <3>5, <3>6 DEF Unit
    <3>8. nal_data[i].kind = nal_data[1].kind /\ nal_data[i].pos = i - 1
      BY <2>0, <3>5, <3>6, UnitIsOneNal
    <3> HIDE DEF i
    <3>9. QED
      BY <3>5, <3>6, <3>7, <3>8 DEF IsCell
  <2>6. nal_data[1].life = life
    <3>1. Unit(nal_data)
      BY <2>1, TakenIsOneNal
    <3>2. 2 \in 1..q /\ 2 # q
      BY <2>3, Constants
    <3>3. nal_data[2] \in Kept
      BY <2>2, <3>2, ElementOfSeq
    <3>4. /\ nal_data[2].life = nal_data[1].life /\ nal_data[2].kind = nal_data[1].kind
          /\ nal_data[2].pos = 1
      <4>1. \/ /\ nal_data[2].life = nal_data[1].life /\ nal_data[2].nal = nal_data[1].nal
               /\ nal_data[2].kind = nal_data[1].kind /\ nal_data[2].pos = 2 - 1
            \/ nal_data[2].pos = 0 /\ 2 = Len(nal_data)
        BY <2>0, <3>1, <3>2, UnitIsOneNal
      <4>2. QED
        BY <3>2, <4>1
    <3>5. QED
      BY <2>2, <2>5, <3>3, <3>4 DEF Kept
  <2>7. pending' = MaxShard
    BY <2>1, Constants
  <2>8. QED
    BY <2>1, <2>4, <2>6, <2>7 DEF PanicInv
<1>8. QED
  BY <1>2, <1>3, <1>4, <1>5, <1>6, <1>7 DEF Next, Thread, Top, NalLoop

\* Of an earlier camera process only parameter sets are in use, and what waits in the
\* arena is full and of the process that runs.
THEOREM LifeInvariant == Spec => [](TypeOK /\ NalInv /\ LifeInv /\ PanicInv)
<1>1. Init => LifeInv /\ PanicInv
  BY EmptySeq DEF Init, LifeInv, PanicInv
<1>2. QED
  BY <1>1, NalInvariant, LifeStep, PanicStep, PTL DEF Spec

\* Only SPS and PPS outlive their camera process, whatever the restart interrupted.
THEOREM OutliveTheorem == Spec => []OnlyParamsOutliveCamera
<1>1. TypeOK /\ LifeInv => OnlyParamsOutliveCamera
  <2> SUFFICES ASSUME TypeOK, LifeInv, NEW c \in ToSet(nal_buf) \cup ToSet(slot0)
               PROVE  c.life = life \/ c.kind \in Params \/ c.pos = 0
    BY DEF OnlyParamsOutliveCamera
  <2>1. nal_buf \in Seq(Kept) /\ slot0 \in Seq(Kept)
    BY DEF LifeInv
  <2>2. DOMAIN nal_buf = 1..Len(nal_buf) /\ DOMAIN slot0 = 1..Len(slot0)
    BY <2>1, LenProperties
  <2>3. c \in Kept
    BY <2>1, <2>2, ElementOfSeq DEF ToSet
  <2>4. QED
    BY <2>3 DEF Kept
<1>2. QED
  BY <1>1, LifeInvariant, PTL

\* The thread panics only over a NAL unit of the running camera process that was too
\* long for one slot, and filled it.
THEOREM PanicTheorem == Spec => []PanicNeedsLongNal
<1>1. PanicInv => PanicNeedsLongNal
  BY DEF PanicInv, PanicNeedsLongNal
<1>2. QED
  BY <1>1, LifeInvariant, PTL

-----------------------------------------------------------------------------
(* Start codes.                                                            *)

\* The start code of NAL unit n is in buf, whole.
HasStart(buf, n) == \E i \in Starts(buf) : buf[i + 1].nal = n

LEMMA StartInPart ==
  ASSUME NEW a \in Seq(Cell), NEW b \in Seq(Cell), NEW n, HasStart(a, n) \/ HasStart(b, n)
  PROVE  HasStart(a \o b, n)
<1> DEFINE w == a \o b
           p == Len(a)
           q == Len(b)
<1>1. /\ w \in Seq(Cell) /\ p \in Nat /\ q \in Nat /\ Len(w) = p + q
      /\ \A i \in 1..p : w[i] = a[i]
      /\ \A i \in 1..q : w[p + i] = b[i]
  BY Joined
<1>2. \/ \E i \in 1..p : i + 1 \in 1..p /\ a[i].pos = 0 /\ a[i + 1].pos = 1 /\ a[i + 1].nal = n
      \/ \E i \in 1..q : i + 1 \in 1..q /\ b[i].pos = 0 /\ b[i + 1].pos = 1 /\ b[i + 1].nal = n
  BY StartsAre DEF HasStart
<1>3. \A i : i \in Starts(w) <=> /\ i \in 1..Len(w) /\ i + 1 \in 1..Len(w)
                                 /\ w[i].pos = 0 /\ w[i + 1].pos = 1
  BY <1>1, StartsAre
<1> HIDE DEF w, p, q
<1>4. ASSUME NEW i \in 1..p, i + 1 \in 1..p, a[i].pos = 0, a[i + 1].pos = 1, a[i + 1].nal = n
      PROVE  i \in Starts(w) /\ w[i + 1].nal = n
  <2>1. i \in 1..Len(w) /\ i + 1 \in 1..Len(w)
    BY <1>1, <1>4
  <2>2. w[i] = a[i] /\ w[i + 1] = a[i + 1]
    BY <1>1, <1>4
  <2>3. QED
    BY <1>3, <1>4, <2>1, <2>2
<1>5. ASSUME NEW i \in 1..q, i + 1 \in 1..q, b[i].pos = 0, b[i + 1].pos = 1, b[i + 1].nal = n
      PROVE  p + i \in Starts(w) /\ w[(p + i) + 1].nal = n
  <2>1. p + i \in 1..Len(w) /\ (p + i) + 1 \in 1..Len(w) /\ (p + i) + 1 = p + (i + 1)
    BY <1>1, <1>5
  <2>2. w[p + i] = b[i] /\ w[p + (i + 1)] = b[i + 1]
    BY <1>1, <1>5
  <2>3. QED
    BY <1>3, <1>5, <2>1, <2>2
<1>6. \E i \in Starts(w) : w[i + 1].nal = n
  BY <1>2, <1>4, <1>5
<1>7. QED
  BY <1>6 DEF HasStart, w

\* A start code that is in the buffer is taken, or left behind what is drained.
LEMMA StartStays ==
  ASSUME nal_buf \in Seq(Cell), Found, NEW n, HasStart(nal_buf, n)
  PROVE  nal_data[2].nal = n \/ HasStart(Drained, n)
<1> DEFINE m == Len(nal_buf)
<1>1. m \in Nat
  BY LenProperties
<1>2. PICK s \in 1..m, e \in 1..m :
           /\ Cut(nal_buf, s, e) /\ s + 1 < e
           /\ Len(nal_data) = e - s + 1
           /\ \A i \in 1..(e - s + 1) : nal_data[i] = nal_buf[s + i - 1]
           /\ Drained \in Seq(Cell)
           /\ Len(Drained) = m - (e - s + 1)
           /\ \A i \in 1..(m - (e - s + 1)) : Drained[i] = nal_buf[(e - s + 1) + i]
  BY Taking
<1>3. PICK i \in 1..m : /\ i \in Starts(nal_buf) /\ i + 1 \in 1..m
                        /\ nal_buf[i].pos = 0 /\ nal_buf[i + 1].pos = 1
                        /\ nal_buf[i + 1].nal = n
  BY StartsAre DEF HasStart
<1> DEFINE k == e - s + 1
<1>4. CASE i \in 1..e
  <2>1. i = s
    BY <1>2, <1>3, <1>4 DEF Cut
  <2>2. 2 \in 1..k /\ s + 2 - 1 = s + 1
    BY <1>1, <1>2
  <2>3. nal_data[2] = nal_buf[s + 2 - 1]
    BY <1>2, <2>2
  <2>4. QED
    BY <1>3, <2>1, <2>2, <2>3
<1>5. CASE i \notin 1..e
  <2> DEFINE j == i - k
             d == m - k
  <2>1. j \in 1..d /\ j + 1 \in 1..d /\ i = k + j /\ i + 1 = k + (j + 1)
    BY <1>1, <1>2, <1>3, <1>5
  <2>2. Len(Drained) = d /\ \A x \in 1..d : Drained[x] = nal_buf[k + x]
    BY <1>2
  <2> HIDE DEF j, d, k
  <2>3. Drained[j] = nal_buf[i] /\ Drained[j + 1] = nal_buf[i + 1]
    BY <2>1, <2>2
  <2> DEFINE y == Drained
  <2>4. /\ y \in Seq(Cell) /\ Len(y) = d
        /\ y[j].pos = 0 /\ y[j + 1].pos = 1 /\ y[j + 1].nal = n
    BY <1>2, <1>3, <2>2, <2>3
  <2> HIDE DEF y
  <2>5. j \in Starts(y)
    BY <2>1, <2>4, StartsAre
  <2>6. HasStart(y, n)
    BY <2>4, <2>5 DEF HasStart
  <2>7. QED
    BY <2>6 DEF y
<1>6. QED
  BY <1>4, <1>5

\* The only start code in the buffer when it is read into is at its end, and kept.
LEMMA StartIsRead ==
  ASSUME TypeOK, NalInv, Read, NEW n, HasStart(nal_buf, n)
  PROVE  HasStart(nal_buf', n)
<1> DEFINE m == Len(nal_buf)
           q == Len(pipe)
<1>1. nal_buf \in Seq(Cell) /\ pipe \in Seq(Cell) /\ m \in Nat /\ q \in Nat
  BY LenProperties DEF TypeOK
<1>2. PICK c \in 1..q : nal_buf' = MadeRoom(c) \o SubSeq(pipe, 1, c)
  BY DEF Read
<1>3. \A i \in Starts(nal_buf) : i + 1 = m /\ i \in 1..m
  BY <1>1, StartsAre DEF Read, NalInv
<1>4. PICK i \in Starts(nal_buf) : nal_buf[i + 1].nal = n
  BY DEF HasStart
<1>5. i + 1 = m /\ i \in 1..m /\ nal_buf[i].pos = 0 /\ nal_buf[i + 1].pos = 1
  BY <1>1, <1>3, <1>4, StartsAre
<1>6. HasStart(MadeRoom(c), n)
  <2>1. CASE MadeRoom(c) = nal_buf
    BY <2>1
  <2>2. CASE MadeRoom(c) # nal_buf
    <3>1. ~(\A x \in Starts(nal_buf) : x <= m \div 4)
      <4>1. m \in Nat /\ m > 1 /\ i \in Nat /\ i + 1 = m
        BY <1>1, <1>5
      <4> HIDE DEF m
      <4>2. ~(i <= m \div 4)
        BY <4>1
      <4>3. QED
        BY <1>4, <4>2
    <3>2. PICK s \in Starts(nal_buf) : MadeRoom(c) = SubSeq(nal_buf, s, m)
      BY <1>1, <2>2, <3>1, MadeRoomIsEnd
    <3>3. s = i
      <4>1. s + 1 = m /\ s \in 1..m /\ i + 1 = m /\ i \in 1..m /\ m \in Nat
        BY <1>1, <1>3, <1>5, <3>2
      <4> HIDE DEF m
      <4>2. QED
        BY <4>1
    <3>4. i \in 1..(m + 1) /\ m \in (i - 1)..m /\ m - i + 1 = 2
      BY <1>1, <1>5
    <3> DEFINE w == SubSeq(nal_buf, i, m)
    <3>5. /\ w \in Seq(Cell) /\ Len(w) = m - i + 1
          /\ \A x \in 1..(m - i + 1) : w[x] = nal_buf[i + x - 1]
      BY <1>1, <3>4, Piece
    <3> HIDE DEF w, m
    <3>6. Len(w) = 2 /\ \A x \in 1..2 : w[x] = nal_buf[i + x - 1]
      BY <3>4, <3>5
    <3>7. w[1] = nal_buf[i] /\ w[2] = nal_buf[i + 1]
      <4>1. i \in Int /\ 1 \in 1..2 /\ 2 \in 1..2 /\ i + 1 - 1 = i /\ i + 2 - 1 = i + 1
        BY <1>5
      <4>2. w[1] = nal_buf[i + 1 - 1] /\ w[2] = nal_buf[i + 2 - 1]
        BY <3>6, <4>1
      <4>3. QED
        BY <4>1, <4>2
    <3>8. 1 \in Starts(w) /\ 1 + 1 = 2
      <4>1. 1 \in 1..2 /\ 1 + 1 \in 1..2 /\ 1 + 1 = 2
        OBVIOUS
      <4>2. w[1].pos = 0 /\ w[1 + 1].pos = 1
        BY <1>5, <3>7, <4>1
      <4>3. w \in Seq(Cell) /\ Len(w) = 2
        BY <3>5, <3>6
      <4>4. 1 \in Starts(w)
        BY <4>1, <4>2, <4>3, StartsAre
      <4>5. QED
        BY <4>1, <4>4
    <3>9. HasStart(w, n)
      BY <1>4, <3>7, <3>8 DEF HasStart
    <3>10. QED
      BY <3>2, <3>3, <3>9 DEF w
  <2>3. QED
    BY <2>1, <2>2
<1>7. MadeRoom(c) \in Seq(Cell)
  BY <1>1, MadeRoomIsEnd
<1>8. SubSeq(pipe, 1, c) \in Seq(Cell)
  <2>1. 1 \in 1..(q + 1) /\ c \in (1 - 1)..q
    BY <1>1
  <2>2. QED
    BY <1>1, <2>1, Piece
<1>9. QED
  BY <1>2, <1>6, <1>7, <1>8, StartInPart

\* No start code leaves the buffer but with its NAL unit, or all of them at once.
LEMMA StartStep ==
  ASSUME TypeOK, NalInv, [Next]_vars, NEW n \in 1..Nals,
         HasStart(nal_buf, n), ~HasStart(nal_buf', n)
  PROVE  (pc = "nals" /\ nal_data[2].nal = n) \/ (nal_buf' = <<>> /\ pc # "nals")
<1>1. nal_buf \in Seq(Cell) /\ sps \in Seq(Cell) /\ pps \in Seq(Cell)
  BY DEF TypeOK
<1>2. nal_buf' # nal_buf
  OBVIOUS
<1>3. ~(World \/ Stop \/ GiveUp \/ StillAlive \/ ReadNothing \/ NoNal \/ Overrun \/ Cleanup
          \/ UNCHANGED vars)
  BY <1>2 DEF World, CameraWrites, CameraDies, Interrupt, Stop, GiveUp, StillAlive,
              ReadNothing, NoNal, Overrun, Cleanup, vars
<1>4. CASE Restart \/ RestartFails \/ ReadFails
  BY <1>4 DEF Restart, RestartFails, ReadFails, Reset
<1>5. CASE Read
  BY <1>5, StartIsRead
<1>6. CASE Inject
  <2>1. Found /\ pc = "nals" /\ nal_buf' = sps \o pps \o nal_data \o Drained
    BY <1>6 DEF Inject, Taken
  <2>2. nal_data \in Seq(Cell) /\ Drained \in Seq(Cell)
    BY <1>1, <2>1, Taking
  <2> DEFINE b == sps \o pps \o nal_data
  <2>3. b \in Seq(Cell)
    BY <1>1, <2>2, ConcatProperties
  <2> HIDE DEF b
  <2>4. ~HasStart(Drained, n)
    <3>1. nal_buf' = b \o Drained
      BY <2>1 DEF b
    <3>2. QED
      BY <2>2, <2>3, <3>1, StartInPart
  <2>5. QED
    BY <1>1, <2>1, <2>4, StartStays
<1>7. CASE SendShort \/ BeginLong
  <2>1. Found /\ pc = "nals" /\ nal_buf' = Drained
    BY <1>7 DEF SendShort, BeginLong, Taken
  <2>2. QED
    BY <1>1, <2>1, StartStays
<1>8. QED
  BY <1>3, <1>4, <1>5, <1>6, <1>7 DEF Next, Thread, Top, Reading, NalLoop

\* A start code that is whole in the buffer leaves it with its NAL unit, or when the
\* buffer is emptied.
THEOREM StartTheorem == Spec => NoStartIsLost
<1>1. TypeOK /\ NalInv /\ [Next]_vars =>
        [\A n \in 1..Nals :
           StartWaits(n) /\ ~StartWaits(n)' =>
             (pc = "nals" /\ nal_data[2].nal = n) \/ (nal_buf' = <<>> /\ pc # "nals")]_vars
  <2> SUFFICES ASSUME TypeOK, NalInv, [Next]_vars, NEW n \in 1..Nals,
                      StartWaits(n), ~StartWaits(n)'
               PROVE  (pc = "nals" /\ nal_data[2].nal = n) \/ (nal_buf' = <<>> /\ pc # "nals")
    OBVIOUS
  <2>1. HasStart(nal_buf, n) /\ ~HasStart(nal_buf', n)
    BY DEF HasStart, StartWaits
  <2>2. QED
    BY <2>1, StartStep
<1>2. QED
  BY <1>1, NalInvariant, PTL DEF Spec, NoStartIsLost

-----------------------------------------------------------------------------
(* Downlink.                                                               *)

Labels == {"loop", "read", "send", "spin", "ended"}

\* Whatever thread moves to a label, the labels keep their type.
LEMMA GotoType ==
  ASSUME NEW t, NEW label \in Labels, threads \in [D!Threads -> Labels], D!Goto(t, label)
  PROVE  threads' \in [D!Threads -> Labels]
BY DEF D!Goto

\* The counters, the channel and the threads' labels keep their types: no queue ever
\* exceeds its capacity, whatever the threads do.
THEOREM DownlinkTypeCorrect ==
  ASSUME D!DownlinkAssumption
  PROVE  D!Spec => []D!TypeOK
<1>1. D!Init => D!TypeOK
  <2> SUFFICES ASSUME D!Init PROVE D!TypeOK
    OBVIOUS
  <2>1. hp \in Seq({"telemetry", "mavlink"}) /\ Len(hp) = 0
    BY EmptySeq DEF D!Init
  <2>2. threads \in [D!Threads -> Labels]
    BY DEF D!Init, Labels
  <2>3. joined \in 0..Len(D!Joins)
    <3>1. Len(D!Joins) = 6
      BY DEF D!Joins
    <3>2. QED
      BY <3>1 DEF D!Init
  <2>4. running \in BOOLEAN /\ restarted \in BOOLEAN
    BY DEF D!Init
  <2>5. downlink \in 0..DownlinkCap /\ telem \in 0..TelemCap /\ Len(hp) <= HpCap
    BY <2>1, D!DownlinkAssumption DEF D!DownlinkAssumption, D!Init
  <2>6. QED
    BY <2>1, <2>2, <2>3, <2>4, <2>5, Zenon DEF D!TypeOK, Labels
<1>2. D!TypeOK /\ [D!Next]_D!vars => D!TypeOK'
  <2> SUFFICES ASSUME D!TypeOK, [D!Next]_D!vars PROVE D!TypeOK'
    OBVIOUS
  <2>0. threads \in [D!Threads -> Labels]
    BY DEF D!TypeOK, Labels
  <2>a. ASSUME NEW t, NEW label \in Labels, D!Goto(t, label)
        PROVE  threads' \in [D!Threads -> Labels]
    BY <2>0, <2>a, GotoType
  <2> USE D!DownlinkAssumption DEF D!DownlinkAssumption, D!TypeOK, Labels
  <2>1. CASE D!Interrupt
    BY <2>1 DEF D!Interrupt
  <2>2. CASE D!ReadFrame
    BY <2>2 DEF D!ReadFrame
  <2>3. CASE D!ReadTelemetry
    BY <2>3 DEF D!ReadTelemetry
  <2>4. ASSUME NEW t \in D!Threads, D!LoopEnds(t) PROVE D!TypeOK'
    <3>1. threads' \in [D!Threads -> Labels]
      BY <2>4, <2>a DEF D!LoopEnds
    <3> QED
      BY <2>4, <3>1 DEF D!LoopEnds
  <2>5. CASE D!VideoEnds
    <3>1. threads' \in [D!Threads -> Labels]
      BY <2>5, <2>a DEF D!VideoEnds
    <3> QED
      BY <2>5, <3>1 DEF D!VideoEnds
  <2>6. CASE D!VideoSpins
    <3>1. threads' \in [D!Threads -> Labels]
      BY <2>6, <2>a DEF D!VideoSpins
    <3> QED
      BY <2>6, <3>1 DEF D!VideoSpins
  <2>7. CASE D!TelemetryBuilds
    <3>1. threads' \in [D!Threads -> Labels]
      BY <2>7, <2>a DEF D!TelemetryBuilds
    <3> QED
      BY <2>7, <3>1 DEF D!TelemetryBuilds
  <2>8. CASE D!TelemetrySends
    <3>1. threads' \in [D!Threads -> Labels]
      BY <2>8, <2>a DEF D!TelemetrySends
    <3> QED
      BY <2>8, <3>1 DEF D!TelemetrySends, D!CanPut, D!Put
  <2>9. CASE D!ForwarderTakes
    <3>1. threads' \in [D!Threads -> Labels]
      BY <2>9, <2>a DEF D!ForwarderTakes
    <3> QED
      BY <2>9, <3>1 DEF D!ForwarderTakes
  <2>10. CASE D!ForwarderSends
    <3>1. threads' \in [D!Threads -> Labels]
      BY <2>10, <2>a DEF D!ForwarderSends
    <3> QED
      BY <2>10, <3>1 DEF D!ForwarderSends, D!CanPut, D!Put
  <2>11. CASE D!ForwarderDisconnected
    <3>1. threads' \in [D!Threads -> Labels]
      BY <2>11, <2>a DEF D!ForwarderDisconnected
    <3> QED
      BY <2>11, <3>1 DEF D!ForwarderDisconnected
  <2>12. CASE D!Join
    BY <2>12 DEF D!Join
  <2>13. CASE D!VideoRestarts
    BY <2>13 DEF D!VideoRestarts
  <2>14. CASE D!VideoReads
    <3>1. threads' \in [D!Threads -> Labels]
      BY <2>14, <2>a DEF D!VideoReads
    <3> QED
      BY <2>14, <3>1 DEF D!VideoReads
  <2>15. CASE D!VideoReturns
    <3>1. threads' \in [D!Threads -> Labels]
      BY <2>15, <2>a DEF D!VideoReturns
    <3> QED
      BY <2>15, <3>1 DEF D!VideoReturns
  <2>16. CASE UNCHANGED D!vars
    BY <2>16 DEF D!vars
  <2> QED
    BY <2>1, <2>2, <2>3, <2>4, <2>5, <2>6, <2>7, <2>8, <2>9, <2>10, <2>11, <2>12, <2>13,
       <2>14, <2>15, <2>16
    DEF D!Next, D!Video, D!Telemetry, D!Forwarder, D!Threads, D!Senders
<1> QED
  BY <1>1, <1>2, PTL DEF D!Spec

\* fc_reader ends only after running was cleared, so that an empty, disconnected
\* downlink does not end the forwarder before.
EndsInv ==
  /\ running /\ threads["mavlink_forwarder"] = "ended" => threads["video_tx"] = "ended"
  /\ running => threads["fc_reader"] # "ended"

\* A full high-priority channel does not end the forwarder: while the program runs, it
\* has ended only if video_tx has.
THEOREM BackpressureTheorem ==
  ASSUME D!DownlinkAssumption
  PROVE  D!Spec => []D!BackpressureEndsNobody
<1>1. D!Init => EndsInv
  BY DEF D!Init, EndsInv, D!Threads, D!Loops, D!Senders
<1>2. D!TypeOK /\ EndsInv /\ [D!Next]_D!vars => EndsInv'
  <2> SUFFICES ASSUME D!TypeOK, EndsInv, [D!Next]_D!vars PROVE EndsInv'
    OBVIOUS
  <2>0. threads \in [D!Threads -> {"loop", "read", "send", "spin", "ended"}]
    BY DEF D!TypeOK
  <2>1. /\ "mavlink_forwarder" \in D!Threads
        /\ "telemetry_sender" \in D!Threads
        /\ "video_tx" \in D!Threads
        /\ "fc_reader" \in D!Threads
    BY DEF D!Threads, D!Senders
  <2> USE <2>0, <2>1 DEF EndsInv
  <2>2. ASSUME NEW t \in D!Threads, D!LoopEnds(t) PROVE EndsInv'
    BY <2>2 DEF D!LoopEnds, D!Goto
  <2>3. CASE D!Interrupt \/ D!ReadFrame \/ D!ReadTelemetry \/ D!VideoRestarts \/ D!Join
    BY <2>3 DEF D!Interrupt, D!ReadFrame, D!ReadTelemetry, D!VideoRestarts, D!Join
  <2>4. CASE D!VideoEnds
    BY <2>4 DEF D!VideoEnds, D!Goto
  <2>5. CASE D!VideoReads \/ D!VideoReturns \/ D!VideoSpins
    BY <2>5 DEF D!VideoReads, D!VideoReturns, D!VideoSpins, D!Goto
  <2>6. CASE D!TelemetryBuilds
    BY <2>6 DEF D!TelemetryBuilds, D!Goto
  <2>7. CASE D!TelemetrySends
    BY <2>7 DEF D!TelemetrySends, D!Goto
  <2>8. CASE D!ForwarderTakes
    BY <2>8 DEF D!ForwarderTakes, D!Goto
  <2>9. CASE D!ForwarderSends
    \* Either there was room, or the channel was closed, by the end of video_tx.
    BY <2>9 DEF D!ForwarderSends, D!Goto, D!HpOpen
  <2>10. CASE D!ForwarderDisconnected
    \* fc_reader has ended, so running is cleared.
    BY <2>10 DEF D!ForwarderDisconnected, D!Goto
  <2>11. CASE UNCHANGED D!vars
    BY <2>11 DEF D!vars
  <2> QED
    BY <2>2, <2>3, <2>4, <2>5, <2>6, <2>7, <2>8, <2>9, <2>10, <2>11
    DEF D!Next, D!Video, D!Telemetry, D!Forwarder, D!Threads, D!Senders
<1>3. EndsInv => D!BackpressureEndsNobody
  BY DEF EndsInv, D!BackpressureEndsNobody
<1> QED
  BY <1>1, <1>2, <1>3, DownlinkTypeCorrect, PTL DEF D!Spec

-----------------------------------------------------------------------------
(* VideoTx in Downlink.                                                    *)

\* What Downlink says of its thread video_tx is what VideoTx does: it looks at running,
\* reads if the camera process runs, and comes back; the camera is restarted only where
\* it looks at running; and the thread ends once (running cleared, no camera to restart,
\* or a panic).  Nothing else of it concerns the other threads: VideoTx alone is a
\* behaviour of Downlink in which they stand still.
THEOREM ThreadTheorem == Spec => Alone!Spec
<1>1. Init => Alone!Init
  BY DEF Init, Alone!Init, Alone!Threads, Alone!Loops, Alone!Senders, D!Threads, D!Loops,
         D!Senders, Thread0, Label, Ended
<1>2. TypeOK /\ [Next]_vars => [Alone!Next]_Alone!vars
  <2> SUFFICES ASSUME TypeOK, [Next]_vars PROVE Alone!Next \/ UNCHANGED Alone!vars
    OBVIOUS
  <2>0. /\ "video_tx" \in D!Threads
        /\ Thread0["video_tx"] = Label
        /\ Label' = Label => Thread0' = Thread0
        /\ Thread0' = [Thread0 EXCEPT !["video_tx"] = Label']
    BY DEF D!Threads, Thread0
  <2>1. CASE CameraWrites \/ CameraDies \/ Cleanup \/ UNCHANGED vars
    <3>1. running' = running /\ life' = life /\ Label' = Label
      BY <2>1 DEF CameraWrites, CameraDies, Cleanup, vars, camera, Label
    <3>2. QED
      BY <2>0, <3>1 DEF Alone!vars
  <2>2. CASE Read \/ Inject \/ SendShort \/ BeginLong
    <3>1. running' = running /\ life' = life /\ Label' = Label
      BY <2>2 DEF Read, Inject, SendShort, BeginLong, Taken, camera, Label, Ended
    <3>2. QED
      BY <2>0, <3>1 DEF Alone!vars
  <2>3. CASE Interrupt
    <3>1. life' = life /\ Label' = Label
      BY <2>3 DEF Interrupt, camera, Label
    <3>2. Alone!Interrupt
      BY <2>0, <2>3, <3>1 DEF Interrupt, Alone!Interrupt
    <3>3. QED
      BY <3>2 DEF Alone!Next
  <2>4. CASE StillAlive
    <3>1. /\ running /\ running' = running /\ life' = life
          /\ Label = "loop" /\ Label' = "read"
      BY <2>4 DEF StillAlive, camera, Label, Ended
    <3>2. Alone!VideoReads
      BY <2>0, <3>1 DEF Alone!VideoReads, Alone!Goto
    <3>3. QED
      BY <3>2 DEF Alone!Next, Alone!Video
  <2>5. CASE ReadNothing \/ ReadFails \/ NoNal
    <3>1. running' = running /\ life' = life /\ Label = "read" /\ Label' = "loop"
      BY <2>5 DEF ReadNothing, ReadFails, NoNal, camera, Label, Ended
    <3>2. Alone!VideoReturns
      BY <2>0, <3>1 DEF Alone!VideoReturns, Alone!Goto
    <3>3. QED
      BY <3>2 DEF Alone!Next, Alone!Video
  <2>6. CASE Restart
    <3>1. running /\ running' = running /\ Label = "loop" /\ Label' = Label /\ life' = life + 1
      BY <2>6 DEF Restart, Label, Ended
    <3>2. (life > 1)' = TRUE
      BY <3>1, Constants DEF TypeOK
    <3>3. Alone!VideoRestarts
      BY <2>0, <3>1, <3>2 DEF Alone!VideoRestarts
    <3>4. QED
      BY <3>3 DEF Alone!Next, Alone!Video
  <2>7. CASE Stop \/ GiveUp \/ RestartFails \/ Overrun
    <3>1. /\ running' = running /\ life' = life
          /\ Label \in {"loop", "read"} /\ Label' = "ended"
      BY <2>7 DEF Stop, GiveUp, RestartFails, Overrun, Taken, camera, Label, Ended
    <3>2. Alone!VideoEnds
      BY <2>0, <3>1 DEF Alone!VideoEnds, Alone!Goto
    <3>3. QED
      BY <3>2 DEF Alone!Next, Alone!Video
  <2>8. QED
    BY <2>1, <2>2, <2>3, <2>4, <2>5, <2>6, <2>7
    DEF Next, World, Thread, Top, Reading, NalLoop
<1>3. QED
  BY <1>1, <1>2, TypeCorrect, PTL DEF Spec, Alone!Spec
===============================================================================
