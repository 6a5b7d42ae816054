----------------------------- MODULE GroundProofs -----------------------------
(***************************************************************************)
(* The threads of the ground station, for any capacities and any number of *)
(* NAL units: the channels keep their bounds, closing the window ends no   *)
(* thread, and frames are shown in order.                                  *)
(***************************************************************************)
EXTENDS Ground, SequenceTheorems, TLAPS

Labels == {"start", "loop", "reconnect", "decode", "ended"}
Nals   == 1..MaxNals

-----------------------------------------------------------------------------
(* Type correctness, in parts: the flags, the places, and each thread's.   *)

Flags == running \in BOOLEAN /\ window \in BOOLEAN

Rest ==
  /\ wire \in {"none", "video", "telemetry", "error"}
  /\ payloads \in 0..PayloadCap
  /\ telem \in 0..TelemCap
  /\ pc \in [Threads -> Labels]
  /\ gpu \in Sizes \cup {0}
  /\ size \in Sizes
  /\ shown \in 0..MaxNals
  /\ joined \in 0..Len(Joins)

Queues ==
  /\ emitted \in 0..MaxNals
  /\ todo \in Seq(Nals) /\ Len(todo) <= MaxNals
  /\ nals \in Seq(Nals) /\ Len(nals) <= NalCap
  /\ codec \in Seq(Nals)
  /\ frames \in Seq(Frame) /\ Len(frames) <= FrameCap
  /\ buffer \in Seq(Frame) /\ Len(buffer) <= BufferLen

LEMMA TypeParts == TypeOK <=> Flags /\ Rest /\ Queues
  BY Zenon DEF TypeOK, Flags, Rest, Queues, Labels, Nals

LEMMA Constants ==
  /\ PayloadCap \in Nat /\ PayloadCap > 0
  /\ TelemCap \in Nat /\ TelemCap > 0
  /\ NalCap \in Nat /\ NalCap > 0
  /\ FrameCap \in Nat /\ FrameCap > 0
  /\ BufferLen \in Nat /\ BufferLen > 0
  /\ MaxNals \in Nat
  BY GroundAssumption

LEMMA InitType == Init => TypeOK
<1> SUFFICES ASSUME Init PROVE TypeOK
  OBVIOUS
<1>1. Flags
  BY DEF Init, Flags
<1>2. Rest
  <2>1. pc \in [Threads -> Labels]
    BY DEF Init, Labels
  <2>2. 0 \in 0..Len(Joins)
    BY DEF Joins
  <2>3. QED
    BY <2>1, <2>2, Constants DEF Init, Rest, Sizes
<1>3. Queues
  BY Constants DEF Init, Queues
<1>4. QED
  BY <1>1, <1>2, <1>3, TypeParts

\* A thread that goes on stays where threads can be, and the others stay.
LEMMA GotoType ==
  ASSUME pc \in [Threads -> Labels], NEW t \in Threads, NEW label \in Labels, Goto(t, label)
  PROVE  /\ pc' \in [Threads -> Labels]
         /\ pc'[t] = label
         /\ \A u \in Threads \ {t} : pc'[u] = pc[u]
  BY DEF Goto

LEMMA FlagsKept == Flags /\ [Next]_vars => Flags'
<1> USE DEF Flags, ui, receiver, decoder, vars
<1>1. Flags /\ (Interrupt \/ Arrive \/ Dispatcher \/ Reconnected) => Flags'
  BY Zenon DEF Interrupt, Arrive, Dispatcher, RecvVideo, RecvTelemetry, RecvError,
               DispatcherEnds, Reconnected
<1>2. Flags /\ (Receiver \/ Telemetry) => Flags'
  BY Zenon DEF Receiver, ReceiverTakes, ReceiverSends, ReceiverEnds,
               Telemetry, TelemetryTakes, TelemetryEnds
<1>3. Flags /\ Decoder => Flags'
  BY Zenon DEF Decoder, DecoderStarts, DecoderTakes, process_decoded_frame, Decoded, DecoderEnds
<1>4. Flags /\ (Ui \/ Join) => Flags'
  BY Zenon DEF Ui, process_frames, CloseWindow, Join
<1>5. QED
  BY Zenon, <1>1, <1>2, <1>3, <1>4 DEF Next

\* What update has at hand: the newest frames of the buffer and the channel, in order.
LEMMA NewestProperties ==
  ASSUME NEW S, NEW s \in Seq(S)
  PROVE  /\ Newest(s) \in Seq(S)
         /\ Len(Newest(s)) <= BufferLen
         /\ \E d \in Nat : \A i \in 1..Len(Newest(s)) :
              i + d \in 1..Len(s) /\ Newest(s)[i] = s[i + d]
<1> DEFINE n == Len(s)
           k == IF n < BufferLen THEN n ELSE BufferLen
<1>1. n \in Nat /\ k \in Nat /\ k <= n /\ k <= BufferLen
  BY Constants
<1>2. \A i \in 1..n : s[i] \in S
  BY ElementOfSeq
<1>3. Newest(s) = SubSeq(s, n - k + 1, n)
  BY DEF Newest
<1> HIDE DEF n, k
<1>4. \A i \in (n - k + 1)..n : s[i] \in S
  BY <1>1, <1>2
<1>5. /\ SubSeq(s, n - k + 1, n) \in Seq(S)
      /\ Len(SubSeq(s, n - k + 1, n)) = k
      /\ \A i \in 1..k : SubSeq(s, n - k + 1, n)[i] = s[i + (n - k)]
  <2> DEFINE m == n - k + 1
  <2>1. m \in Int /\ n \in Int
    BY <1>1
  <2>2. /\ SubSeq(s, m, n) \in Seq(S)
        /\ Len(SubSeq(s, m, n)) = IF m <= n THEN n - m + 1 ELSE 0
        /\ \A i \in 1 .. n - m + 1 : SubSeq(s, m, n)[i] = s[m + i - 1]
    <3> HIDE DEF m
    <3>1. \A i \in m..n : s[i] \in S
      BY <1>4 DEF m
    <3>2. QED
      BY <2>1, <3>1, SubSeqProperties
  <2>3. n - m + 1 = k /\ (m <= n <=> k > 0) /\ \A i \in Int : m + i - 1 = i + (n - k)
    BY <1>1
  <2>4. QED
    BY <1>1, <2>2, <2>3
<1>6. n - k \in Nat /\ \A i \in 1..k : i + (n - k) \in 1..n
  BY <1>1
<1>7. QED
  BY <1>1, <1>3, <1>5, <1>6 DEF n

LEMMA FilledType ==
  ASSUME Queues
  PROVE  Filled \in Seq(Frame) /\ Len(Filled) <= BufferLen
<1>1. buffer \o frames \in Seq(Frame)
  BY ConcatProperties DEF Queues
<1>2. QED
  BY <1>1, NewestProperties DEF Filled

LEMMA RestKept == Rest /\ Queues /\ [Next]_vars => Rest'
<1> SUFFICES ASSUME Rest, Queues, [Next]_vars PROVE Rest'
  OBVIOUS
<1> USE Constants DEF Rest, ui, receiver, decoder
<1>0. /\ "rx_dispatcher" \in Threads /\ "video_receiver" \in Threads
      /\ "video_decoder" \in Threads /\ "telemetry" \in Threads
  BY DEF Threads
<1>1. CASE Interrupt \/ Arrive
  BY <1>1 DEF Interrupt, Arrive
<1>2. CASE RecvVideo \/ RecvTelemetry
  BY <1>2 DEF RecvVideo, RecvTelemetry
<1>3. CASE RecvError \/ DispatcherEnds \/ Reconnected
  <2>1. pc' \in [Threads -> Labels]
    BY <1>0, <1>3, GotoType DEF RecvError, DispatcherEnds, Reconnected, Labels
  <2>2. QED
    BY <1>3, <2>1 DEF RecvError, DispatcherEnds, Reconnected
<1>4. CASE ReceiverTakes \/ ReceiverSends \/ TelemetryTakes
  BY <1>4 DEF ReceiverTakes, ReceiverSends, TelemetryTakes
<1>5. CASE ReceiverEnds \/ TelemetryEnds
  <2>1. pc' \in [Threads -> Labels]
    BY <1>0, <1>5, GotoType DEF ReceiverEnds, TelemetryEnds, Labels
  <2>2. QED
    BY <1>5, <2>1 DEF ReceiverEnds, TelemetryEnds
<1>6. CASE DecoderStarts \/ DecoderTakes \/ Decoded \/ DecoderEnds
  <2>1. pc' \in [Threads -> Labels]
    BY <1>0, <1>6, GotoType DEF DecoderStarts, DecoderTakes, Decoded, DecoderEnds, Labels
  <2>2. QED
    BY <1>6, <2>1 DEF DecoderStarts, DecoderTakes, Decoded, DecoderEnds
<1>7. CASE process_decoded_frame
  BY <1>7 DEF process_decoded_frame
<1>8. CASE process_frames
  <2>1. Filled # <<>> => Head(Filled) \in Frame
    BY FilledType, HeadTailProperties
  <2>2. shown' \in 0..MaxNals /\ size' \in Sizes /\ gpu' \in Sizes \cup {0}
    BY <1>8, <2>1 DEF process_frames, ShowNext, Resize, ShowNothing, ensure_gpu_resources, Frame, Sizes
  <2>3. QED
    BY <1>8, <2>2 DEF process_frames
<1>9. CASE CloseWindow
  BY <1>9 DEF CloseWindow
<1>10. CASE Join
  BY <1>10 DEF Join, Joins
<1>11. CASE UNCHANGED vars
  BY <1>11 DEF vars
<1>12. QED
  BY <1>1, <1>2, <1>3, <1>4, <1>5, <1>6, <1>7, <1>8, <1>9, <1>10, <1>11
     DEF Next, Dispatcher, Receiver, Telemetry, Decoder, Ui

\* The NAL units of a packet are numbered on from the last one.
LEMMA NewNals ==
  ASSUME Queues, NEW k \in Emits
  PROVE  /\ k \in 0..MaxNals /\ emitted + k \in 0..MaxNals
         /\ [i \in 1..k |-> emitted + i] \in Seq(Nals)
         /\ Len([i \in 1..k |-> emitted + i]) = k
<1>1. k \in Nat /\ k <= MaxNals /\ emitted + k <= MaxNals /\ emitted \in Nat
  BY Constants DEF Emits, Queues
<1>2. \A i \in 1..k : emitted + i \in Nals
  BY <1>1, Constants DEF Nals
<1>3. [i \in 1..k |-> emitted + i] \in [1..k -> Nals]
  BY <1>2
<1>4. [i \in 1..k |-> emitted + i] \in Seq(Nals)
  BY <1>1, <1>3, SeqDef
<1>5. QED
  BY <1>1, <1>4, Constants

LEMMA QueuesKept == Queues /\ [Next]_vars => Queues'
<1> SUFFICES ASSUME Queues, [Next]_vars PROVE Queues'
  OBVIOUS
<1> USE Constants DEF ui, receiver, decoder
<1>1. CASE ReceiverTakes
  <2>1. PICK k \in Emits : todo' = [i \in 1..k |-> emitted + i] /\ emitted' = emitted + k
    BY <1>1 DEF ReceiverTakes
  <2>2. emitted' \in 0..MaxNals /\ todo' \in Seq(Nals) /\ Len(todo') <= MaxNals
    BY <2>1, NewNals
  <2>3. QED
    BY <1>1, <2>2 DEF ReceiverTakes, Queues
<1>2. CASE ReceiverSends
  <2>1. Head(todo) \in Nals /\ todo' \in Seq(Nals) /\ Len(todo') <= MaxNals
    BY <1>2, HeadTailProperties DEF ReceiverSends, Queues
  <2>2. nals' \in Seq(Nals) /\ Len(nals') <= NalCap
    <3>1. CASE UNCHANGED nals
      BY <3>1 DEF Queues
    <3>2. CASE Len(nals) < NalCap /\ nals' = Append(nals, Head(todo))
      BY <2>1, <3>2, AppendProperties DEF Queues
    <3>3. QED
      BY <1>2, <3>1, <3>2 DEF ReceiverSends
  <2>3. QED
    BY <1>2, <2>1, <2>2 DEF ReceiverSends, Queues
<1>3. CASE DecoderStarts
  <2>1. nals' = nals \/ nals' = <<>>
    BY <1>3 DEF DecoderStarts
  <2>2. nals' \in Seq(Nals) /\ Len(nals') <= NalCap
    <3>1. CASE nals' = nals
      BY <3>1 DEF Queues
    <3>2. CASE nals' = <<>>
      <4>1. <<>> \in Seq(Nals) /\ Len(<<>>) = 0
        OBVIOUS
      <4>2. QED
        BY <3>2, <4>1
    <3>3. QED
      BY <2>1, <3>1, <3>2
  <2>3. QED
    BY <1>3, <2>2 DEF DecoderStarts, Queues
<1>4. CASE DecoderTakes
  <2>1. Head(nals) \in Nals /\ nals' \in Seq(Nals) /\ Len(nals') <= NalCap
    BY <1>4, HeadTailProperties DEF DecoderTakes, Queues
  <2>2. codec' \in Seq(Nals)
    BY <1>4, <2>1, AppendProperties DEF DecoderTakes, Queues
  <2>3. QED
    BY <1>4, <2>1, <2>2 DEF DecoderTakes, Queues
<1>5. CASE process_decoded_frame
  <2>1. Head(codec) \in Nals /\ codec' \in Seq(Nals)
    BY <1>5, HeadTailProperties DEF process_decoded_frame, Queues
  <2>2. frames' \in Seq(Frame) /\ Len(frames') <= FrameCap
    <3>1. CASE UNCHANGED frames
      BY <3>1 DEF Queues
    <3>2. ASSUME Len(frames) < FrameCap, NEW z \in Sizes,
                 frames' = Append(frames, [n |-> Head(codec), size |-> z])
          PROVE  frames' \in Seq(Frame) /\ Len(frames') <= FrameCap
      <4>1. [n |-> Head(codec), size |-> z] \in Frame
        BY <2>1 DEF Frame, Nals
      <4>2. QED
        BY <3>2, <4>1, AppendProperties DEF Queues
    <3>3. QED
      BY <1>5, <3>1, <3>2 DEF process_decoded_frame
  <2>3. QED
    BY <1>5, <2>1, <2>2 DEF process_decoded_frame, Queues
<1>6. CASE process_frames
  <2>1. buffer' \in Seq(Frame) /\ Len(buffer') <= BufferLen
    <3>1. Filled \in Seq(Frame) /\ Len(Filled) <= BufferLen
      BY FilledType
    <3>2. CASE buffer' = Filled
      BY <3>1, <3>2
    <3>3. CASE Filled # <<>> /\ buffer' = Tail(Filled)
      BY <3>1, <3>3, HeadTailProperties
    <3>4. QED
      BY <1>6, <3>2, <3>3 DEF process_frames, ShowNext, Resize, ShowNothing
  <2>2. frames' \in Seq(Frame) /\ Len(frames') <= FrameCap
    BY <1>6 DEF process_frames
  <2>3. QED
    BY <1>6, <2>1, <2>2 DEF process_frames, Queues
<1>7. CASE UNCHANGED <<emitted, todo, nals, codec, frames, buffer>>
  BY <1>7 DEF Queues
<1>8. QED
  BY <1>1, <1>2, <1>3, <1>4, <1>5, <1>6, <1>7
     DEF Next, Interrupt, Arrive, Dispatcher, RecvVideo, RecvTelemetry, RecvError,
         DispatcherEnds, Reconnected, Receiver, ReceiverEnds, Telemetry, TelemetryTakes,
         TelemetryEnds, Decoder, Decoded, DecoderEnds, Ui, CloseWindow, Join, vars

\* Every variable keeps its type: no channel exceeds its capacity, and the UI never
\* keeps more frames than it has room for.
THEOREM TypeCorrect == Spec => []TypeOK
<1>1. TypeOK /\ [Next]_vars => TypeOK'
  <2>1. TypeOK' <=> Flags' /\ Rest' /\ Queues'
    BY Zenon DEF TypeOK, Flags, Rest, Queues, Labels, Nals, Frame, Sizes
  <2>2. QED
    BY <2>1, TypeParts, FlagsKept, RestKept, QueuesKept
<1>2. QED
  BY <1>1, InitType, PTL DEF Spec

-----------------------------------------------------------------------------
(* The end.  While running is set no thread that main joins first can end.  *)

\* Closing the window ends nothing: until Ctrl-C main gets no further than its first
\* join, and what reads the socket keeps working.
THEOREM WindowAloneTheorem == Spec => []WindowAloneEndsNothing
<1>1. Init => WindowAloneEndsNothing
  BY DEF Init, WindowAloneEndsNothing, Ended, Threads
<1>2. TypeOK /\ WindowAloneEndsNothing /\ [Next]_vars => WindowAloneEndsNothing'
  <2> SUFFICES ASSUME Rest, WindowAloneEndsNothing, [Next]_vars, running'
               PROVE  (joined = 0 /\ ~Ended("rx_dispatcher") /\ ~Ended("video_receiver"))'
    BY TypeParts DEF WindowAloneEndsNothing
  <2> USE DEF ui, receiver, decoder, Ended, Rest
  <2>0. /\ "rx_dispatcher" \in Threads /\ "video_receiver" \in Threads
        /\ "video_decoder" \in Threads /\ "telemetry" \in Threads
    BY DEF Threads
  <2>1. ~Interrupt
    BY DEF Interrupt
  <2>2. running = running'
    BY <2>1 DEF Next, Arrive, Dispatcher, RecvVideo, RecvTelemetry, RecvError, DispatcherEnds,
         Reconnected, Receiver, ReceiverTakes, ReceiverSends, ReceiverEnds, Telemetry,
         TelemetryTakes, TelemetryEnds, Decoder, DecoderStarts, DecoderTakes,
         process_decoded_frame, Decoded, DecoderEnds, Ui, process_frames, CloseWindow, Join, vars
  <2>3. joined = 0 /\ ~Ended("rx_dispatcher") /\ ~Ended("video_receiver")
    BY <2>2 DEF WindowAloneEndsNothing
  <2>4. CASE RecvError \/ Reconnected
    BY <2>0, <2>3, <2>4, GotoType DEF RecvError, Reconnected, Labels
  <2>5. CASE DispatcherEnds \/ ReceiverEnds
    BY <2>2, <2>3, <2>5 DEF DispatcherEnds, ReceiverEnds, PayloadsOpen
  <2>6. CASE TelemetryEnds
    BY <2>0, <2>3, <2>6, GotoType DEF TelemetryEnds, Labels
  <2>7. CASE DecoderStarts \/ DecoderTakes \/ Decoded \/ DecoderEnds
    BY <2>0, <2>3, <2>7, GotoType DEF DecoderStarts, DecoderTakes, Decoded, DecoderEnds, Labels
  <2>8. CASE Join
    <3>1. Joins[joined + 1] = "rx_dispatcher" /\ "rx_dispatcher" \notin Loops
      BY <2>3 DEF Joins, Loops
    <3>2. QED
      BY <2>3, <2>8, <3>1 DEF Join
  <2>9. CASE UNCHANGED <<pc, joined>>
    BY <2>3, <2>9
  <2>10. QED
    BY <2>1, <2>4, <2>5, <2>6, <2>7, <2>8, <2>9
       DEF Next, Arrive, Dispatcher, RecvVideo, RecvTelemetry, Receiver, ReceiverTakes,
           ReceiverSends, Telemetry, TelemetryTakes, Decoder, process_decoded_frame, Ui,
           process_frames, CloseWindow, vars
<1>3. QED
  BY <1>1, <1>2, TypeCorrect, PTL DEF Spec
-----------------------------------------------------------------------------
(* Order.  From the screen back to VideoReceiver stand six levels, and every *)
(* NAL unit of a level comes before those of the levels behind it.           *)

Of(q)        == {q[i] : i \in DOMAIN q}
OfFrames(q)  == {q[i].n : i \in DOMAIN q}
Ascend(q)    == \A i \in DOMAIN q, j \in DOMAIN q : i < j => q[i] < q[j]
AscendFrames(q) == \A i \in DOMAIN q, j \in DOMAIN q : i < j => q[i].n < q[j].n

Chain(A, B, C, D, E, F) ==
  /\ \A x \in A, y \in B \cup C \cup D \cup E \cup F : x < y
  /\ \A x \in B, y \in C \cup D \cup E \cup F : x < y
  /\ \A x \in C, y \in D \cup E \cup F : x < y
  /\ \A x \in D, y \in E \cup F : x < y
  /\ \A x \in E, y \in F : x < y

Levels == Chain({shown}, OfFrames(buffer), OfFrames(frames), Of(codec), Of(nals), Of(todo))

Emitted ==
  \A x \in {shown} \cup OfFrames(buffer) \cup OfFrames(frames)
            \cup Of(codec) \cup Of(nals) \cup Of(todo) : x <= emitted

Sorted ==
  /\ AscendFrames(buffer) /\ AscendFrames(frames)
  /\ Ascend(codec) /\ Ascend(nals) /\ Ascend(todo)

OrderInv == Levels /\ Emitted /\ Sorted

\* The first of a queue leaves it.
LEMMA TakeFirst ==
  ASSUME NEW q \in Seq(Nals), q # <<>>, Ascend(q)
  PROVE  /\ Head(q) \in Of(q) /\ Of(Tail(q)) \subseteq Of(q) /\ Ascend(Tail(q))
         /\ \A y \in Of(Tail(q)) : Head(q) < y
<1>1. 1 \in DOMAIN q /\ Head(q) = q[1]
  OBVIOUS
<1>2. \A j \in DOMAIN Tail(q) : j + 1 \in DOMAIN q /\ Tail(q)[j] = q[j + 1] /\ j >= 1 /\ j \in Int
  BY HeadTailProperties
<1>3. QED
  BY <1>1, <1>2 DEF Of, Ascend

LEMMA TakeFirstFrame ==
  ASSUME NEW q \in Seq(Frame), q # <<>>, AscendFrames(q)
  PROVE  /\ Head(q).n \in OfFrames(q) /\ OfFrames(Tail(q)) \subseteq OfFrames(q)
         /\ AscendFrames(Tail(q))
         /\ \A y \in OfFrames(Tail(q)) : Head(q).n < y
<1>1. 1 \in DOMAIN q /\ Head(q) = q[1]
  OBVIOUS
<1>2. \A j \in DOMAIN Tail(q) : j + 1 \in DOMAIN q /\ Tail(q)[j] = q[j + 1] /\ j >= 1 /\ j \in Int
  BY HeadTailProperties
<1>3. QED
  BY <1>1, <1>2 DEF OfFrames, AscendFrames

\* One that comes after all of a queue joins it.
LEMMA JoinLast ==
  ASSUME NEW q \in Seq(Nals), NEW x \in Nals, Ascend(q), \A y \in Of(q) : y < x
  PROVE  Of(Append(q, x)) = Of(q) \cup {x} /\ Ascend(Append(q, x))
<1>1. /\ DOMAIN Append(q, x) = 1..(Len(q) + 1) /\ DOMAIN q = 1..Len(q) /\ Len(q) \in Nat
      /\ \A i \in DOMAIN q : Append(q, x)[i] = q[i]
      /\ Append(q, x)[Len(q) + 1] = x
  BY AppendProperties
<1>2. QED
  BY <1>1 DEF Of, Ascend

LEMMA JoinLastFrame ==
  ASSUME NEW q \in Seq(Frame), NEW f \in Frame, AscendFrames(q), \A y \in OfFrames(q) : y < f.n
  PROVE  OfFrames(Append(q, f)) = OfFrames(q) \cup {f.n} /\ AscendFrames(Append(q, f))
<1>1. /\ DOMAIN Append(q, f) = 1..(Len(q) + 1) /\ DOMAIN q = 1..Len(q) /\ Len(q) \in Nat
      /\ \A i \in DOMAIN q : Append(q, f)[i] = q[i]
      /\ Append(q, f)[Len(q) + 1] = f
  BY AppendProperties
<1>2. QED
  BY <1>1 DEF OfFrames, AscendFrames

\* The frames at hand are those of the buffer and of the channel, in order.
LEMMA FilledOrder ==
  ASSUME Queues, Levels, Sorted
  PROVE  OfFrames(Filled) \subseteq OfFrames(buffer) \cup OfFrames(frames) /\ AscendFrames(Filled)
<1> DEFINE all == buffer \o frames
<1>1. /\ all \in Seq(Frame) /\ Len(buffer) \in Nat /\ Len(frames) \in Nat
      /\ DOMAIN buffer = 1..Len(buffer) /\ DOMAIN frames = 1..Len(frames)
      /\ DOMAIN all = 1..(Len(buffer) + Len(frames))
      /\ Len(all) = Len(buffer) + Len(frames)
      /\ \A i \in DOMAIN all : all[i] = IF i <= Len(buffer) THEN buffer[i] ELSE frames[i - Len(buffer)]
  BY ConcatProperties DEF Queues
<1> HIDE DEF all
<1>2. \A i \in DOMAIN all :
        \/ i \in DOMAIN buffer /\ all[i] = buffer[i]
        \/ i > Len(buffer) /\ i - Len(buffer) \in DOMAIN frames /\ all[i] = frames[i - Len(buffer)]
  BY <1>1
<1>3. OfFrames(all) \subseteq OfFrames(buffer) \cup OfFrames(frames)
  BY <1>2 DEF OfFrames
<1>4. \A x \in OfFrames(buffer), y \in OfFrames(frames) : x < y
  BY DEF Levels, Chain
<1>5. AscendFrames(all)
  <2> SUFFICES ASSUME NEW i \in DOMAIN all, NEW j \in DOMAIN all, i < j PROVE all[i].n < all[j].n
    BY DEF AscendFrames
  <2>1. CASE i <= Len(buffer) /\ j <= Len(buffer)
    BY <1>1, <2>1 DEF Sorted, AscendFrames
  <2>2. CASE i <= Len(buffer) /\ j > Len(buffer)
    BY <1>1, <1>2, <1>4, <2>2 DEF OfFrames
  <2>3. CASE i > Len(buffer) /\ j > Len(buffer)
    <3>1. i - Len(buffer) \in DOMAIN frames /\ j - Len(buffer) \in DOMAIN frames
          /\ i - Len(buffer) < j - Len(buffer)
      BY <1>1, <2>3
    <3>2. all[i] = frames[i - Len(buffer)] /\ all[j] = frames[j - Len(buffer)]
      BY <1>1, <2>3
    <3>3. QED
      BY <3>1, <3>2 DEF Sorted, AscendFrames
  <2>4. QED
    BY <1>1, <2>1, <2>2, <2>3
<1>6. /\ Filled \in Seq(Frame)
      /\ \E d \in Nat : \A i \in 1..Len(Filled) : i + d \in 1..Len(all) /\ Filled[i] = all[i + d]
  BY <1>1, NewestProperties DEF Filled, all
<1>7. PICK d \in Nat : \A i \in DOMAIN Filled : i + d \in DOMAIN all /\ Filled[i] = all[i + d]
  <2>1. DOMAIN Filled = 1..Len(Filled) /\ DOMAIN all = 1..Len(all)
    BY <1>1, <1>6
  <2>2. QED
    BY <1>6, <2>1, Zenon
<1>8. OfFrames(Filled) \subseteq OfFrames(all)
  BY <1>7 DEF OfFrames
<1>9. AscendFrames(Filled)
  <2>1. \A i \in DOMAIN Filled : i \in Int
    BY <1>6
  <2>2. QED
    BY <1>5, <1>7, <2>1 DEF AscendFrames
<1>10. QED
  BY <1>3, <1>8, <1>9

LEMMA OrderKept == Rest /\ Queues /\ OrderInv /\ [Next]_vars => OrderInv'
<1> SUFFICES ASSUME Rest, Queues, OrderInv, [Next]_vars PROVE OrderInv'
  OBVIOUS
<1> USE DEF ui, receiver, decoder
<1>0. /\ emitted \in Nat /\ shown \in Nat
      /\ Of(codec) \subseteq Nals /\ Of(nals) \subseteq Nals /\ Of(todo) \subseteq Nals
      /\ OfFrames(buffer) \subseteq Nals /\ OfFrames(frames) \subseteq Nals
      /\ Nals \subseteq Int
  <2>1. \A q \in Seq(Frame) : OfFrames(q) \subseteq Nals
    <3>1. \A f \in Frame : f.n \in Nals
      BY DEF Frame, Nals
    <3>2. QED
      BY <3>1, ElementOfSeq DEF OfFrames
  <2>2. \A q \in Seq(Nals) : Of(q) \subseteq Nals
    BY ElementOfSeq DEF Of
  <2>3. QED
    BY <2>1, <2>2, Constants DEF Rest, Queues, Nals
<1>1. CASE ReceiverTakes
  <2>1. PICK k \in Emits : todo' = [i \in 1..k |-> emitted + i] /\ emitted' = emitted + k
    BY <1>1 DEF ReceiverTakes
  <2>2. k \in Nat
    BY <2>1, NewNals
  <2>3. Ascend(todo') /\ \A y \in Of(todo') : y \in Int /\ emitted < y /\ y <= emitted'
    <3>1. DOMAIN todo' = 1..k /\ \A i \in 1..k : todo'[i] = emitted + i
      BY <2>1
    <3>2. QED
      BY <1>0, <2>1, <2>2, <3>1 DEF Ascend, Of
  <2>4. UNCHANGED <<shown, buffer, frames, codec, nals>>
    BY <1>1 DEF ReceiverTakes
  <2> DEFINE before == {shown} \cup OfFrames(buffer) \cup OfFrames(frames) \cup Of(codec) \cup Of(nals)
  <2>5. \A x \in before : x \in Int /\ x <= emitted
    BY <1>0 DEF OrderInv, Emitted
  <2>6. emitted \in Int /\ emitted' \in Int /\ emitted <= emitted'
    BY <1>0, <2>1, <2>2
  <2>7. \A x \in before : x <= emitted' /\ \A y \in Of(todo') : x < y
    <3> HIDE DEF before
    <3>1. QED
      BY <2>3, <2>5, <2>6
  <2>8. Emitted'
    BY <2>3, <2>4, <2>7 DEF Emitted
  <2>9. Levels'
    BY <2>4, <2>7 DEF OrderInv, Levels, Chain
  <2>10. QED
    BY <2>3, <2>4, <2>8, <2>9 DEF OrderInv, Sorted
<1>2. CASE ReceiverSends
  <2>1. /\ UNCHANGED <<shown, buffer, frames, codec, emitted>>
        /\ todo # <<>> /\ todo' = Tail(todo)
        /\ nals' = nals \/ nals' = Append(nals, Head(todo))
    BY <1>2 DEF ReceiverSends
  <2>2. /\ Head(todo) \in Of(todo) /\ Of(todo') \subseteq Of(todo) /\ Ascend(todo')
        /\ \A y \in Of(todo') : Head(todo) < y
    BY <2>1, TakeFirst DEF Queues, OrderInv, Sorted
  <2>3. Of(nals') \subseteq Of(nals) \cup {Head(todo)} /\ Ascend(nals')
    <3>1. CASE nals' = nals
      BY <3>1 DEF OrderInv, Sorted
    <3>2. CASE nals' = Append(nals, Head(todo))
      <4>1. \A y \in Of(nals) : y < Head(todo)
        BY <2>2 DEF OrderInv, Levels, Chain
      <4>2. Head(todo) \in Nals
        BY <1>0, <2>2
      <4>3. QED
        BY <3>2, <4>1, <4>2, JoinLast DEF Queues, OrderInv, Sorted
    <3>3. QED
      BY <2>1, <3>1, <3>2
  <2>4. Emitted'
    BY <2>1, <2>2, <2>3 DEF OrderInv, Emitted
  <2>5. Levels'
    BY <2>1, <2>2, <2>3 DEF OrderInv, Levels, Chain
  <2>6. QED
    BY <2>1, <2>2, <2>3, <2>4, <2>5 DEF OrderInv, Sorted
<1>3. CASE DecoderStarts
  <2>1. UNCHANGED <<shown, buffer, frames, codec, emitted, todo>> /\ (nals' = nals \/ nals' = <<>>)
    BY <1>3 DEF DecoderStarts
  <2>2. Of(<<>>) = {} /\ Ascend(<<>>)
    BY DEF Of, Ascend
  <2>3. Of(nals') \subseteq Of(nals) /\ Ascend(nals')
    BY <2>1, <2>2 DEF OrderInv, Sorted
  <2>4. QED
    BY <2>1, <2>3 DEF OrderInv, Levels, Chain, Emitted, Sorted
<1>4. CASE DecoderTakes
  <2>1. /\ UNCHANGED <<shown, buffer, frames, todo, emitted>>
        /\ nals # <<>> /\ nals' = Tail(nals) /\ codec' = Append(codec, Head(nals))
    BY <1>4 DEF DecoderTakes
  <2>2. /\ Head(nals) \in Of(nals) /\ Of(nals') \subseteq Of(nals) /\ Ascend(nals')
        /\ \A y \in Of(nals') : Head(nals) < y
    BY <2>1, TakeFirst DEF Queues, OrderInv, Sorted
  <2>3. Of(codec') \subseteq Of(codec) \cup {Head(nals)} /\ Ascend(codec')
    <3>1. \A y \in Of(codec) : y < Head(nals)
      BY <2>2 DEF OrderInv, Levels, Chain
    <3>2. Head(nals) \in Nals
      BY <1>0, <2>2
    <3>3. QED
      BY <2>1, <3>1, <3>2, JoinLast DEF Queues, OrderInv, Sorted
  <2>4. Emitted'
    BY <2>1, <2>2, <2>3 DEF OrderInv, Emitted
  <2>5. Levels'
    BY <2>1, <2>2, <2>3 DEF OrderInv, Levels, Chain
  <2>6. QED
    BY <2>1, <2>2, <2>3, <2>4, <2>5 DEF OrderInv, Sorted
<1>5. CASE process_decoded_frame
  <2>1. /\ UNCHANGED <<shown, buffer, nals, todo, emitted>>
        /\ codec # <<>> /\ codec' = Tail(codec)
    BY <1>5 DEF process_decoded_frame
  <2>2. /\ Head(codec) \in Of(codec) /\ Of(codec') \subseteq Of(codec) /\ Ascend(codec')
        /\ \A y \in Of(codec') : Head(codec) < y
    BY <2>1, TakeFirst DEF Queues, OrderInv, Sorted
  <2>3. OfFrames(frames') \subseteq OfFrames(frames) \cup {Head(codec)} /\ AscendFrames(frames')
    <3>1. CASE frames' = frames
      BY <3>1 DEF OrderInv, Sorted
    <3>2. ASSUME NEW z \in Sizes, frames' = Append(frames, [n |-> Head(codec), size |-> z])
          PROVE  OfFrames(frames') \subseteq OfFrames(frames) \cup {Head(codec)} /\ AscendFrames(frames')
      <4> DEFINE f == [n |-> Head(codec), size |-> z]
      <4>1. f.n = Head(codec) /\ f \in Frame
        BY <1>0, <2>2 DEF Frame, Nals
      <4>2. \A y \in OfFrames(frames) : y < f.n
        BY <2>2, <4>1 DEF OrderInv, Levels, Chain
      <4> HIDE DEF f
      <4>3. OfFrames(Append(frames, f)) = OfFrames(frames) \cup {f.n} /\ AscendFrames(Append(frames, f))
        BY <4>1, <4>2, JoinLastFrame DEF Queues, OrderInv, Sorted
      <4>4. QED
        BY <3>2, <4>1, <4>3 DEF f
    <3>3. QED
      BY <1>5, <3>1, <3>2 DEF process_decoded_frame
  <2>4. Emitted'
    BY <2>1, <2>2, <2>3 DEF OrderInv, Emitted
  <2>5. Levels'
    BY <2>1, <2>2, <2>3 DEF OrderInv, Levels, Chain
  <2>6. QED
    BY <2>1, <2>2, <2>3, <2>4, <2>5 DEF OrderInv, Sorted
<1>6. CASE process_frames
  <2>1. UNCHANGED <<codec, nals, todo, emitted>> /\ frames' = <<>>
    BY <1>6 DEF process_frames
  <2>2. OfFrames(frames') = {} /\ AscendFrames(frames')
    BY <2>1 DEF OfFrames, AscendFrames
  <2>3. /\ OfFrames(Filled) \subseteq OfFrames(buffer) \cup OfFrames(frames)
        /\ AscendFrames(Filled) /\ Filled \in Seq(Frame)
    BY FilledOrder, FilledType DEF OrderInv
  <2>4. CASE shown' = shown /\ buffer' = Filled
    BY <2>1, <2>2, <2>3, <2>4 DEF OrderInv, Levels, Chain, Emitted, Sorted
  <2>5. CASE Filled # <<>> /\ shown' = Head(Filled).n /\ buffer' = Tail(Filled)
    <3>1. /\ Head(Filled).n \in OfFrames(Filled) /\ OfFrames(buffer') \subseteq OfFrames(Filled)
          /\ AscendFrames(buffer') /\ \A y \in OfFrames(buffer') : shown' < y
      BY <2>3, <2>5, TakeFirstFrame
    <3>2. shown' \in OfFrames(buffer) \cup OfFrames(frames)
          /\ OfFrames(buffer') \subseteq OfFrames(buffer) \cup OfFrames(frames)
      BY <2>3, <2>5, <3>1
    <3>3. Levels'
      BY <2>1, <2>2, <3>1, <3>2 DEF OrderInv, Levels, Chain
    <3>4. Emitted'
      BY <2>1, <2>2, <3>2 DEF OrderInv, Emitted
    <3>5. QED
      BY <2>1, <2>2, <3>1, <3>3, <3>4 DEF OrderInv, Sorted
  <2>6. QED
    BY <1>6, <2>4, <2>5 DEF process_frames, ShowNext, Resize, ShowNothing
<1>7. CASE UNCHANGED <<shown, buffer, frames, codec, nals, todo, emitted>>
  BY <1>7 DEF OrderInv, Levels, Chain, Emitted, Sorted
<1>8. QED
  BY <1>1, <1>2, <1>3, <1>4, <1>5, <1>6, <1>7
     DEF Next, Interrupt, Arrive, Dispatcher, RecvVideo, RecvTelemetry, RecvError,
         DispatcherEnds, Reconnected, Receiver, ReceiverEnds, Telemetry, TelemetryTakes,
         TelemetryEnds, Decoder, Decoded, DecoderEnds, Ui, CloseWindow, Join, vars

\* Frames are shown in the order of their NAL units and none twice, for all capacities.
THEOREM OrderTheorem == Spec => ShownInOrder
<1>1. Init => OrderInv
  BY Constants DEF Init, OrderInv, Levels, Chain, Emitted, Sorted, Of, OfFrames, Ascend, AscendFrames
<1>2. TypeOK /\ OrderInv /\ [Next]_vars => OrderInv'
  BY OrderKept, TypeParts
<1>3. TypeOK /\ OrderInv /\ [Next]_vars => [process_frames /\ ShowNext => shown' > shown]_vars
  <2> SUFFICES ASSUME Rest, Queues, OrderInv, ShowNext PROVE shown' > shown
    BY TypeParts
  <2>1. Filled # <<>> /\ Filled \in Seq(Frame) /\ shown' = Head(Filled).n
    BY FilledType DEF ShowNext
  <2>2. shown' \in OfFrames(Filled)
    BY <2>1, FilledOrder, TakeFirstFrame DEF OrderInv
  <2>3. shown < shown'
    BY <2>2, FilledOrder DEF OrderInv, Levels, Chain
  <2>4. shown \in Int /\ shown' \in Int
    <3>1. Head(Filled) \in Frame
      BY <2>1, HeadTailProperties
    <3>2. QED
      BY <2>1, <3>1, Constants DEF Rest, Frame
  <2>5. QED
    BY <2>3, <2>4
<1>4. QED
  BY <1>1, <1>2, <1>3, TypeCorrect, PTL DEF Spec, ShownInOrder
===============================================================================
