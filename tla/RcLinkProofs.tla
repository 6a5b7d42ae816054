----------------------------- MODULE RcLinkProofs -----------------------------
(***************************************************************************)
(* The pilot's sticks on their way to the flight controller, for any set   *)
(* of controls, joystick values, queue capacities and number of moves: the *)
(* values stay in range, failsafe is never ended by a packet left in the   *)
(* queue, and what is taken never runs backwards.                          *)
(***************************************************************************)
EXTENDS RcLink, SequenceTheorems, TLAPS

\* Whatever the joystick reports, an RC value is between RC_MIN and RC_MAX.
LEMMA RcInRange ==
  ASSUME NEW c \in Controls, NEW e \in Report
  PROVE  ToRc(c, e) \in RC_MIN..RC_MAX
<1> DEFINE v == e.value
<1>0. v \in Int
  BY RcAssumption DEF Report, Axis, Button
<1>1. ASSUME NEW x \in Int PROVE Clamp(RC_MIN, RC_MAX, x) \in RC_MIN..RC_MAX
  BY DEF Clamp, RC_MIN, RC_MAX
<1> HIDE DEF v
<1>2. Scaled(c, v) \in Int
  <2>1. Deadboxed(v) \in Int
    BY <1>0 DEF Deadboxed, DEADBAND
  <2>2. c \in Int
    BY RcAssumption
  <2>3. \A x \in Int : Clamp(0, JOY_RANGE, x) \in Int
    BY DEF Clamp, JOY_RANGE
  <2> DEFINE d == Deadboxed(v)
  <2> HIDE DEF d
  <2>4. d - (JOY_MIN + DEADBAND) \in Int
    BY <2>1 DEF d, JOY_MIN, DEADBAND
  <2>5. CASE c = THROTTLE_AXIS
    <3>1. Scaled(c, v) = RC_MIN * JOY_RANGE + 1000 * Clamp(0, JOY_RANGE, d - (JOY_MIN + DEADBAND))
      BY <2>5 DEF Scaled, d, THROTTLE_AXIS
    <3>2. QED
      BY <2>3, <2>4, <3>1 DEF RC_MIN, JOY_RANGE
  <2>6. CASE c # THROTTLE_AXIS
    <3>1. Scaled(c, v) \in {RC_CENTER * JOY_RANGE - 1000 * d, RC_CENTER * JOY_RANGE + 1000 * d}
      BY <2>6 DEF Scaled, d
    <3>2. QED
      BY <2>1, <3>1 DEF d, RC_CENTER, JOY_RANGE
  <2>7. QED
    BY <2>5, <2>6
<1>3. joystick_to_rc(c, v) \in RC_MIN..RC_MAX
  <2> DEFINE x == (2 * Scaled(c, v) + JOY_RANGE) \div (2 * JOY_RANGE)
  <2>1. x \in Int
    BY <1>2 DEF JOY_RANGE
  <2>2. joystick_to_rc(c, v) = Clamp(RC_MIN, RC_MAX, x)
    BY DEF joystick_to_rc
  <2> HIDE DEF x
  <2>3. QED
    BY <1>1, <2>1, <2>2
<1>4. apply_button(v) \in RC_MIN..RC_MAX
  BY DEF apply_button, RC_MIN, RC_MAX
<1>5. QED
  BY <1>3, <1>4 DEF ToRc, v
-----------------------------------------------------------------------------
(* Type correctness.                                                       *)

\* The type invariant in two parts, for the two provers: the flags, the rest.
Flags ==
  /\ plugged \in BOOLEAN
  /\ ground \in BOOLEAN
  /\ radio \in BOOLEAN
  /\ stale \in BOOLEAN
  /\ held \in BOOLEAN

Entries == [p : Packet, during : BOOLEAN]

Places ==
  /\ stick \in [Controls -> Report]
  /\ js_fd \in {"none", "open", "gone"}
  /\ events \subseteq Controls
  /\ moves \in 0..MaxMoves
  /\ moved \subseteq Controls
  /\ channels \in Sticks
  /\ stamp \in 0..MaxMoves
  /\ air \in Seq(Packet) /\ Len(air) <= AirCap
  /\ rcQ \in Seq(Entries) /\ Len(rcQ) <= RcCap
  /\ writer \in {"off", "recv", "timeout"}
  /\ given \in Sticks \cup {None, Failsafe}
  /\ taken \in 0..MaxMoves

LEMMA TypeParts == TypeOK <=> Flags /\ Places
  BY Zenon DEF TypeOK, Flags, Places, Entries

LEMMA CentredType == Centred \in Sticks
  BY DEF Centred, Sticks, RC_CENTER, RC_MIN, RC_MAX

LEMMA InitType == Init => TypeOK
<1> SUFFICES ASSUME Init PROVE TypeOK
  OBVIOUS
<1>1. Flags
  BY Zenon DEF Init, Gate!Init, Flags
<1>2. Len(air) = 0 /\ Len(rcQ) = 0
  BY DEF Init
<1>3. Places
  BY <1>2, RcAssumption, CentredType DEF Init, Gate!Init, Places, Open
<1>4. QED
  BY <1>1, <1>3, TypeParts

LEMMA FlagsKept == Flags /\ [Next]_vars => Flags'
<1> USE DEF Flags, pilot, rctx, camera
<1>1. Flags /\ Pilot => Flags'
  BY Zenon DEF Pilot, Move, Unplug, Plug
<1>2. Flags /\ (Ground \/ RadioChanges) => Flags'
  BY Zenon DEF Ground, poll_joystick, send_rc_packet, GroundEnds, GroundStarts, RadioChanges
<1>3. Flags /\ Camera => Flags'
  <2>1. Flags /\ (RecvRc \/ Silence \/ FcReopened) => Flags'
    BY Zenon DEF RecvRc, Silence, FcReopened
  <2>2. Flags /\ WriterRc => Flags'
    BY Zenon DEF WriterRc, WriterRefuses, Write, Gate!Take
  <2>3. Flags /\ (WriterFindsNothing \/ WriterTimeout) => Flags'
    BY Zenon DEF WriterFindsNothing, WriterTimeout, Write, Gate!Declare
  <2>4. Flags /\ FcGone => Flags'
    BY Zenon DEF FcGone, Gate!Forget
  <2>5. QED
    BY <2>1, <2>2, <2>3, <2>4 DEF Camera
<1>4. Flags /\ UNCHANGED vars => Flags'
  BY Zenon DEF vars
<1>5. QED
  BY <1>1, <1>2, <1>3, <1>4 DEF Next

\* What a packet is: the channels as they were stored last.
LEMMA PacketType ==
  ASSUME Places PROVE [ch |-> channels, n |-> stamp] \in Packet
  BY DEF Places, Packet

LEMMA PlacesKept == Flags /\ Places /\ [Next]_vars => Places'
<1> SUFFICES ASSUME Flags, Places, [Next]_vars PROVE Places'
  OBVIOUS
<1> USE DEF pilot, rctx, camera
<1>1. ASSUME NEW c \in Controls, Move(c) PROVE Places'
  <2>1. moves' \in 0..MaxMoves
    BY <1>1, RcAssumption DEF Places, Move
  <2>2. stick' \in [Controls -> Report]
    BY <1>1 DEF Places, Move, Reports
  <2>3. events' \subseteq Controls /\ moved' \subseteq Controls
    BY <1>1 DEF Places, Move
  <2>4. QED
    BY <1>1, <2>1, <2>2, <2>3 DEF Places, Move
<1>2. CASE Unplug \/ Plug
  BY <1>2 DEF Places, Unplug, Plug
<1>3. CASE poll_joystick
  <2>1. \A c \in Controls : ToRc(c, stick[c]) \in RC_MIN..RC_MAX
    BY RcInRange DEF Places
  <2>2. channels' \in Sticks
    BY <1>3, <2>1 DEF Places, poll_joystick, Sticks
  <2>3. QED
    BY <1>3, <2>2 DEF Places, poll_joystick
<1>4. CASE send_rc_packet
  <2>1. (air \in Seq(Packet) /\ Len(air) <= AirCap)'
    <3>1. CASE UNCHANGED air
      BY <3>1 DEF Places
    <3>2. CASE Len(air) < AirCap /\ air' = Append(air, [ch |-> channels, n |-> stamp])
      BY <3>2, PacketType, AppendProperties, RcAssumption DEF Places
    <3>3. QED
      BY <1>4, <3>1, <3>2 DEF send_rc_packet, Transmit
  <2>2. QED
    BY <1>4, <2>1 DEF Places, send_rc_packet
<1>5. CASE GroundEnds \/ GroundStarts \/ RadioChanges
  BY <1>5, CentredType DEF Places, GroundEnds, GroundStarts, RadioChanges, Open
<1>6. CASE RecvRc
  <2>1. (air \in Seq(Packet) /\ Len(air) <= AirCap)' /\ Head(air) \in Packet
    BY <1>6, HeadTailProperties, RcAssumption DEF Places, RecvRc
  <2>2. Entry \in Entries
    <3> DEFINE late == held \/ (writer = "timeout")
    <3>1. late \in BOOLEAN
      BY Zenon
    <3> HIDE DEF late
    <3>2. Entry = [p |-> Head(air), during |-> late]
      BY Zenon DEF Entry, late
    <3>3. QED
      BY <2>1, <3>1, <3>2 DEF Entries
  <2>3. (rcQ \in Seq(Entries) /\ Len(rcQ) <= RcCap)'
    <3>1. CASE UNCHANGED rcQ
      BY <3>1 DEF Places
    <3>2. CASE Len(rcQ) < RcCap /\ rcQ' = Append(rcQ, Entry)
      BY <3>2, <2>2, AppendProperties, RcAssumption DEF Places
    <3>3. QED
      BY <1>6, <3>1, <3>2 DEF RecvRc
  <2>4. QED
    BY <1>6, <2>1, <2>3 DEF Places, RecvRc
<1>7. CASE WriterRc
  <2>1. (rcQ \in Seq(Entries) /\ Len(rcQ) <= RcCap)' /\ Head(rcQ) \in Entries
    BY <1>7, HeadTailProperties, RcAssumption DEF Places, WriterRc
  <2>2. Head(rcQ).p.ch \in Sticks /\ Head(rcQ).p.n \in 0..MaxMoves
    BY <2>1 DEF Entries, Packet
  <2>3. given' \in {given, Head(rcQ).p.ch}
    BY <1>7 DEF WriterRc, WriterRefuses, Gate!Take
  <2>4. writer' \in {"off", "recv"}
    BY <1>7 DEF WriterRc, WriterRefuses, Write
  <2>5. QED
    BY <1>7, <2>1, <2>2, <2>3, <2>4 DEF Places, WriterRc
<1>8. CASE Silence \/ WriterFindsNothing \/ WriterTimeout \/ FcGone \/ FcReopened
  <2>1. given' \in {given, Failsafe, None}
    BY <1>8 DEF Silence, WriterFindsNothing, WriterTimeout, FcGone, FcReopened,
                Gate!Declare, Gate!Forget
  <2>2. writer' \in {"off", "recv", "timeout"}
    BY <1>8 DEF Silence, WriterFindsNothing, WriterTimeout, Write, FcGone, FcReopened
  <2>3. QED
    BY <1>8, <2>1, <2>2
       DEF Places, Silence, WriterFindsNothing, WriterTimeout, FcGone, FcReopened
<1>9. CASE UNCHANGED vars
  BY <1>9 DEF Places, vars
<1>10. QED
  BY <1>1, <1>2, <1>3, <1>4, <1>5, <1>6, <1>7, <1>8, <1>9 DEF Next, Pilot, Ground, Camera

\* Every variable keeps its type: no queue exceeds its capacity and no RC value its
\* range, for every joystick and every capacity.
THEOREM TypeCorrect == Spec => []TypeOK
<1>1. TypeOK /\ [Next]_vars => TypeOK'
  <2>1. TypeOK' <=> Flags' /\ Places'
    BY Zenon DEF TypeOK, Flags, Places, Entries, Packet
  <2>2. QED
    BY <2>1, TypeParts, FlagsKept, PlacesKept
<1>2. QED
  BY <1>1, InitType, PTL DEF Spec
-----------------------------------------------------------------------------
(* Failsafe.  It is declared only after the queue was found empty, so that  *)
(* all that is in the queue from then on until it ends arrived in between.  *)

QueuedDuring ==
  held \/ (writer = "timeout") => \A j \in DOMAIN rcQ : rcQ[j].during = TRUE

ReleaseInv == TypeOK /\ QueuedDuring

LEMMA QueuedDuringKept == TypeOK /\ QueuedDuring /\ [Next]_vars => QueuedDuring'
<1> DEFINE late == held \/ (writer = "timeout")
<1> SUFFICES ASSUME Flags, Places, QueuedDuring, [Next]_vars, late'
             PROVE  \A j \in DOMAIN rcQ' : rcQ'[j].during = TRUE
  BY TypeParts DEF QueuedDuring
<1> USE DEF pilot, rctx, camera
<1>0. late => \A j \in DOMAIN rcQ : rcQ[j].during = TRUE
  BY Zenon DEF QueuedDuring
<1>1. CASE RecvRc
  <2>1. late
    BY <1>1 DEF RecvRc
  <2>2. Entry.during = TRUE
    <3>1. Entry.during = late
      BY DEF Entry
    <3>2. late \in BOOLEAN
      BY Zenon
    <3> HIDE DEF late
    <3>3. QED
      BY <2>1, <3>1, <3>2, Zenon
  <2> HIDE DEF late
  <2>3. CASE UNCHANGED rcQ
    BY <1>0, <2>1, <2>3
  <2>4. CASE rcQ' = Append(rcQ, Entry)
    BY <1>0, <2>1, <2>2, <2>4 DEF Places
  <2>5. QED
    BY <1>1, <2>3, <2>4 DEF RecvRc
<1>2. CASE WriterRc
  <2>1. late
    BY <1>2 DEF WriterRc, WriterRefuses, Write, Gate!Take
  <2>2. rcQ' = Tail(rcQ) /\ rcQ # <<>> /\ rcQ \in Seq(Entries)
    BY <1>2 DEF WriterRc, Places
  <2>3. \A j \in DOMAIN rcQ' : j + 1 \in DOMAIN rcQ /\ rcQ'[j] = rcQ[j + 1]
    BY <2>2, HeadTailProperties
  <2> HIDE DEF late
  <2>4. QED
    BY <1>0, <2>1, <2>3
<1>3. CASE WriterFindsNothing
  BY <1>3 DEF WriterFindsNothing
<1>4. CASE WriterTimeout
  BY <1>0, <1>4 DEF WriterTimeout
<1>5. CASE FcGone
  BY <1>0, <1>5 DEF FcGone, Gate!Forget
<1>6. CASE FcReopened
  BY <1>0, <1>6 DEF FcReopened
<1>7. CASE UNCHANGED <<held, writer, rcQ>>
  BY <1>0, <1>7
<1>8. QED
  BY <1>1, <1>2, <1>3, <1>4, <1>5, <1>6, <1>7
     DEF Next, Pilot, Ground, Camera, Move, Unplug, Plug, poll_joystick, send_rc_packet,
         GroundEnds, GroundStarts, RadioChanges, Silence, vars

\* Failsafe is ended only by a packet received after the queue had been found empty
\* to declare it, for every interleaving of dispatcher and writer.
THEOREM ReleaseTheorem == Spec => ReleaseIsRecent
<1>1. Init => ReleaseInv
  <2>1. Init => QueuedDuring
    BY DEF Init, Gate!Init, QueuedDuring
  <2>2. QED
    BY <2>1, InitType DEF ReleaseInv
<1>2. ReleaseInv /\ [Next]_vars => ReleaseInv'
  <2>1. TypeOK /\ [Next]_vars => TypeOK'
    <3>1. TypeOK' <=> Flags' /\ Places'
      BY Zenon DEF TypeOK, Flags, Places, Entries, Packet
    <3>2. QED
      BY <3>1, TypeParts, FlagsKept, PlacesKept
  <2>2. QED
    BY <2>1, QueuedDuringKept DEF ReleaseInv
<1>3. ReleaseInv /\ [Next]_vars => [held /\ ~held' => Head(rcQ).during]_vars
  <2> SUFFICES ASSUME Places, QueuedDuring, Next, held, ~held'
               PROVE  Head(rcQ).during
    BY TypeParts DEF ReleaseInv
  <2>1. WriterRc
    BY DEF Next, Pilot, Ground, Camera, Move, Unplug, Plug, poll_joystick, send_rc_packet,
           GroundEnds, GroundStarts, RadioChanges, Silence, FcReopened, RecvRc,
           WriterFindsNothing, WriterTimeout, FcGone, Gate!Declare, Gate!Forget, pilot, rctx, camera
  <2>2. rcQ # <<>> /\ rcQ \in Seq(Entries)
    BY <2>1 DEF WriterRc, Places
  <2>3. 1 \in DOMAIN rcQ /\ Head(rcQ) = rcQ[1]
    BY <2>2
  <2>4. QED
    BY <2>3 DEF QueuedDuring
<1>4. QED
  BY <1>1, <1>2, <1>3, PTL DEF Spec, ReleaseIsRecent
-----------------------------------------------------------------------------
(* Order.  From the flight controller back to the pilot no stamp decreases:  *)
(* every queue is first in, first out, and whatever is lost leaves the rest  *)
(* in order.                                                                 *)

OrderInv ==
  /\ taken <= stamp /\ stamp <= moves
  /\ \A j \in DOMAIN air : taken <= air[j].n /\ air[j].n <= stamp
  /\ \A i \in DOMAIN rcQ : taken <= rcQ[i].p.n /\ rcQ[i].p.n <= stamp
  /\ \A i \in DOMAIN air, j \in DOMAIN air : i < j => air[i].n <= air[j].n
  /\ \A i \in DOMAIN rcQ, j \in DOMAIN rcQ : i < j => rcQ[i].p.n <= rcQ[j].p.n
  /\ \A i \in DOMAIN rcQ, j \in DOMAIN air : rcQ[i].p.n <= air[j].n

\* What the queues hold, as far as the order needs it.
LEMMA PlacesTypes ==
  ASSUME Places
  PROVE  /\ moves \in Int /\ stamp \in Int /\ taken \in Int
         /\ air \in Seq(Packet) /\ \A j \in DOMAIN air : air[j].n \in Int
         /\ rcQ \in Seq(Entries) /\ \A j \in DOMAIN rcQ : rcQ[j].p.n \in Int
<1>1. 0..MaxMoves \subseteq Int
  BY RcAssumption
<1>2. \A p \in Packet : p.n \in Int
  BY <1>1 DEF Packet
<1>3. \A e \in Entries : e.p \in Packet
  BY DEF Entries
<1>4. air \in Seq(Packet) /\ \A j \in DOMAIN air : air[j] \in Packet
  BY ElementOfSeq DEF Places
<1>5. rcQ \in Seq(Entries) /\ \A j \in DOMAIN rcQ : rcQ[j] \in Entries
  BY ElementOfSeq DEF Places
<1>6. moves \in Int /\ stamp \in Int /\ taken \in Int
  BY <1>1 DEF Places
<1>7. QED
  BY <1>2, <1>3, <1>4, <1>5, <1>6

LEMMA OrderKept == TypeOK /\ OrderInv /\ [Next]_vars => OrderInv'
<1> SUFFICES ASSUME Places, OrderInv, [Next]_vars PROVE OrderInv'
  BY TypeParts
<1> USE DEF pilot, rctx, camera
<1>0. /\ moves \in Int /\ stamp \in Int /\ taken \in Int
      /\ air \in Seq(Packet) /\ \A j \in DOMAIN air : air[j].n \in Int
      /\ rcQ \in Seq(Entries) /\ \A j \in DOMAIN rcQ : rcQ[j].p.n \in Int
  BY PlacesTypes
<1>1. ASSUME NEW c \in Controls, Move(c) PROVE OrderInv'
  BY <1>0, <1>1 DEF OrderInv, Move
<1>2. CASE poll_joystick
  BY <1>0, <1>2 DEF OrderInv, poll_joystick
<1>3. CASE GroundStarts
  BY <1>0, <1>3 DEF OrderInv, GroundStarts
<1>4. CASE send_rc_packet
  <2>1. CASE UNCHANGED air
    BY <1>4, <2>1 DEF OrderInv, send_rc_packet
  <2>2. CASE air' = Append(air, [ch |-> channels, n |-> stamp])
    BY <1>0, <1>4, <2>2 DEF OrderInv, send_rc_packet
  <2>3. QED
    BY <1>4, <2>1, <2>2 DEF send_rc_packet, Transmit
<1>5. CASE RecvRc
  <2>1. /\ air # <<>> /\ air' = Tail(air) /\ Head(air) = air[1]
        /\ UNCHANGED <<taken, stamp, moves>>
    BY <1>0, <1>5 DEF RecvRc
  <2>2. 1 \in DOMAIN air /\ \A j \in DOMAIN air' : j + 1 \in DOMAIN air /\ air'[j] = air[j + 1]
    BY <1>0, <2>1, HeadTailProperties
  <2>3. CASE UNCHANGED rcQ
    BY <1>0, <2>1, <2>2, <2>3 DEF OrderInv
  <2>4. CASE rcQ' = Append(rcQ, Entry)
    <3>1. Entry.p = air[1]
      BY <2>1 DEF Entry
    <3>2. /\ DOMAIN rcQ' = 1..(Len(rcQ) + 1) /\ DOMAIN rcQ = 1..Len(rcQ) /\ Len(rcQ) \in Nat
          /\ \A i \in DOMAIN rcQ : rcQ'[i] = rcQ[i]
          /\ rcQ'[Len(rcQ) + 1] = Entry
      BY <1>0, <2>4
    <3> DEFINE m == Len(rcQ) + 1
    <3>3. \A i \in DOMAIN rcQ' : i \in DOMAIN rcQ \/ i = m
      BY <3>2
    <3>4. \A i \in DOMAIN rcQ', j \in DOMAIN rcQ' : i < j => i \in DOMAIN rcQ
      BY <3>2
    <3> HIDE DEF m
    <3>5. rcQ'[m].p = air[1]
      BY <3>1, <3>2 DEF m
    <3>6. \A j \in DOMAIN air' : air[1].n <= air'[j].n
      BY <1>0, <2>2 DEF OrderInv
    <3>7. \A i \in DOMAIN rcQ : rcQ'[i] = rcQ[i] /\ rcQ[i].p.n <= air[1].n
      BY <2>2, <3>2 DEF OrderInv
    <3>8. \A j \in DOMAIN air' : taken <= air'[j].n /\ air'[j].n <= stamp
      BY <2>2 DEF OrderInv
    <3>9. \A i \in DOMAIN rcQ' : taken <= rcQ'[i].p.n /\ rcQ'[i].p.n <= stamp
      BY <2>2, <3>3, <3>5, <3>7 DEF OrderInv
    <3>10. \A i \in DOMAIN air', j \in DOMAIN air' : i < j => air'[i].n <= air'[j].n
      BY <1>0, <2>1, <2>2 DEF OrderInv
    <3>11. \A i \in DOMAIN rcQ', j \in DOMAIN rcQ' : i < j => rcQ'[i].p.n <= rcQ'[j].p.n
      BY <3>3, <3>4, <3>5, <3>7 DEF OrderInv
    <3>12. \A i \in DOMAIN rcQ', j \in DOMAIN air' : rcQ'[i].p.n <= air'[j].n
      <4>1. ASSUME NEW i \in DOMAIN rcQ, NEW j \in DOMAIN air'
            PROVE  rcQ'[i].p.n <= air'[j].n
        BY <2>2, <3>7 DEF OrderInv
      <4>2. QED
        BY <3>3, <3>5, <3>6, <4>1
    <3>13. QED
      BY <2>1, <3>8, <3>9, <3>10, <3>11, <3>12 DEF OrderInv
  <2>5. QED
    BY <1>5, <2>3, <2>4 DEF RecvRc
<1>6. CASE WriterRc
  <2>1. /\ rcQ # <<>> /\ rcQ' = Tail(rcQ) /\ taken' = rcQ[1].p.n
        /\ UNCHANGED <<air, stamp, moves>>
    BY <1>0, <1>6 DEF WriterRc
  <2>2. 1 \in DOMAIN rcQ /\ \A j \in DOMAIN rcQ' : j + 1 \in DOMAIN rcQ /\ rcQ'[j] = rcQ[j + 1]
    BY <1>0, <2>1, HeadTailProperties
  <2>3. QED
    BY <1>0, <2>1, <2>2 DEF OrderInv
<1>7. CASE UNCHANGED <<taken, stamp, moves, air, rcQ>>
  BY <1>7 DEF OrderInv
<1>8. QED
  BY <1>1, <1>2, <1>3, <1>4, <1>5, <1>6, <1>7
     DEF Next, Pilot, Ground, Camera, Unplug, Plug, GroundEnds, RadioChanges, Silence,
         WriterFindsNothing, WriterTimeout, FcGone, FcReopened, vars

\* What the flight controller is given never runs backwards: no sticks are taken
\* after later ones, whatever was lost, dropped or left behind by a dead writer.
THEOREM OrderTheorem == Spec => TakenInOrder
<1>1. Init => OrderInv
  BY DEF Init, OrderInv
<1>2. TypeOK /\ OrderInv /\ [Next]_vars => [taken' >= taken]_vars
  <2> SUFFICES ASSUME Places, OrderInv, Next PROVE taken' >= taken
    BY TypeParts
  <2>0. taken \in Int
    BY RcAssumption DEF Places
  <2>1. CASE WriterRc
    <3>1. rcQ # <<>> /\ rcQ \in Seq(Entries) /\ taken' = Head(rcQ).p.n
      BY <2>1 DEF WriterRc, Places
    <3>2. 1 \in DOMAIN rcQ /\ Head(rcQ) = rcQ[1] /\ rcQ[1].p.n \in Int
      BY <3>1, PlacesTypes
    <3>3. QED
      BY <2>0, <3>1, <3>2 DEF OrderInv
  <2>2. CASE UNCHANGED taken
    BY <2>0, <2>2
  <2>3. QED
    BY <2>1, <2>2
       DEF Next, Pilot, Ground, Camera, Move, Unplug, Plug, poll_joystick, send_rc_packet,
           GroundEnds, GroundStarts, RadioChanges, RecvRc, Silence, WriterFindsNothing,
           WriterTimeout, FcGone,
           FcReopened, pilot, rctx, camera
<1>3. QED
  BY <1>1, <1>2, OrderKept, TypeCorrect, PTL DEF Spec, TakenInOrder
===============================================================================
