-------------------------------- MODULE RcLink --------------------------------
(***************************************************************************)
(* The pilot's sticks on their way to the flight controller: the joystick  *)
(* and RC transmitter of the ground station (rc/joystick.rs), the radio,   *)
(* the bounded channel the camera's rx_dispatcher fills (main.rs), and the *)
(* writer that empties it, of which FailsafeGate states what it lets pass. *)
(*                                                                         *)
(* Of the sixteen channels those of Controls are kept.  A packet holds     *)
(* them and a stamp; the sequence number in its header is read by nobody.  *)
(***************************************************************************)
EXTENDS Integers, Sequences

CONSTANTS
  Controls,   \* channels: each is set by the axis of its number, 4..7 also by the
              \* buttons 0..3
  Raw,        \* what the joystick may report for an axis
  RcCap,      \* capacity of the camera's RC channel (2)
  AirCap,     \* bound: packets in the camera's socket buffer
  MaxMoves,   \* bound: stick movements
  None, Failsafe

RC_MIN == 1000
RC_MAX == 2000
RC_CENTER == 1500
THROTTLE_NEUTRAL_THRESHOLD == 1050

\* The channel failsafe looks at, and the axis that carries the throttle.
FAILSAFE_CHANNEL == 2
THROTTLE_AXIS == 1

ASSUME RcAssumption ==
  /\ {THROTTLE_AXIS, FAILSAFE_CHANNEL} \subseteq Controls
  /\ Controls \subseteq 0..15
  /\ Raw \subseteq Int
  /\ RcCap \in Nat \ {0}
  /\ AirCap \in Nat \ {0}
  /\ MaxMoves \in Nat

-----------------------------------------------------------------------------
\* Joystick values to RC values: the conversion is in floating point, the value
\* that is rounded being Scaled / JOY_RANGE.
JOY_MIN   == -1024
DEADBAND  == 8
JOY_RANGE == 2030

Clamp(lo, hi, x) == IF x < lo THEN lo ELSE IF x > hi THEN hi ELSE x

Deadboxed(raw) ==
  IF -DEADBAND < raw /\ raw < DEADBAND THEN 0
  ELSE IF raw > 0 THEN raw - DEADBAND ELSE raw + DEADBAND

Scaled(axis, raw) ==
  LET d == Deadboxed(raw)
  IN CASE axis = THROTTLE_AXIS ->
            RC_MIN * JOY_RANGE + 1000 * Clamp(0, JOY_RANGE, d - (JOY_MIN + DEADBAND))
       [] axis = 3 -> RC_CENTER * JOY_RANGE - 1000 * d
       [] OTHER    -> RC_CENTER * JOY_RANGE + 1000 * d

joystick_to_rc(axis, raw) ==
  Clamp(RC_MIN, RC_MAX, (2 * Scaled(axis, raw) + JOY_RANGE) \div (2 * JOY_RANGE))

apply_button(value) == IF value = 1 THEN RC_MAX ELSE RC_MIN

\* What an event may report, and what it makes of its channel.
Axis(v)    == [etype |-> "axis", value |-> v]
Button(v)  == [etype |-> "button", value |-> v]
Report     == {Axis(v) : v \in Raw} \cup {Button(v) : v \in {0, 1}}
Reports(c) == {e \in Report : e.etype = "axis" \/ c \in 4..7}

ToRc(c, e) ==
  IF e.etype = "axis" THEN joystick_to_rc(c, e.value) ELSE apply_button(e.value)

-----------------------------------------------------------------------------
VARIABLES
  stick,     \* where the pilot holds each control: axis or button, what moved last
  plugged,   \* the joystick is plugged in
  js_fd,     \* "none", "open", or "gone": open on a joystick that was unplugged
  events,    \* controls with an unread event
  moves,     \* history: how often a control was moved
  moved,     \* history: the controls moved since the joystick was opened
  ground,    \* the ground station runs
  channels,  \* RCTx.channels
  stamp,     \* history: moves when channels was last stored
  radio,     \* the radio carries packets
  air,       \* packets in the camera's socket buffer
  rcQ,       \* RC channel; "during" says that at its arrival failsafe was on, or
             \* being declared on a queue that was found empty
  writer,    \* fc_writer: "off", "recv", or "timeout" once it found the queue empty
  stale,     \* last_rc_time is more than 2 s old
  held, given,  \* the gate: failsafe, and what the flight controller got last
  taken      \* history: the stamp of the last packet that was taken

pilot  == <<stick, plugged, moves, moved>>
rctx   == <<js_fd, events, ground, channels, stamp>>
camera == <<rcQ, writer, stale, held, given, taken>>
vars   == <<stick, plugged, js_fd, events, moves, moved, ground, channels, stamp,
            radio, air, rcQ, writer, stale, held, given, taken>>

Sticks == [Controls -> RC_MIN..RC_MAX]
Neutral(s) == s[FAILSAFE_CHANNEL] <= THROTTLE_NEUTRAL_THRESHOLD
Gate == INSTANCE FailsafeGate

Packet == [ch : Sticks, n : 0..MaxMoves]

TypeOK ==
  /\ stick \in [Controls -> Report]
  /\ plugged \in BOOLEAN
  /\ js_fd \in {"none", "open", "gone"}
  /\ events \subseteq Controls
  /\ moves \in 0..MaxMoves
  /\ moved \subseteq Controls
  /\ ground \in BOOLEAN
  /\ channels \in Sticks
  /\ stamp \in 0..MaxMoves
  /\ radio \in BOOLEAN
  /\ air \in Seq(Packet) /\ Len(air) <= AirCap
  /\ rcQ \in Seq([p : Packet, during : BOOLEAN]) /\ Len(rcQ) <= RcCap
  /\ writer \in {"off", "recv", "timeout"}
  /\ stale \in BOOLEAN
  /\ held \in BOOLEAN
  /\ given \in Sticks \cup {None, Failsafe}
  /\ taken \in 0..MaxMoves

Centred == [c \in Controls |-> RC_CENTER]
Open    == IF plugged THEN "open" ELSE "none"

Init ==
  /\ stick \in {s \in [Controls -> Report] : \A c \in Controls : s[c] \in Reports(c)}
  /\ plugged \in BOOLEAN
  /\ js_fd = Open
  /\ events = {}
  /\ moves = 0
  /\ moved = {}
  /\ ground = TRUE
  /\ channels = Centred
  /\ stamp = 0
  /\ radio \in BOOLEAN
  /\ air = <<>>
  /\ rcQ = <<>>
  /\ writer = "off"
  /\ stale = FALSE
  /\ Gate!Init
  /\ taken = 0

-----------------------------------------------------------------------------
\* The pilot.  The kernel queues an event for an open joystick; what it reports
\* of the positions at opening is marked as initial, and poll_joystick skips it.
Move(c) ==
  /\ plugged
  /\ moves < MaxMoves
  /\ moves' = moves + 1
  /\ \E e \in Reports(c) \ {stick[c]} : stick' = [stick EXCEPT ![c] = e]
  /\ events' = IF js_fd = "open" THEN events \cup {c} ELSE events
  /\ moved' = IF js_fd = "open" THEN moved \cup {c} ELSE moved
  /\ UNCHANGED <<plugged, js_fd, ground, channels, stamp, radio, air, camera>>

\* A joystick that was unplugged reports nothing, and is not opened again.
Unplug ==
  /\ plugged
  /\ plugged' = FALSE
  /\ js_fd' = IF js_fd = "open" THEN "gone" ELSE js_fd
  /\ events' = {}
  /\ UNCHANGED <<stick, moves, moved, ground, channels, stamp, radio, air, camera>>

Plug ==
  /\ ~plugged
  /\ plugged' = TRUE
  /\ UNCHANGED <<stick, moves, moved, rctx, radio, air, camera>>

-----------------------------------------------------------------------------
\* RCTx::run.  All unread events are taken up, then the channels are stored.

\* Mutated form: the events are read, and the channels not stored.
PollWithoutStore ==
  /\ ground
  /\ js_fd = "open"
  /\ events # {}
  /\ events' = {}
  /\ stamp' = moves
  /\ UNCHANGED <<pilot, js_fd, ground, channels, radio, air, camera>>

poll_joystick ==
  /\ ground
  /\ js_fd = "open"
  /\ events # {}
  /\ channels' = [c \in Controls |-> IF c \in events THEN ToRc(c, stick[c]) ELSE channels[c]]
  /\ events' = {}
  /\ stamp' = moves
  /\ UNCHANGED <<pilot, js_fd, ground, radio, air, camera>>

Transmit ==
  air' = IF radio /\ Len(air) < AirCap
           THEN Append(air, [ch |-> channels, n |-> stamp]) ELSE air

\* Mutated form: the latest channels are sent until the camera has taken them.
SendUntilTaken ==
  /\ ground
  /\ taken < stamp
  /\ Transmit
  /\ UNCHANGED <<pilot, rctx, radio, camera>>

\* 50 times a second, whether a stick moved or not.
send_rc_packet ==
  /\ ground
  /\ Transmit
  /\ UNCHANGED <<pilot, rctx, radio, camera>>

\* The ground station ends, and starts afresh with centred channels.
GroundEnds ==
  /\ ground
  /\ ground' = FALSE
  /\ js_fd' = "none"
  /\ events' = {}
  /\ channels' = Centred
  /\ moved' = {}
  /\ UNCHANGED <<stick, plugged, moves, stamp, radio, air, camera>>

GroundStarts ==
  /\ ~ground
  /\ ground' = TRUE
  /\ js_fd' = Open
  /\ stamp' = moves
  /\ UNCHANGED <<pilot, events, channels, radio, air, camera>>

RadioChanges ==
  /\ radio' = ~radio
  /\ UNCHANGED <<pilot, rctx, air, camera>>

-----------------------------------------------------------------------------
\* rx_dispatcher: what does not fit in the channel is dropped, so the channel
\* keeps its OLDEST packets.
Entry == [p |-> Head(air), during |-> held \/ (writer = "timeout")]

RecvRc ==
  /\ air # <<>>
  /\ air' = Tail(air)
  /\ rcQ' = IF Len(rcQ) < RcCap THEN Append(rcQ, Entry) ELSE rcQ
  /\ UNCHANGED <<pilot, rctx, radio, writer, stale, held, given, taken>>

\* 2 s pass without a packet: at 50 packets a second that takes a dead radio or
\* ground station, and a writer that waits.
Silence ==
  /\ writer = "recv"
  /\ rcQ = <<>> /\ air = <<>>
  /\ ~radio \/ ~ground
  /\ stale' = TRUE
  /\ UNCHANGED <<pilot, rctx, radio, air, rcQ, writer, held, given, taken>>

\* A write to the flight controller; one that fails ends the writer.
Write(o) ==
  \/ given' = o /\ writer' = "recv"
  \/ given' = given /\ writer' = "off"

\* Failsafe holds on to the sticks: they are taken from the queue and dropped.
WriterRefuses ==
  /\ held /\ ~Neutral(Head(rcQ).p.ch)
  /\ UNCHANGED <<writer, held, given>>

WriterRc ==
  /\ writer = "recv"
  /\ rcQ # <<>>
  /\ rcQ' = Tail(rcQ)
  /\ stale' = FALSE
  /\ taken' = Head(rcQ).p.n
  /\ \/ WriterRefuses
     \/ Gate!Take(Head(rcQ).p.ch) /\ Write(Head(rcQ).p.ch)
  /\ UNCHANGED <<pilot, rctx, radio, air>>

\* recv_timeout finds nothing for 100 ms, the last packet being 2 s old (before that
\* a timeout changes nothing).  From here on the failsafe will be declared, and a
\* packet that comes in before it is finds room in the queue.
WriterFindsNothing ==
  /\ writer = "recv"
  /\ rcQ = <<>>
  /\ stale
  /\ writer' = "timeout"
  /\ UNCHANGED <<pilot, rctx, radio, air, rcQ, stale, held, given, taken>>

\* Mutated form: the age is looked at before the queue, not after its timeout.
WriterTimeoutEarly ==
  /\ writer # "off"
  /\ stale
  /\ Gate!Declare
  /\ Write(Failsafe)
  /\ UNCHANGED <<pilot, rctx, radio, air, rcQ, stale, taken>>

\* Mutated form: the override is written only when the flag is raised.
WriterTimeoutOnce ==
  /\ writer = "timeout"
  /\ IF held THEN writer' = "recv" /\ UNCHANGED <<held, given>>
             ELSE Gate!Declare /\ Write(Failsafe)
  /\ UNCHANGED <<pilot, rctx, radio, air, rcQ, stale, taken>>

\* Failsafe is declared, or is on already, and its override written.
WriterTimeout ==
  /\ writer = "timeout"
  /\ Gate!Declare
  /\ Write(Failsafe)
  /\ UNCHANGED <<pilot, rctx, radio, air, rcQ, stale, taken>>

\* The port is lost, and perhaps the flight controller's power with it.  The writer
\* notices when it writes its heartbeat.
FcGone ==
  /\ writer = "recv"
  /\ writer' = "off"
  /\ Gate!Forget \/ UNCHANGED <<held, given>>
  /\ UNCHANGED <<pilot, rctx, radio, air, rcQ, stale, taken>>

\* A new writer starts: the queue and the failsafe flag are those of the last.
FcReopened ==
  /\ writer = "off"
  /\ writer' = "recv"
  /\ stale' = FALSE
  /\ UNCHANGED <<pilot, rctx, radio, air, rcQ, held, given, taken>>

Pilot  == (\E c \in Controls : Move(c)) \/ Unplug \/ Plug
Ground == poll_joystick \/ send_rc_packet \/ GroundEnds \/ GroundStarts
Camera ==
  \/ RecvRc \/ Silence \/ WriterRc \/ WriterFindsNothing \/ WriterTimeout
  \/ FcGone \/ FcReopened

Next == Pilot \/ Ground \/ RadioChanges \/ Camera

Spec == Init /\ [][Next]_vars

\* Threads keep running and time passes.  Nothing is assumed of the pilot, of the
\* radio, of the ground station's life or of the flight controller.
Fairness ==
  /\ WF_vars(poll_joystick)
  /\ WF_vars(send_rc_packet)
  /\ WF_vars(RecvRc)
  /\ WF_vars(Silence)
  /\ WF_vars(WriterRc)
  /\ WF_vars(WriterFindsNothing)
  /\ WF_vars(WriterTimeout)

FairSpec == Spec /\ Fairness

-----------------------------------------------------------------------------
\* What the flight controller is given never runs backwards: no packet is taken
\* after one with later sticks, whatever was lost, dropped or left in the queue
\* by a dead writer in between.
TakenInOrder == [][taken' >= taken]_vars

\* Failsafe is ended only by a packet that the camera received after the writer had
\* found its queue empty to declare it, never by one that was left in the queue by
\* the pilot of before.  (One that comes in between that look and the declaration may
\* end the failsafe at the writer's next turn.)
ReleaseIsRecent == [][held /\ ~held' => Head(rcQ).during]_vars

\* With the link up for good and no failsafe, the flight controller ends up with
\* the pilot's sticks: each control where it is held, or in the middle when it
\* was not moved since the joystick was opened.
SticksSettle ==
  <>[](ground /\ radio /\ writer # "off" /\ ~held /\ js_fd = "open")
    => <>[](/\ given \in Sticks
            /\ \A c \in Controls : given[c] = IF c \in moved THEN ToRc(c, stick[c])
                                                              ELSE RC_CENTER)

\* When the radio or the ground station is gone for good, the flight controller
\* ends up with the failsafe override, if its port stays open.
OutageEndsInFailsafe ==
  <>[](writer # "off" /\ (~radio \/ ~ground)) => <>[](held /\ given = Failsafe)

==============================================================================
