----------------------------- MODULE FcLinkProofs -----------------------------
(***************************************************************************)
(* The failsafe latch of the flight-controller link, for every capacity of *)
(* its queues.                                                             *)
(***************************************************************************)
EXTENDS FcLink, SequenceTheorems, TLAPS

\* The type invariant in two parts, for the two provers: the flags, the rest.
Flags ==
  /\ full \in BOOLEAN
  /\ device \in BOOLEAN
  /\ hb_due \in BOOLEAN
  /\ rc_failsafe_active \in BOOLEAN
  /\ failsafe_sent \in BOOLEAN
  /\ latched \in BOOLEAN

Places ==
  /\ rcQ \in Seq(Throttle)
  /\ Len(rcQ) <= RcCap
  /\ uplink \in 0..UplinkCap
  /\ handle \in {"none", "ok", "dead", "mute"}
  /\ sup \in {"open", "join_reader", "join_writer", "backoff"}
  /\ retry \in 0..5
  /\ reader \in {"off", "run"}
  /\ writer \in {"off", "heartbeat", "recv", "timeout", "drain", "uplink"}
  /\ rc_age \in {"fresh", "late", "stale"}
  /\ fc \in Throttle \cup {"none", "failsafe"}

LEMMA TypeParts == TypeOK <=> Flags /\ Places
  BY Zenon DEF TypeOK, Flags, Places

LEMMA InitType == Init => TypeOK
<1> SUFFICES ASSUME Init PROVE TypeOK
  OBVIOUS
<1>1. rcQ \in Seq(Throttle) /\ Len(rcQ) = 0
  BY DEF Init
<1>2. Places
  BY <1>1, FcAssumption DEF Init, Places
<1>3. Flags
  BY Zenon DEF Init, Flags
<1>4. QED
  BY <1>2, <1>3, TypeParts

\* The two queues stay within their capacities.
LEMMA RcQueueType ==
  ASSUME TypeOK,
         \/ UNCHANGED rcQ
         \/ \E t \in Throttle : RecvRc(t)
         \/ rcQ # <<>> /\ rcQ' = Tail(rcQ)
  PROVE  (rcQ \in Seq(Throttle) /\ Len(rcQ) <= RcCap)'
<1>1. CASE UNCHANGED rcQ
  BY <1>1 DEF TypeOK
<1>2. ASSUME NEW t \in Throttle, RecvRc(t)
      PROVE  (rcQ \in Seq(Throttle) /\ Len(rcQ) <= RcCap)'
  BY <1>2, FcAssumption, AppendProperties DEF TypeOK, RecvRc
<1>3. CASE rcQ # <<>> /\ rcQ' = Tail(rcQ)
  BY <1>3, FcAssumption, HeadTailProperties DEF TypeOK
<1>4. QED
  BY <1>1, <1>2, <1>3

LEMMA NextFlags == Flags /\ [Next]_vars => Flags'
<1> SUFFICES ASSUME Flags, [Next]_vars PROVE Flags'
  OBVIOUS
<1>1. CASE Ground \/ UNCHANGED vars
  BY <1>1, Zenon DEF Flags, Ground, RecvRc, RecvMavlink, vars, port
<1>2. CASE DeviceRemoved \/ DeviceReturns
  BY <1>2, Zenon DEF Flags, DeviceRemoved, DeviceReturns
<1>3. CASE Time
  BY <1>3, Zenon DEF Flags, Time, HeartbeatFallsDue, RcAges, port
<1>4. CASE Supervisor \/ ReaderEnds
  BY <1>4, Zenon DEF Flags, Supervisor, OpenPort, OpenFails, JoinReader,
                     JoinWriter, BackoffEnds, ReaderEnds, port
<1>5. CASE WriterHeartbeat \/ WriterFindsNothing \/ WriterDrain \/ WriterUplink
  BY <1>5, Zenon DEF Flags, WriterHeartbeat, WriterFindsNothing, WriterDrain, WriterUplink, port
<1>6. CASE WriterRc
  BY <1>6, Zenon DEF Flags, WriterRc, port
<1>7. CASE WriterTimeout
  BY <1>7, Zenon DEF Flags, WriterTimeout, port
<1>8. QED
  BY <1>1, <1>2, <1>3, <1>4, <1>5, <1>6, <1>7 DEF Next, Device, Writer

LEMMA NextPlaces == TypeOK /\ [Next]_vars => Places'
<1> SUFFICES ASSUME TypeOK, Places, [Next]_vars PROVE Places'
  BY TypeParts
<1> USE FcAssumption DEF port, super
<1>1. ASSUME NEW t \in Throttle, RecvRc(t) PROVE Places'
  <2>1. (rcQ \in Seq(Throttle) /\ Len(rcQ) <= RcCap)'
    BY <1>1, RcQueueType
  <2>2. QED
    BY <1>1, <2>1 DEF Places, RecvRc
<1>2. CASE WriterRc
  <2>1. (rcQ \in Seq(Throttle) /\ Len(rcQ) <= RcCap)'
    BY <1>2, RcQueueType DEF WriterRc
  <2>2. Head(rcQ) \in Throttle
    BY <1>2, HeadTailProperties DEF WriterRc, Places
  <2>3. (writer \in {"off", "drain", "uplink"} /\ fc \in Throttle \cup {"none", "failsafe"})'
    BY <1>2, <2>2 DEF WriterRc, Places
  <2>4. QED
    BY <1>2, <2>1, <2>3 DEF Places, WriterRc
<1>3. CASE RecvMavlink
  BY <1>3 DEF Places, RecvMavlink
<1>4. CASE DeviceRemoved \/ DeviceReturns
  BY <1>4 DEF Places, DeviceRemoved, DeviceReturns
<1>5. CASE HeartbeatFallsDue \/ RcAges
  BY <1>5 DEF Places, HeartbeatFallsDue, RcAges
<1>6. CASE OpenPort
  BY <1>6 DEF Places, OpenPort
<1>7. CASE OpenFails \/ JoinReader \/ JoinWriter \/ BackoffEnds
  BY <1>7 DEF Places, OpenFails, JoinReader, JoinWriter, BackoffEnds, NextRetry
<1>8. CASE ReaderEnds \/ WriterHeartbeat
  BY <1>8 DEF Places, ReaderEnds, WriterHeartbeat
<1>9. CASE WriterFindsNothing \/ WriterTimeout
  BY <1>9 DEF Places, WriterFindsNothing, WriterTimeout
<1>10. CASE WriterDrain \/ WriterUplink
  BY <1>10 DEF Places, WriterDrain, WriterUplink
<1>11. CASE UNCHANGED vars
  BY <1>11 DEF Places, vars
<1>12. QED
  BY <1>1, <1>2, <1>3, <1>4, <1>5, <1>6, <1>7, <1>8, <1>9, <1>10, <1>11
     DEF Next, Ground, Device, Time, Supervisor, Writer

LEMMA NextType == TypeOK /\ [Next]_vars => TypeOK'
<1> SUFFICES ASSUME TypeOK, [Next]_vars PROVE TypeOK'
  OBVIOUS
<1>1. Flags' /\ Places'
  BY NextFlags, NextPlaces, TypeParts
<1>2. QED
  BY <1>1 DEF TypeOK, Flags, Places

\* Queues stay within their capacities and every thread at one of its places.
THEOREM TypeCorrect == Spec => []TypeOK
  BY InitType, NextType, PTL DEF Spec

-----------------------------------------------------------------------------
\* The shared flag is exactly as strict as the pilot needs: it is up as long as
\* no neutral stick was seen since failsafe was declared.
Latch == latched => rc_failsafe_active

LEMMA InitLatch == Init => Latch
  BY DEF Init, Latch

LEMMA NextLatch == TypeOK /\ Latch /\ [Next]_vars => Latch'
<1> SUFFICES ASSUME TypeOK, Latch, [Next]_vars PROVE Latch'
  OBVIOUS
<1>1. CASE WriterRc
  <2>1. Head(rcQ) = "neutral" \/ Head(rcQ) = "high"
    BY <1>1, HeadTailProperties DEF WriterRc, TypeOK, Throttle
  <2>2. latched' => latched /\ Head(rcQ) # "neutral"
    BY <1>1, Zenon DEF WriterRc
  <2>3. CASE Refused(Head(rcQ))
    <3>1. rc_failsafe_active
      BY <2>3 DEF Refused
    <3>2. rc_failsafe_active' = rc_failsafe_active
      BY <1>1, <2>3, Zenon DEF WriterRc
    <3>3. QED
      BY <3>1, <3>2 DEF Latch
  <2>4. CASE ~Refused(Head(rcQ))
    BY <2>1, <2>2, <2>4 DEF Latch, Refused
  <2>5. QED
    BY <2>3, <2>4
<1>2. CASE WriterTimeout
  BY <1>2 DEF WriterTimeout, Latch
<1>3. CASE UNCHANGED <<latched, rc_failsafe_active>>
  BY <1>3 DEF Latch
<1>4. QED
  BY <1>1, <1>2, <1>3
     DEF Next, Ground, Device, Time, Supervisor, Writer, RecvRc, RecvMavlink,
         DeviceRemoved, DeviceReturns, HeartbeatFallsDue, RcAges, OpenPort,
         OpenFails, JoinReader, JoinWriter, BackoffEnds, ReaderEnds,
         WriterHeartbeat, WriterFindsNothing, WriterDrain, WriterUplink, vars

\* A step that writes a high throttle is one of the writer on an open latch.
LEMMA NextNoHigh ==
  TypeOK /\ Latch /\ [Next]_vars => [latched => fc' # "high" \/ fc = "high"]_vars
<1> SUFFICES ASSUME TypeOK, Latch, [Next]_vars, latched
             PROVE  fc' # "high" \/ fc = "high"
  OBVIOUS
<1>1. rc_failsafe_active
  BY DEF Latch
<1>2. CASE WriterRc
  BY <1>1, <1>2 DEF WriterRc, Refused
<1>3. CASE WriterTimeout
  BY <1>3 DEF WriterTimeout
<1>4. CASE DeviceRemoved
  BY <1>4 DEF DeviceRemoved
<1>5. CASE UNCHANGED fc
  BY <1>5
<1>6. QED
  BY <1>2, <1>3, <1>4, <1>5
     DEF Next, Ground, Device, Time, Supervisor, Writer, RecvRc, RecvMavlink,
         DeviceReturns, HeartbeatFallsDue, RcAges, OpenPort, OpenFails,
         JoinReader, JoinWriter, BackoffEnds, ReaderEnds, WriterHeartbeat,
         WriterFindsNothing, WriterDrain, WriterUplink, vars

\* From the declaration of failsafe to the first neutral stick no high throttle
\* reaches the flight controller, across reconnections and failed writes.
THEOREM LatchTheorem == Spec => NoHighThrottleWhileLatched
<1>1. Init => TypeOK /\ Latch
  BY InitType, InitLatch
<1>2. TypeOK /\ Latch /\ [Next]_vars => (TypeOK /\ Latch)'
  BY NextType, NextLatch
<1>3. QED
  BY <1>1, <1>2, NextNoHigh, PTL DEF Spec, NoHighThrottleWhileLatched

-----------------------------------------------------------------------------
\* Each step of the link is one of the gate, or leaves flag and override alone.
LEMMA GateStep ==
  TypeOK /\ [Next]_vars => [Gate!Next]_<<rc_failsafe_active, fc>>
<1> SUFFICES ASSUME TypeOK, [Next]_vars
             PROVE  Gate!Next \/ UNCHANGED <<rc_failsafe_active, fc>>
  OBVIOUS
<1>1. CASE WriterRc
  <2>1. Head(rcQ) \in Throttle
    BY <1>1, HeadTailProperties DEF WriterRc, TypeOK
  <2>2. CASE Refused(Head(rcQ))
    BY <1>1, <2>2, Zenon DEF WriterRc
  <2>3. CASE ~Refused(Head(rcQ))
    <3>1. rc_failsafe_active => Neutral(Head(rcQ))
      BY <2>1, <2>3 DEF Refused, Neutral, Throttle
    <3>2. rc_failsafe_active' = FALSE /\ (fc' = Head(rcQ) \/ fc' = fc)
      BY <1>1, <2>3, Zenon DEF WriterRc
    <3>3. Gate!Take(Head(rcQ))
      BY <3>1, <3>2 DEF Gate!Take
    <3>4. QED
      BY <2>1, <3>3 DEF Gate!Next
  <2>4. QED
    BY <2>2, <2>3
<1>2. CASE WriterTimeout
  <2>1. CASE rc_age = "stale"
    <3>1. rc_failsafe_active' = TRUE /\ (fc' = "failsafe" \/ fc' = fc)
      BY <1>2, <2>1, Zenon DEF WriterTimeout
    <3>2. QED
      BY <3>1 DEF Gate!Next, Gate!Declare
  <2>2. CASE rc_age # "stale"
    BY <1>2, <2>2, Zenon DEF WriterTimeout
  <2>3. QED
    BY <2>1, <2>2
<1>3. CASE DeviceRemoved
  <2>1. rc_failsafe_active' = rc_failsafe_active /\ (fc' = fc \/ fc' = "none")
    BY <1>3 DEF DeviceRemoved
  <2>2. QED
    BY <2>1 DEF Gate!Next, Gate!Forget
<1>4. CASE UNCHANGED <<rc_failsafe_active, fc>>
  BY <1>4
<1>5. QED
  BY <1>1, <1>2, <1>3, <1>4
     DEF Next, Ground, Device, Time, Supervisor, Writer, RecvRc, RecvMavlink,
         DeviceReturns, HeartbeatFallsDue, RcAges, OpenPort, OpenFails,
         JoinReader, JoinWriter, BackoffEnds, ReaderEnds, WriterHeartbeat,
         WriterFindsNothing, WriterDrain, WriterUplink, vars

\* The link to the flight controller implements the gate that the rest of the
\* system relies on: once failsafe is declared only a neutral throttle ends it.
THEOREM GateTheorem == Spec => ImplementsGate
<1>1. Init => Gate!Init
  BY DEF Init, Gate!Init
<1>2. QED
  BY <1>1, InitType, NextType, GateStep, PTL DEF Spec, ImplementsGate, Gate!Spec
==============================================================================
