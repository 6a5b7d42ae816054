-------------------------------- MODULE FcLink --------------------------------
(***************************************************************************)
(* The camera's link to the flight controller (rpv-cam/src/fc.rs): the     *)
(* supervisor that opens the serial port and joins a reader and a writer   *)
(* thread, the RC failsafe of the writer, and the two queues the camera's  *)
(* rx_dispatcher fills.  The queues and the failsafe flag outlive the      *)
(* writer, everything else of it is local and starts afresh with each one. *)
(*                                                                         *)
(* A throttle is neutral (at most THROTTLE_NEUTRAL_THRESHOLD) or high; of  *)
(* an RC packet only its throttle is kept, of a MAVLink frame nothing.     *)
(* Bytes read from the port change nothing here: the reader matters only   *)
(* by when it ends.                                                        *)
(***************************************************************************)
EXTENDS Naturals, Sequences

CONSTANTS
  RcCap,     \* capacity of the RC channel (2)
  UplinkCap  \* capacity of the raw uplink channel (64)

ASSUME FcAssumption ==
  /\ RcCap \in Nat \ {0}
  /\ UplinkCap \in Nat \ {0}

VARIABLES
  rcQ,       \* RC channel: throttles
  uplink,    \* raw uplink channel: the number of frames in it
  full,      \* the flight controller is slow: writes to it may time out
  device,    \* the serial device is plugged in
  handle,    \* the opened port; once its device was removed: "dead" if a read says
             \* so (EIO, ENODEV or ENXIO), "mute" if reads give end of file or errors
             \* without one of these numbers
  sup,       \* supervisor: what it does next
  retry,     \* min(retry_count, 5), which decides the backoff
  reader,    \* reader thread
  writer,    \* writer thread: what it does next
  hb_due,    \* last_heartbeat is a second old
  rc_age,    \* age of last_rc_time: up to 500 ms, up to 2 s, or more
  rc_failsafe_active, failsafe_sent,
  fc,        \* the last override the flight controller received
  latched    \* history: failsafe was declared and no neutral stick seen since

port  == <<full, device, handle>>
super == <<sup, retry, reader>>
vars  == <<rcQ, uplink, full, device, handle, sup, retry, reader, writer, hb_due,
           rc_age, rc_failsafe_active, failsafe_sent, fc, latched>>

Throttle == {"neutral", "high"}

TypeOK ==
  /\ rcQ \in Seq(Throttle)
  /\ Len(rcQ) <= RcCap
  /\ uplink \in 0..UplinkCap
  /\ full \in BOOLEAN
  /\ device \in BOOLEAN
  /\ handle \in {"none", "ok", "dead", "mute"}
  /\ sup \in {"open", "join_reader", "join_writer", "backoff"}
  /\ retry \in 0..5
  /\ reader \in {"off", "run"}
  /\ writer \in {"off", "heartbeat", "recv", "timeout", "drain", "uplink"}
  /\ hb_due \in BOOLEAN
  /\ rc_age \in {"fresh", "late", "stale"}
  /\ rc_failsafe_active \in BOOLEAN
  /\ failsafe_sent \in BOOLEAN
  /\ fc \in Throttle \cup {"none", "failsafe"}
  /\ latched \in BOOLEAN

Init ==
  /\ rcQ = <<>>
  /\ uplink = 0
  /\ full \in BOOLEAN
  /\ device \in BOOLEAN
  /\ handle = "none"
  /\ sup = "open"
  /\ retry = 0
  /\ reader = "off"
  /\ writer = "off"
  /\ hb_due = FALSE
  /\ rc_age = "fresh"
  /\ rc_failsafe_active = FALSE
  /\ failsafe_sent = FALSE
  /\ fc = "none"
  /\ latched = FALSE

-----------------------------------------------------------------------------
\* rx_dispatcher: RC packets and MAVLink frames from the ground are offered to
\* bounded channels; what does not fit is dropped, so RC keeps its OLDEST packets.

RecvRc(t) ==
  /\ rcQ' = IF Len(rcQ) < RcCap THEN Append(rcQ, t) ELSE rcQ
  /\ UNCHANGED <<uplink, port, super, writer, hb_due, rc_age,
                 rc_failsafe_active, failsafe_sent, fc, latched>>

RecvMavlink ==
  /\ uplink' = IF uplink < UplinkCap THEN uplink + 1 ELSE uplink
  /\ UNCHANGED <<rcQ, port, super, writer, hb_due, rc_age,
                 rc_failsafe_active, failsafe_sent, fc, latched>>

\* The device is unplugged: an open handle is of no use any more, and driver and
\* serialport decide how reads of it fail.  A flight controller that was powered by
\* the cable also forgets its override.
DeviceRemoved ==
  /\ device
  /\ device' = FALSE
  /\ handle' \in IF handle = "ok" THEN {"dead", "mute"} ELSE {handle}
  /\ fc' \in {fc, "none"}
  /\ UNCHANGED <<rcQ, uplink, full, super, writer, hb_due, rc_age,
                 rc_failsafe_active, failsafe_sent, latched>>

DeviceReturns ==
  /\ ~device
  /\ device' = TRUE
  /\ UNCHANGED <<rcQ, uplink, full, handle, super, writer, hb_due, rc_age,
                 rc_failsafe_active, failsafe_sent, fc, latched>>

\* Time: a second since the last heartbeat, 500 ms and 2 s since the last RC.
HeartbeatFallsDue ==
  /\ ~hb_due
  /\ hb_due' = TRUE
  /\ UNCHANGED <<rcQ, uplink, port, super, writer, rc_age,
                 rc_failsafe_active, failsafe_sent, fc, latched>>

RcAges ==
  /\ rc_age # "stale"
  /\ rc_age' = IF rc_age = "fresh" THEN "late" ELSE "stale"
  /\ UNCHANGED <<rcQ, uplink, port, super, writer, hb_due,
                 rc_failsafe_active, failsafe_sent, fc, latched>>

-----------------------------------------------------------------------------
\* Supervisor.
NextRetry == IF retry < 5 THEN retry + 1 ELSE 5

\* Mutated form: each connection starts with the failsafe cleared.
OpenPortClearsFailsafe ==
  /\ sup = "open"
  /\ device
  /\ handle' = "ok"
  /\ retry' = 0
  /\ reader' = "run"
  /\ writer' = "heartbeat"
  /\ hb_due' = TRUE
  /\ rc_age' = "fresh"
  /\ failsafe_sent' = FALSE
  /\ rc_failsafe_active' = FALSE
  /\ sup' = "join_reader"
  /\ UNCHANGED <<rcQ, uplink, full, device, fc, latched>>

\* The port is opened and cloned, and both threads start.
OpenPort ==
  /\ sup = "open"
  /\ device
  /\ handle' = "ok"
  /\ retry' = 0
  /\ reader' = "run"
  /\ writer' = "heartbeat"
  /\ hb_due' = TRUE
  /\ rc_age' = "fresh"
  /\ failsafe_sent' = FALSE
  /\ sup' = "join_reader"
  /\ UNCHANGED <<rcQ, uplink, full, device, rc_failsafe_active, fc, latched>>

OpenFails ==
  /\ sup = "open"
  /\ ~device
  /\ retry' = NextRetry
  /\ sup' = "backoff"
  /\ UNCHANGED <<rcQ, uplink, port, reader, writer, hb_due, rc_age,
                 rc_failsafe_active, failsafe_sent, fc, latched>>

JoinReader ==
  /\ sup = "join_reader"
  /\ reader = "off"
  /\ sup' = "join_writer"
  /\ UNCHANGED <<rcQ, uplink, port, retry, reader, writer, hb_due, rc_age,
                 rc_failsafe_active, failsafe_sent, fc, latched>>

\* Mutated form: the supervisor gives up after five attempts that failed.
BackoffEndsFive ==
  /\ sup = "backoff"
  /\ retry < 5
  /\ sup' = "open"
  /\ UNCHANGED <<rcQ, uplink, port, retry, reader, writer, hb_due, rc_age,
                 rc_failsafe_active, failsafe_sent, fc, latched>>

JoinWriter ==
  /\ sup = "join_writer"
  /\ writer = "off"
  /\ handle' = "none"
  /\ retry' = NextRetry
  /\ sup' = "backoff"
  /\ UNCHANGED <<rcQ, uplink, full, device, reader, writer, hb_due, rc_age,
                 rc_failsafe_active, failsafe_sent, fc, latched>>

BackoffEnds ==
  /\ sup = "backoff"
  /\ sup' = "open"
  /\ UNCHANGED <<rcQ, uplink, port, retry, reader, writer, hb_due, rc_age,
                 rc_failsafe_active, failsafe_sent, fc, latched>>

Supervisor == OpenPort \/ OpenFails \/ JoinReader \/ JoinWriter \/ BackoffEnds

\* The reader ends when a read says that its device is gone.  End of file, timeouts
\* and all other errors it retries for ever, on a "mute" handle as well.
ReaderEnds ==
  /\ reader = "run"
  /\ handle = "dead"
  /\ reader' = "off"
  /\ UNCHANGED <<rcQ, uplink, port, sup, retry, writer, hb_due, rc_age,
                 rc_failsafe_active, failsafe_sent, fc, latched>>

-----------------------------------------------------------------------------
\* write_mavlink: true when written; any error is false, and ends the writer.
Written    == handle = "ok"
Removed    == handle \in {"dead", "mute"}
NotWritten == Removed \/ (handle = "ok" /\ full)

WriterHeartbeat ==
  /\ writer = "heartbeat"
  /\ \/ ~hb_due /\ writer' = "recv" /\ UNCHANGED hb_due
     \/ hb_due /\ Written /\ writer' = "recv" /\ hb_due' = FALSE
     \/ hb_due /\ NotWritten /\ writer' = "off" /\ UNCHANGED hb_due
  /\ UNCHANGED <<rcQ, uplink, port, super, rc_age, rc_failsafe_active,
                 failsafe_sent, fc, latched>>

\* Mutated form: only a high throttle clears the failsafe, as the comment at
\* fc.rs:365 says.
RefusedNeutral(t) == rc_failsafe_active /\ t = "neutral"

\* The latch: in failsafe a high throttle is not forwarded.
Refused(t) == rc_failsafe_active /\ t = "high"

\* recv_timeout returns a packet.  A refused one also sends the writer to drop
\* the queued MAVLink frames; any other clears the failsafe and is written.
WriterRc ==
  /\ writer = "recv"
  /\ rcQ # <<>>
  /\ rcQ' = Tail(rcQ)
  /\ rc_age' = "fresh"
  /\ latched' = (latched /\ Head(rcQ) # "neutral")
  /\ \/ /\ Refused(Head(rcQ))
        /\ writer' = "drain"
        /\ UNCHANGED <<rc_failsafe_active, failsafe_sent, fc>>
     \/ /\ ~Refused(Head(rcQ))
        /\ rc_failsafe_active' = FALSE
        /\ failsafe_sent' = FALSE
        /\ \/ Written /\ fc' = Head(rcQ) /\ writer' = "uplink"
           \/ NotWritten /\ writer' = "off" /\ UNCHANGED fc
  /\ UNCHANGED <<uplink, port, super, hb_due>>

\* recv_timeout finds nothing for 100 ms.  What comes in from here on waits for the
\* next turn.
WriterFindsNothing ==
  /\ writer = "recv"
  /\ rcQ = <<>>
  /\ writer' = "timeout"
  /\ UNCHANGED <<rcQ, uplink, port, super, hb_due, rc_age, rc_failsafe_active,
                 failsafe_sent, fc, latched>>

\* Mutated form: the failsafe override is written only when the flag is raised.
WriterTimeoutOnce ==
  /\ writer = "timeout"
  /\ \/ /\ rc_age # "stale" \/ rc_failsafe_active
        /\ writer' = "uplink"
        /\ UNCHANGED <<rc_failsafe_active, failsafe_sent, fc, latched>>
     \/ /\ rc_age = "stale"
        /\ ~rc_failsafe_active
        /\ rc_failsafe_active' = TRUE
        /\ latched' = TRUE
        /\ \/ Written /\ fc' = "failsafe" /\ failsafe_sent' = TRUE /\ writer' = "uplink"
           \/ NotWritten /\ writer' = "off" /\ UNCHANGED <<fc, failsafe_sent>>
  /\ UNCHANGED <<rcQ, uplink, port, super, hb_due, rc_age>>

\* After 2 s without RC a timeout declares the failsafe, and its override is written
\* at every timeout from then on (2 s being more than 500 ms, failsafe_sent decides
\* nothing).
WriterTimeout ==
  /\ writer = "timeout"
  /\ \/ /\ rc_age # "stale"
        /\ writer' = "uplink"
        /\ UNCHANGED <<rc_failsafe_active, failsafe_sent, fc, latched>>
     \/ /\ rc_age = "stale"
        /\ rc_failsafe_active' = TRUE
        /\ latched' = (latched \/ ~rc_failsafe_active)
        /\ \/ Written /\ fc' = "failsafe" /\ failsafe_sent' = TRUE /\ writer' = "uplink"
           \/ NotWritten /\ writer' = "off" /\ UNCHANGED <<fc, failsafe_sent>>
  /\ UNCHANGED <<rcQ, uplink, port, super, hb_due, rc_age>>

\* One try_recv of the loop that drops the queued frames.
WriterDrain ==
  /\ writer = "drain"
  /\ IF uplink > 0 THEN uplink' = uplink - 1 /\ UNCHANGED writer
                   ELSE writer' = "heartbeat" /\ UNCHANGED uplink
  /\ UNCHANGED <<rcQ, port, super, hb_due, rc_age, rc_failsafe_active,
                 failsafe_sent, fc, latched>>

\* One try_recv of the loop that writes the queued frames.  A timeout only drops
\* the frame; a removed device may end the loop, but not the writer.
WriterUplink ==
  /\ writer = "uplink"
  /\ IF uplink > 0
       THEN /\ uplink' = uplink - 1
            /\ writer' \in {"uplink"} \cup (IF Removed THEN {"heartbeat"} ELSE {})
       ELSE writer' = "heartbeat" /\ UNCHANGED uplink
  /\ UNCHANGED <<rcQ, port, super, hb_due, rc_age, rc_failsafe_active,
                 failsafe_sent, fc, latched>>

Writer ==
  \/ WriterHeartbeat \/ WriterRc \/ WriterFindsNothing \/ WriterTimeout
  \/ WriterDrain \/ WriterUplink

Ground == (\E t \in Throttle : RecvRc(t)) \/ RecvMavlink
Device == DeviceRemoved \/ DeviceReturns
Time   == HeartbeatFallsDue \/ RcAges

Next == Ground \/ Device \/ Time \/ Supervisor \/ ReaderEnds \/ Writer

Spec == Init /\ [][Next]_vars

\* Threads keep running, sleeps end, blocking reads return within 100 ms (the
\* port's timeout) and time passes.  Nothing is assumed of the ground station,
\* nor of the device.
FairSpec ==
  /\ Spec
  /\ WF_vars(Supervisor)
  /\ WF_vars(ReaderEnds)
  /\ WF_vars(Writer)
  /\ WF_vars(HeartbeatFallsDue)
  /\ WF_vars(RcAges)

-----------------------------------------------------------------------------
\* From the moment failsafe is declared until a neutral stick arrives, no high
\* throttle reaches the flight controller, whatever reconnections, dead writers
\* and left-over packets lie in between.
NoHighThrottleWhileLatched ==
  [][latched => fc' # "high" \/ fc = "high"]_vars

\* The link keeps the promise of FailsafeGate, the gate being the shared flag:
\* whatever the supervisor restarts, a write that fails or the queue left over by
\* a dead writer, sticks that are not neutral never pass while it is held, and
\* nothing but declared failsafe and passed sticks reaches the flight controller.
Neutral(t) == t = "neutral"
Gate == INSTANCE FailsafeGate
          WITH Sticks <- Throttle, None <- "none", Failsafe <- "failsafe",
               held <- rc_failsafe_active, given <- fc
ImplementsGate == Gate!Spec

UplinkGoesQuiet == <>[][~RecvMavlink]_vars
PilotGoesSilent == <>[][\A t \in Throttle : ~RecvRc(t)]_vars

\* Assumed of driver and serialport wherever a lost device must be replaced, and not
\* guaranteed by the code: no read of a removed device ends in end of file or in an
\* error other than EIO, ENODEV and ENXIO for ever.
RemovalShows == [](handle # "mute")

\* When the pilot goes silent, the flight controller ends up holding the failsafe
\* override, even if it was unplugged and forgot it, provided removals show, the device
\* stays in the end and takes every write, and GCS frames do not keep the writer in its
\* uplink loop for ever.
SilenceReachesFc ==
  ~full /\ RemovalShows /\ <>[]device /\ PilotGoesSilent /\ UplinkGoesQuiet
  => <>[](fc = "failsafe")

\* A device that is removed and comes back for good is opened again, however often
\* opening failed, provided removals show and writes do not time out: reader, writer
\* and supervisor never wait on each other for ever.
RemovedDeviceIsReopened ==
  ~full /\ RemovalShows /\ <>[]device /\ UplinkGoesQuiet
  => <>[](handle = "ok" /\ writer # "off")

\* A pilot who keeps sending a neutral throttle gets the aircraft out of failsafe, under
\* the same conditions.
NeutralEndsFailsafe ==
  /\ ~full
  /\ RemovalShows
  /\ <>[]device
  /\ UplinkGoesQuiet
  /\ <>[][~RecvRc("high")]_vars
  /\ []<><<RecvRc("neutral")>>_vars
  => []<>(fc = "neutral")

-----------------------------------------------------------------------------
\* fc.rs:498 "Returns false on any write error so caller can exit and trigger
\* reconnect": after a failed write a new writer is started, even where every removed
\* device shows.
WriteErrorReconnects == RemovalShows /\ <>[]device => []<>(writer # "off")
==============================================================================
