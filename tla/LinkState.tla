------------------------------ MODULE LinkState ------------------------------
(***************************************************************************)
(* The ground station's link state machine (rpv-ground/src/link_state.rs)  *)
(* and the four threads that read and drive it:                            *)
(*                                                                         *)
(*   rx       rx_dispatcher: queues telemetry, stamps last_heartbeat       *)
(*   telem    TelemetryReceiver::run: stores the report, telemetry_activity*)
(*   ui       RpvApp::update: frames, camera_unavailable / camera_available*)
(*   monitor  heartbeat_monitor: heartbeat_lost / heartbeat_restored       *)
(*                                                                         *)
(* Every method of LinkStateMachine is a load of the atomic `state` that   *)
(* is followed by a separate store: one action is one access to shared     *)
(* memory, so the threads interleave between the two.  Wall-clock age of   *)
(* last_heartbeat is abstracted to never / fresh / stale (older than 5 s). *)
(***************************************************************************)
EXTENDS Naturals, Sequences

CONSTANT TelemCap   \* capacity of the telem_payload channel (4 in main.rs)

ASSUME TelemCapAssumption == TelemCap \in Nat \ {0}

VARIABLES
  state,          \* LinkStateMachine.state
  camera_ok,      \* LinkStateMachine.camera_ok
  telemQ,         \* telem_payload channel: the camera_ok flag of each report
  telemetry,      \* camera_ok of the report in TelemetryReceiver.state
  last_heartbeat, \* age of the shared timestamp
  ever_connected, \* local of heartbeat_monitor
  has_frame,      \* RpvApp.has_ever_had_frame
  link_status,    \* RpvApp.state.link_status, the UI's cached copy
  pc,             \* next access of each thread
  reg,            \* the status the monitor loaded, or is about to store
  reported,       \* history: some stored report said camera_ok = false
  masked          \* history: how often each activity store hit a SignalLost

vars == <<state, camera_ok, telemQ, telemetry, last_heartbeat, ever_connected,
          has_frame, link_status, pc, reg, reported, masked>>

machine == <<state, camera_ok, masked>>
inputs  == <<telemQ, last_heartbeat>>
uiVars  == <<has_frame, link_status>>
monVars == <<ever_connected, reg>>
telVars == <<telemetry, reported>>

Status == {"Searching", "Connected", "SignalLost", "NoCamera"}
Age    == {"never", "fresh", "stale"}

\* The threads that call telemetry_activity and video_frame_decoded.
ActivityThreads == {"telem", "ui"}

PcOf == [rx      : {"recv", "stamp"},
         telem   : {"recv", "load", "store"},
         ui      : {"frames", "video_load", "video_store", "camera",
                    "unavail_flag", "unavail_load", "unavail_store",
                    "avail_flag", "avail_load", "avail_store", "refresh"},
         monitor : {"sample", "lost_load", "lost_store",
                    "restore_load", "restore_camera", "restore_store"}]

TypeOK ==
  /\ state \in Status
  /\ camera_ok \in BOOLEAN
  /\ telemQ \in Seq(BOOLEAN)
  /\ Len(telemQ) <= TelemCap
  /\ telemetry \in BOOLEAN
  /\ last_heartbeat \in Age
  /\ ever_connected \in BOOLEAN
  /\ has_frame \in BOOLEAN
  /\ link_status \in Status
  /\ pc \in PcOf
  /\ reg \in Status
  /\ reported \in BOOLEAN
  /\ masked \in [ActivityThreads -> 0..2]

Init ==
  /\ state = "Searching"
  /\ camera_ok = TRUE
  /\ telemQ = <<>>
  /\ telemetry = TRUE
  /\ last_heartbeat = "never"
  /\ ever_connected = FALSE
  /\ has_frame = FALSE
  /\ link_status = "Searching"
  /\ pc = [rx |-> "recv", telem |-> "recv", ui |-> "frames",
           monitor |-> "sample"]
  /\ reg = "Searching"
  /\ reported = FALSE
  /\ masked = [t \in ActivityThreads |-> 0]

At(thread, label) == pc[thread] = label
Goto(thread, label) == pc' = [pc EXCEPT ![thread] = label]

\* The store of telemetry_activity and of video_frame_decoded.  The history
\* counts those that land on a SignalLost, up to 2.
ActivityStore(thread) ==
  /\ state' = "Connected"
  /\ masked' = IF state = "SignalLost" /\ masked[thread] < 2
                 THEN [masked EXCEPT ![thread] = @ + 1] ELSE masked

(***************************************************************************)
(* rx_dispatcher.  Telemetry is offered to the bounded channel (try_send,  *)
(* dropped when full) before the timestamp is stored; video and heartbeat  *)
(* packets only store the timestamp.                                       *)
(***************************************************************************)
RxTelemetry(ok) ==
  /\ At("rx", "recv")
  /\ telemQ' = IF Len(telemQ) < TelemCap THEN Append(telemQ, ok) ELSE telemQ
  /\ Goto("rx", "stamp")
  /\ UNCHANGED <<machine, last_heartbeat, uiVars, monVars, telVars>>

RxVideoOrHeartbeat ==
  /\ At("rx", "recv")
  /\ Goto("rx", "stamp")
  /\ UNCHANGED <<machine, inputs, uiVars, monVars, telVars>>

RxStamp ==
  /\ At("rx", "stamp")
  /\ last_heartbeat' = "fresh"
  /\ Goto("rx", "recv")
  /\ UNCHANGED <<machine, telemQ, uiVars, monVars, telVars>>

\* Five seconds pass since the last stamp.
HeartbeatAges ==
  /\ last_heartbeat = "fresh"
  /\ last_heartbeat' = "stale"
  /\ UNCHANGED <<machine, telemQ, uiVars, monVars, telVars, pc>>

(***************************************************************************)
(* TelemetryReceiver::run: the report is stored, then telemetry_activity   *)
(* loads the state and, if it saw Searching, stores Connected.             *)
(***************************************************************************)
TelemRecv ==
  /\ At("telem", "recv")
  /\ telemQ # <<>>
  /\ telemetry' = Head(telemQ)
  /\ reported' = (reported \/ ~Head(telemQ))
  /\ telemQ' = Tail(telemQ)
  /\ Goto("telem", "load")
  /\ UNCHANGED <<machine, last_heartbeat, uiVars, monVars>>

\* Mutated form: telemetry brings a lost link back as well.
TelemActivityLoadLost ==
  /\ At("telem", "load")
  /\ Goto("telem", IF state \in {"Searching", "SignalLost"}
                     THEN "store" ELSE "recv")
  /\ UNCHANGED <<machine, inputs, uiVars, monVars, telVars>>

TelemActivityLoad ==
  /\ At("telem", "load")
  /\ Goto("telem", IF state = "Searching" THEN "store" ELSE "recv")
  /\ UNCHANGED <<machine, inputs, uiVars, monVars, telVars>>

TelemActivityStore ==
  /\ At("telem", "store")
  /\ ActivityStore("telem")
  /\ Goto("telem", "recv")
  /\ UNCHANGED <<camera_ok, inputs, uiVars, monVars, telVars>>

(***************************************************************************)
(* heartbeat_monitor: the age is sampled, then heartbeat_lost or           *)
(* heartbeat_restored runs against whatever the state has become.          *)
(***************************************************************************)
\* Mutated form: no ever_connected guard, as before the first contact.
MonitorSampleUnguarded ==
  /\ At("monitor", "sample")
  /\ IF last_heartbeat # "fresh"
       THEN Goto("monitor", "lost_load") /\ UNCHANGED ever_connected
       ELSE Goto("monitor", "restore_load") /\ ever_connected' = TRUE
  /\ UNCHANGED <<machine, inputs, uiVars, telVars, reg>>

MonitorSample ==
  /\ At("monitor", "sample")
  /\ \/ /\ last_heartbeat # "fresh"
        /\ ever_connected
        /\ Goto("monitor", "lost_load")
        /\ UNCHANGED ever_connected
     \/ /\ last_heartbeat = "fresh"
        /\ ever_connected' = TRUE
        /\ Goto("monitor", "restore_load")
  /\ UNCHANGED <<machine, inputs, uiVars, telVars, reg>>

\* Mutated form: only a Connected link can be lost.
HeartbeatLostLoadConnected ==
  /\ At("monitor", "lost_load")
  /\ Goto("monitor", IF state = "Connected" THEN "lost_store" ELSE "sample")
  /\ UNCHANGED <<machine, inputs, uiVars, monVars, telVars>>

HeartbeatLostLoad ==
  /\ At("monitor", "lost_load")
  /\ Goto("monitor", IF state = "SignalLost" THEN "sample" ELSE "lost_store")
  /\ UNCHANGED <<machine, inputs, uiVars, monVars, telVars>>

HeartbeatLostStore ==
  /\ At("monitor", "lost_store")
  /\ state' = "SignalLost"
  /\ Goto("monitor", "sample")
  /\ UNCHANGED <<camera_ok, masked, inputs, uiVars, monVars, telVars>>

\* Mutated form: heartbeat_restored forgets its NoCamera branch.
HeartbeatRestoredLoadNoRepair ==
  /\ At("monitor", "restore_load")
  /\ reg' = state
  /\ Goto("monitor", IF state \in {"Connected", "NoCamera"}
                       THEN "sample" ELSE "restore_camera")
  /\ UNCHANGED <<machine, inputs, uiVars, telVars, ever_connected>>

HeartbeatRestoredLoad ==
  /\ At("monitor", "restore_load")
  /\ reg' = state
  /\ Goto("monitor", IF state = "Connected" THEN "sample" ELSE "restore_camera")
  /\ UNCHANGED <<machine, inputs, uiVars, telVars, ever_connected>>

\* The camera_ok load of both branches: NoCamera moves only when the camera is
\* back, Searching and SignalLost always move.
HeartbeatRestoredCamera ==
  /\ At("monitor", "restore_camera")
  /\ IF camera_ok
       THEN reg' = "Connected" /\ Goto("monitor", "restore_store")
       ELSE IF reg = "NoCamera"
              THEN Goto("monitor", "sample") /\ UNCHANGED reg
              ELSE reg' = "NoCamera" /\ Goto("monitor", "restore_store")
  /\ UNCHANGED <<machine, inputs, uiVars, telVars, ever_connected>>

HeartbeatRestoredStore ==
  /\ At("monitor", "restore_store")
  /\ state' = reg
  /\ Goto("monitor", "sample")
  /\ UNCHANGED <<camera_ok, masked, inputs, uiVars, monVars, telVars>>

(***************************************************************************)
(* RpvApp::update.  process_frames finds no frame, uploads one (then       *)
(* video_frame_decoded and has_ever_had_frame = true) or finds a new       *)
(* resolution (has_ever_had_frame = false, nothing uploaded).  The camera  *)
(* report is consulted only while no frame was ever shown, and against the *)
(* link_status cached by the PREVIOUS update.                              *)
(***************************************************************************)
UiFrames ==
  /\ At("ui", "frames")
  /\ \/ Goto("ui", "camera") /\ UNCHANGED has_frame
     \/ Goto("ui", "video_load") /\ UNCHANGED has_frame
     \/ Goto("ui", "camera") /\ has_frame' = FALSE
  /\ UNCHANGED <<machine, inputs, monVars, telVars, link_status>>

UiVideoDecodedLoad ==
  /\ At("ui", "video_load")
  /\ IF state = "Searching"
       THEN Goto("ui", "video_store") /\ UNCHANGED has_frame
       ELSE Goto("ui", "camera") /\ has_frame' = TRUE
  /\ UNCHANGED <<machine, inputs, monVars, telVars, link_status>>

UiVideoDecodedStore ==
  /\ At("ui", "video_store")
  /\ ActivityStore("ui")
  /\ has_frame' = TRUE
  /\ Goto("ui", "camera")
  /\ UNCHANGED <<camera_ok, inputs, monVars, telVars, link_status>>

UiCameraCheck ==
  /\ At("ui", "camera")
  /\ Goto("ui", CASE ~has_frame /\ ~telemetry /\ link_status # "NoCamera" ->
                       "unavail_flag"
                  [] ~has_frame /\ telemetry /\ link_status = "NoCamera" ->
                       "avail_flag"
                  [] OTHER -> "refresh")
  /\ UNCHANGED <<machine, inputs, uiVars, monVars, telVars>>

\* Mutated form: camera_unavailable without the camera_ok store.
CameraUnavailableFlagForgotten ==
  /\ At("ui", "unavail_flag")
  /\ Goto("ui", "unavail_load")
  /\ UNCHANGED <<machine, inputs, uiVars, monVars, telVars>>

CameraUnavailableFlag ==
  /\ At("ui", "unavail_flag")
  /\ camera_ok' = FALSE
  /\ Goto("ui", "unavail_load")
  /\ UNCHANGED <<state, masked, inputs, uiVars, monVars, telVars>>

CameraUnavailableLoad ==
  /\ At("ui", "unavail_load")
  /\ Goto("ui", IF state = "NoCamera" THEN "refresh" ELSE "unavail_store")
  /\ UNCHANGED <<machine, inputs, uiVars, monVars, telVars>>

CameraUnavailableStore ==
  /\ At("ui", "unavail_store")
  /\ state' = "NoCamera"
  /\ Goto("ui", "refresh")
  /\ UNCHANGED <<camera_ok, masked, inputs, uiVars, monVars, telVars>>

CameraAvailableFlag ==
  /\ At("ui", "avail_flag")
  /\ camera_ok' = TRUE
  /\ Goto("ui", "avail_load")
  /\ UNCHANGED <<state, masked, inputs, uiVars, monVars, telVars>>

CameraAvailableLoad ==
  /\ At("ui", "avail_load")
  /\ Goto("ui", IF state = "NoCamera" THEN "avail_store" ELSE "refresh")
  /\ UNCHANGED <<machine, inputs, uiVars, monVars, telVars>>

CameraAvailableStore ==
  /\ At("ui", "avail_store")
  /\ state' = "Connected"
  /\ Goto("ui", "refresh")
  /\ UNCHANGED <<camera_ok, masked, inputs, uiVars, monVars, telVars>>

UiRefresh ==
  /\ At("ui", "refresh")
  /\ link_status' = state
  /\ Goto("ui", "frames")
  /\ UNCHANGED <<machine, inputs, monVars, telVars, has_frame>>

-----------------------------------------------------------------------------
Rx == (\E ok \in BOOLEAN : RxTelemetry(ok)) \/ RxVideoOrHeartbeat

Telem == TelemRecv \/ TelemActivityLoad \/ TelemActivityStore

Monitor ==
  \/ MonitorSample
  \/ HeartbeatLostLoad
  \/ HeartbeatLostStore
  \/ HeartbeatRestoredLoad
  \/ HeartbeatRestoredCamera
  \/ HeartbeatRestoredStore

Ui ==
  \/ UiFrames
  \/ UiVideoDecodedLoad
  \/ UiVideoDecodedStore
  \/ UiCameraCheck
  \/ CameraUnavailableFlag
  \/ CameraUnavailableLoad
  \/ CameraUnavailableStore
  \/ CameraAvailableFlag
  \/ CameraAvailableLoad
  \/ CameraAvailableStore
  \/ UiRefresh

Next == Rx \/ RxStamp \/ HeartbeatAges \/ Telem \/ Monitor \/ Ui

Spec == Init /\ [][Next]_vars

\* Every thread keeps running: the monitor wakes every 100 ms, the UI repaints
\* at least every 100 ms (request_repaint_after), the telemetry thread polls.
\* Packets need never arrive.
FairSpec ==
  /\ Spec
  /\ WF_vars(RxStamp)
  /\ WF_vars(Telem)
  /\ WF_vars(Monitor)
  /\ WF_vars(Ui)

-----------------------------------------------------------------------------
\* SignalLost is shown only after the monitor has once seen a fresh heartbeat
\* (heartbeat_monitor's ever_connected).
LostOnlyAfterContact == state = "SignalLost" => ever_connected

\* NoCamera, and the flag that makes heartbeat_restored choose it, come only
\* from a telemetry report with camera_ok = false.
NoCameraOnlyAfterReport ==
  (state = "NoCamera" \/ reg = "NoCamera" \/ ~camera_ok) => reported

\* No race of the four threads invents a status: a station that never had a link
\* does not show SignalLost, and one that got no bad report not NoCamera, although
\* either is stored accesses after it was decided on.
StatusIsEarned == LostOnlyAfterContact /\ NoCameraOnlyAfterReport

\* README.md:282 says that only heartbeats override SignalLost.  The stores of
\* telemetry_activity and video_frame_decoded come accesses after the load they
\* were decided on, so they can; but each of the two does so at most once in the
\* life of the station, in the race around the first contact: a loss after that is
\* never masked by late telemetry or video, however often the link comes and goes.
ActivityMasksOnce == \A t \in ActivityThreads : masked[t] <= 1

\* A silent link is reported: if heartbeats stop for good after a contact, the
\* monitor puts the state at SignalLost again and again.
SilenceIsReported ==
  <>[](last_heartbeat # "fresh") =>
    []<>(state = "SignalLost" \/ ~ever_connected)

\* A live link is not left at SignalLost: once heartbeats stay fresh, the state
\* leaves SignalLost and Searching and never comes back.
RecoveryIsReported ==
  <>[](last_heartbeat = "fresh") =>
    <>[](state \notin {"SignalLost", "Searching"})

\* What the heartbeat says is shown in the end, whatever the UI and telemetry
\* threads store in between.
LinkIsReported == SilenceIsReported /\ RecoveryIsReported

\* A link that lives while telemetry keeps saying that the camera is gone
\* settles on NoCamera (as long as no frame is shown), although telemetry,
\* monitor and UI stores race on the way.
NoCameraSettles ==
  <>[](last_heartbeat = "fresh" /\ ~telemetry /\ ~has_frame) =>
    <>[](state = "NoCamera")

\* NoCamera with the camera flag already true is never final while heartbeats
\* are fresh: a restored heartbeat repairs it even when the UI no longer looks
\* at the report because a frame was shown.
StaleNoCameraIsRepaired ==
  []<>(state # "NoCamera" \/ ~camera_ok \/ last_heartbeat # "fresh")

==============================================================================
