---------------------------- MODULE LinkStateProofs ---------------------------
(***************************************************************************)
(* Safety of the link state machine, for every capacity of the telemetry   *)
(* channel.  The three properties are not inductive: each is strengthened  *)
(* with what a thread may be carrying in its program counter or register.  *)
(***************************************************************************)
EXTENDS LinkState, SequenceTheorems, TLAPS

UnavailLabels == {"unavail_flag", "unavail_load", "unavail_store"}

\* A thread on its way to store SignalLost has already been in contact.
ContactInv ==
  /\ LostOnlyAfterContact
  /\ pc.monitor \in {"lost_load", "lost_store"} => ever_connected

\* A bad report is remembered from the moment the telemetry thread stores it,
\* through the UI's check, to the store of NoCamera by either thread.
ReportInv ==
  /\ NoCameraOnlyAfterReport
  /\ ~telemetry => reported
  /\ pc.ui \in UnavailLabels => reported

\* No thread carries Searching to a store.
RegInv == pc.monitor = "restore_store" => reg \in {"Connected", "NoCamera"}

Safe == ContactInv /\ ReportInv /\ RegInv

\* The next-state relation as a flat disjunction, one disjunct per access.
LEMMA NextCases ==
  ASSUME Next
  PROVE  \/ \E ok \in BOOLEAN : RxTelemetry(ok)
         \/ RxVideoOrHeartbeat \/ RxStamp \/ HeartbeatAges
         \/ TelemRecv \/ TelemActivityLoad \/ TelemActivityStore
         \/ MonitorSample \/ HeartbeatLostLoad \/ HeartbeatLostStore
         \/ HeartbeatRestoredLoad \/ HeartbeatRestoredCamera
         \/ HeartbeatRestoredStore
         \/ UiFrames \/ UiVideoDecodedLoad \/ UiVideoDecodedStore
         \/ UiCameraCheck
         \/ CameraUnavailableFlag \/ CameraUnavailableLoad
         \/ CameraUnavailableStore
         \/ CameraAvailableFlag \/ CameraAvailableLoad \/ CameraAvailableStore
         \/ UiRefresh
  BY DEF Next, Rx, Telem, Monitor, Ui

\* The program counter stays well typed: every thread goes to a label of its own.
LEMMA GotoType ==
  ASSUME pc \in PcOf,
         NEW thread \in {"rx", "telem", "ui", "monitor"}, NEW label,
         Goto(thread, label),
         \/ thread = "rx" /\ label \in {"recv", "stamp"}
         \/ thread = "telem" /\ label \in {"recv", "load", "store"}
         \/ thread = "ui" /\
              label \in {"frames", "video_load", "video_store", "camera",
                         "unavail_flag", "unavail_load", "unavail_store",
                         "avail_flag", "avail_load", "avail_store", "refresh"}
         \/ thread = "monitor" /\
              label \in {"sample", "lost_load", "lost_store",
                         "restore_load", "restore_camera", "restore_store"}
  PROVE  /\ pc' \in PcOf
         /\ pc'[thread] = label
         /\ \A t \in {"rx", "telem", "ui", "monitor"} \ {thread} :
              pc'[t] = pc[t]
  BY DEF PcOf, Goto

\* Queueing one more report keeps a queue of reports.
LEMMA OfferedReport ==
  ASSUME NEW q \in Seq(BOOLEAN), NEW ok \in BOOLEAN
  PROVE  Append(q, ok) \in Seq(BOOLEAN) /\ Len(Append(q, ok)) = Len(q) + 1
  BY AppendProperties

\* The type invariant of the link state machine and its four threads: in
\* particular the telemetry channel never exceeds its capacity.
THEOREM TypeCorrect == Spec => []TypeOK
<1>1. Init => TypeOK
  <2> SUFFICES ASSUME Init PROVE TypeOK
    OBVIOUS
  <2>1. pc \in PcOf
    BY DEF Init, PcOf
  <2>2. telemQ \in Seq(BOOLEAN) /\ Len(telemQ) <= TelemCap
    BY TelemCapAssumption, EmptySeq DEF Init
  <2>3. masked \in [ActivityThreads -> 0..2]
    BY DEF Init
  <2>4. QED
    BY <2>1, <2>2, <2>3 DEF Init, TypeOK, Status, Age
<1>2. TypeOK /\ [Next]_vars => TypeOK'
  <2> SUFFICES ASSUME TypeOK, [Next]_vars PROVE TypeOK'
    OBVIOUS
  <2> USE TelemCapAssumption
          DEF TypeOK, ActivityStore, ActivityThreads, Status, Age, At, machine, inputs, uiVars, monVars, telVars
  <2>1. ASSUME NEW ok \in BOOLEAN, RxTelemetry(ok) PROVE TypeOK'
    <3>1. pc' \in PcOf
      BY <2>1, GotoType DEF RxTelemetry
    <3>2. telemQ' \in Seq(BOOLEAN) /\ Len(telemQ') <= TelemCap
      <4>1. /\ Append(telemQ, ok) \in Seq(BOOLEAN)
            /\ Len(Append(telemQ, ok)) = Len(telemQ) + 1
        BY <2>1, OfferedReport
      <4>2. Len(telemQ) \in Nat
        BY LenProperties, Zenon
      <4>3. \/ Len(telemQ) < TelemCap /\ telemQ' = Append(telemQ, ok)
            \/ telemQ' = telemQ
        BY <2>1, Zenon DEF RxTelemetry
      <4>4. QED
        BY <4>1, <4>2, <4>3
    <3>3. QED
      BY <2>1, <3>1, <3>2 DEF RxTelemetry
  <2>2. CASE RxVideoOrHeartbeat
    BY <2>2, GotoType DEF RxVideoOrHeartbeat
  <2>3. CASE RxStamp
    BY <2>3, GotoType DEF RxStamp
  <2>4. CASE HeartbeatAges
    BY <2>4 DEF HeartbeatAges
  <2>5. CASE TelemRecv
    <3>1. pc' \in PcOf
      BY <2>5, GotoType DEF TelemRecv
    <3>2. Head(telemQ) \in BOOLEAN /\ telemQ' \in Seq(BOOLEAN)
          /\ Len(telemQ') <= TelemCap
      <4>1. telemQ # <<>> /\ telemQ' = Tail(telemQ)
        BY <2>5, Zenon DEF TelemRecv
      <4>2. /\ Head(telemQ) \in BOOLEAN
            /\ Tail(telemQ) \in Seq(BOOLEAN)
            /\ Len(Tail(telemQ)) = Len(telemQ) - 1
        BY <4>1, HeadTailProperties, Zenon
      <4>3. Len(telemQ) \in Nat
        BY LenProperties, Zenon
      <4>4. QED
        BY <4>1, <4>2, <4>3
    <3>3. QED
      BY <2>5, <3>1, <3>2 DEF TelemRecv
  <2>6. CASE TelemActivityLoad
    BY <2>6, GotoType DEF TelemActivityLoad
  <2>7. CASE TelemActivityStore
    BY <2>7, GotoType DEF TelemActivityStore
  <2>8. CASE MonitorSample
    <3>1. pc' \in PcOf
      BY <2>8, GotoType DEF MonitorSample
    <3>2. QED
      BY <2>8, <3>1 DEF MonitorSample
  <2>9. CASE HeartbeatLostLoad
    BY <2>9, GotoType DEF HeartbeatLostLoad
  <2>10. CASE HeartbeatLostStore
    BY <2>10, GotoType DEF HeartbeatLostStore
  <2>11. CASE HeartbeatRestoredLoad
    BY <2>11, GotoType DEF HeartbeatRestoredLoad
  <2>12. CASE HeartbeatRestoredCamera
    BY <2>12, GotoType DEF HeartbeatRestoredCamera
  <2>13. CASE HeartbeatRestoredStore
    BY <2>13, GotoType DEF HeartbeatRestoredStore
  <2>14. CASE UiFrames
    <3>1. pc' \in PcOf
      BY <2>14, GotoType DEF UiFrames
    <3>2. has_frame' \in BOOLEAN
      BY <2>14, Zenon DEF UiFrames
    <3>3. QED
      BY <2>14, <3>1, <3>2 DEF UiFrames
  <2>15. CASE UiVideoDecodedLoad
    <3>1. pc' \in PcOf
      BY <2>15, GotoType DEF UiVideoDecodedLoad
    <3>2. QED
      BY <2>15, <3>1 DEF UiVideoDecodedLoad
  <2>16. CASE UiVideoDecodedStore
    BY <2>16, GotoType DEF UiVideoDecodedStore
  <2>17. CASE UiCameraCheck
    BY <2>17, GotoType DEF UiCameraCheck
  <2>18. CASE CameraUnavailableFlag
    <3>1. pc' \in PcOf
      BY <2>18, GotoType DEF CameraUnavailableFlag
    <3>2. QED
      BY <2>18, <3>1 DEF CameraUnavailableFlag
  <2>19. CASE CameraUnavailableLoad
    BY <2>19, GotoType DEF CameraUnavailableLoad
  <2>20. CASE CameraUnavailableStore
    BY <2>20, GotoType DEF CameraUnavailableStore
  <2>21. CASE CameraAvailableFlag
    BY <2>21, GotoType DEF CameraAvailableFlag
  <2>22. CASE CameraAvailableLoad
    BY <2>22, GotoType DEF CameraAvailableLoad
  <2>23. CASE CameraAvailableStore
    BY <2>23, GotoType DEF CameraAvailableStore
  <2>24. CASE UiRefresh
    BY <2>24, GotoType DEF UiRefresh
  <2>25. CASE UNCHANGED vars
    BY <2>25 DEF vars
  <2>26. QED
    BY <2>1, <2>2, <2>3, <2>4, <2>5, <2>6, <2>7, <2>8, <2>9, <2>10, <2>11,
       <2>12, <2>13, <2>14, <2>15, <2>16, <2>17, <2>18, <2>19, <2>20, <2>21,
       <2>22, <2>23, <2>24, <2>25, NextCases
<1>3. QED
  BY <1>1, <1>2, PTL DEF Spec

-----------------------------------------------------------------------------
\* The strengthened invariant is kept by every access of every thread.
LEMMA SafeInductive == TypeOK /\ Safe /\ [Next]_vars => Safe'
<1> SUFFICES ASSUME TypeOK, Safe, [Next]_vars PROVE Safe'
  OBVIOUS
<1> USE DEF TypeOK, Status, At, machine, inputs, uiVars, monVars, telVars,
            Safe, ContactInv, ReportInv, RegInv,
            LostOnlyAfterContact, NoCameraOnlyAfterReport, UnavailLabels
<1>1. ASSUME NEW ok \in BOOLEAN, RxTelemetry(ok) PROVE Safe'
  BY <1>1, GotoType DEF RxTelemetry
<1>2. CASE RxVideoOrHeartbeat
  BY <1>2, GotoType DEF RxVideoOrHeartbeat
<1>3. CASE RxStamp
  BY <1>3, GotoType DEF RxStamp
<1>4. CASE HeartbeatAges
  BY <1>4 DEF HeartbeatAges
<1>5. CASE TelemRecv
  BY <1>5, GotoType DEF TelemRecv
<1>6. CASE TelemActivityLoad
  BY <1>6, GotoType DEF TelemActivityLoad
<1>7. CASE TelemActivityStore
  BY <1>7, GotoType DEF TelemActivityStore, ActivityStore
<1>8. CASE MonitorSample
  BY <1>8, GotoType DEF MonitorSample
<1>9. CASE HeartbeatLostLoad
  BY <1>9, GotoType DEF HeartbeatLostLoad
<1>10. CASE HeartbeatLostStore
  BY <1>10, GotoType DEF HeartbeatLostStore
<1>11. CASE HeartbeatRestoredLoad
  BY <1>11, GotoType DEF HeartbeatRestoredLoad
<1>12. CASE HeartbeatRestoredCamera
  BY <1>12, GotoType DEF HeartbeatRestoredCamera
<1>13. CASE HeartbeatRestoredStore
  BY <1>13, GotoType DEF HeartbeatRestoredStore
<1>14. CASE UiFrames
  BY <1>14, GotoType DEF UiFrames
<1>15. CASE UiVideoDecodedLoad
  BY <1>15, GotoType DEF UiVideoDecodedLoad
<1>16. CASE UiVideoDecodedStore
  BY <1>16, GotoType DEF UiVideoDecodedStore, ActivityStore
<1>17. CASE UiCameraCheck
  BY <1>17, GotoType DEF UiCameraCheck
<1>18. CASE CameraUnavailableFlag
  BY <1>18, GotoType DEF CameraUnavailableFlag
<1>19. CASE CameraUnavailableLoad
  BY <1>19, GotoType DEF CameraUnavailableLoad
<1>20. CASE CameraUnavailableStore
  BY <1>20, GotoType DEF CameraUnavailableStore
<1>21. CASE CameraAvailableFlag
  BY <1>21, GotoType DEF CameraAvailableFlag
<1>22. CASE CameraAvailableLoad
  BY <1>22, GotoType DEF CameraAvailableLoad
<1>23. CASE CameraAvailableStore
  BY <1>23, GotoType DEF CameraAvailableStore
<1>24. CASE UiRefresh
  BY <1>24, GotoType DEF UiRefresh
<1>25. CASE UNCHANGED vars
  BY <1>25 DEF vars
<1>26. QED
  BY <1>1, <1>2, <1>3, <1>4, <1>5, <1>6, <1>7, <1>8, <1>9, <1>10,
     <1>11, <1>12, <1>13, <1>14, <1>15, <1>16, <1>17, <1>18, <1>19,
     <1>20, <1>21, <1>22, <1>23, <1>24, <1>25, NextCases

LEMMA SafeCorrect == Spec => []Safe
<1>1. Init => Safe
  BY DEF Init, Safe, ContactInv, ReportInv, RegInv, LostOnlyAfterContact,
         NoCameraOnlyAfterReport, UnavailLabels
<1>2. QED
  BY <1>1, SafeInductive, TypeCorrect, PTL DEF Spec

\* No interleaving of the four threads shows SignalLost to a station that never
\* had a link, or NoCamera without a report: heartbeat_monitor's ever_connected
\* guard and the UI's look at the report still cover the stores that come accesses
\* later.
THEOREM EarnedTheorem == Spec => []StatusIsEarned
<1>1. Safe => StatusIsEarned
  BY DEF Safe, ContactInv, ReportInv, StatusIsEarned
<1>2. QED
  BY <1>1, SafeCorrect, PTL

\* Once an activity store has hit a SignalLost, the state is no longer Searching,
\* never will be, and that thread holds no decision made while it was.
MaskInv ==
  /\ ActivityMasksOnce
  /\ masked["telem"] # 0 => state # "Searching" /\ pc.telem # "store"
  /\ masked["ui"] # 0 => state # "Searching" /\ pc.ui # "video_store"

\* Only the initial state is Searching: none of the six stores brings it back.
LEMMA SearchingLeft ==
  ASSUME TypeOK, Safe, [Next]_vars, state # "Searching"
  PROVE  state' # "Searching"
<1> USE DEF machine, At
<1>1. CASE Rx \/ RxStamp \/ HeartbeatAges
  BY <1>1 DEF Rx, RxTelemetry, RxVideoOrHeartbeat, RxStamp, HeartbeatAges
<1>2. CASE Telem
  BY <1>2 DEF Telem, TelemRecv, TelemActivityLoad, TelemActivityStore,
              ActivityStore
<1>3. CASE HeartbeatRestoredStore
  BY <1>3 DEF HeartbeatRestoredStore, Safe, RegInv
<1>4. CASE Monitor /\ ~HeartbeatRestoredStore
  BY <1>4 DEF Monitor, MonitorSample, HeartbeatLostLoad, HeartbeatLostStore,
              HeartbeatRestoredLoad, HeartbeatRestoredCamera
<1>5. CASE Ui
  BY <1>5 DEF Ui, UiFrames, UiVideoDecodedLoad, UiVideoDecodedStore,
              UiCameraCheck, CameraUnavailableFlag, CameraUnavailableLoad,
              CameraUnavailableStore, CameraAvailableFlag,
              CameraAvailableLoad, CameraAvailableStore, UiRefresh,
              ActivityStore
<1>6. CASE UNCHANGED vars
  BY <1>6 DEF vars
<1>7. QED
  BY <1>1, <1>2, <1>3, <1>4, <1>5, <1>6 DEF Next

\* A store of one thread adds at most one to its own count, and only on a
\* SignalLost.
LEMMA Counted ==
  ASSUME TypeOK, NEW t \in ActivityThreads, ActivityStore(t), MaskInv,
         masked[t] = 0
  PROVE  /\ \A u \in ActivityThreads \ {t} : masked'[u] = masked[u]
         /\ masked'[t] <= 1
  BY DEF ActivityStore, TypeOK

LEMMA MaskInductive == TypeOK /\ Safe /\ MaskInv /\ [Next]_vars => MaskInv'
<1> SUFFICES ASSUME TypeOK, Safe, MaskInv, [Next]_vars PROVE MaskInv'
  OBVIOUS
<1>1. state # "Searching" => state' # "Searching"
  BY SearchingLeft
<1>2. CASE TelemActivityStore
  <2>1. /\ masked["telem"] = 0
        /\ ActivityStore("telem") /\ Goto("telem", "recv")
        /\ state' = "Connected"
    BY <1>2 DEF TelemActivityStore, ActivityStore, MaskInv, At
  <2>2. /\ masked'["ui"] = masked["ui"] /\ masked'["telem"] <= 1
    BY <2>1, Counted DEF ActivityThreads
  <2>3. pc'.telem = "recv" /\ pc'.ui = pc.ui
    BY <2>1, GotoType DEF TypeOK
  <2>4. QED
    BY <1>1, <2>1, <2>2, <2>3 DEF MaskInv, ActivityMasksOnce, ActivityThreads
<1>3. CASE UiVideoDecodedStore
  <2>1. /\ masked["ui"] = 0
        /\ ActivityStore("ui") /\ Goto("ui", "camera")
        /\ state' = "Connected"
    BY <1>3 DEF UiVideoDecodedStore, ActivityStore, MaskInv, At
  <2>2. /\ masked'["telem"] = masked["telem"] /\ masked'["ui"] <= 1
    BY <2>1, Counted DEF ActivityThreads
  <2>3. pc'.ui = "camera" /\ pc'.telem = pc.telem
    BY <2>1, GotoType DEF TypeOK
  <2>4. QED
    BY <1>1, <2>1, <2>2, <2>3 DEF MaskInv, ActivityMasksOnce, ActivityThreads
<1>4. ASSUME masked' = masked,
             masked["telem"] # 0 => pc'.telem # "store",
             masked["ui"] # 0 => pc'.ui # "video_store"
      PROVE  MaskInv'
  BY <1>1, <1>4 DEF MaskInv, ActivityMasksOnce
<1> USE DEF TypeOK, At, machine
<1>5. CASE Rx \/ RxStamp
  BY <1>4, <1>5, GotoType DEF MaskInv, Rx, RxTelemetry, RxVideoOrHeartbeat,
     RxStamp
<1>6. CASE HeartbeatAges \/ UNCHANGED vars
  BY <1>4, <1>6 DEF MaskInv, HeartbeatAges, vars
<1>7. CASE TelemRecv \/ TelemActivityLoad
  <2>1. CASE TelemRecv
    <3>1. masked' = masked /\ pc'.telem = "load" /\ pc'.ui = pc.ui
      BY <2>1, GotoType DEF TelemRecv
    <3>2. QED
      BY <1>4, <3>1 DEF MaskInv
  <2>2. CASE TelemActivityLoad
    <3>1. /\ masked' = masked /\ pc'.ui = pc.ui
          /\ state # "Searching" => pc'.telem = "recv"
      BY <2>2, GotoType DEF TelemActivityLoad
    <3>2. QED
      BY <1>4, <3>1 DEF MaskInv
  <2>3. QED
    BY <1>7, <2>1, <2>2
<1>8. CASE Monitor
  BY <1>4, <1>8, GotoType DEF MaskInv, Monitor, MonitorSample,
     HeartbeatLostLoad, HeartbeatLostStore, HeartbeatRestoredLoad,
     HeartbeatRestoredCamera, HeartbeatRestoredStore
<1>9. CASE UiFrames \/ UiVideoDecodedLoad \/ UiCameraCheck \/ UiRefresh
  BY <1>4, <1>9, GotoType DEF MaskInv, UiFrames, UiVideoDecodedLoad,
     UiCameraCheck, UiRefresh
<1>10. CASE \/ CameraUnavailableFlag \/ CameraUnavailableLoad
            \/ CameraUnavailableStore \/ CameraAvailableFlag
            \/ CameraAvailableLoad \/ CameraAvailableStore
  BY <1>4, <1>10, GotoType DEF MaskInv, CameraUnavailableFlag,
     CameraUnavailableLoad, CameraUnavailableStore, CameraAvailableFlag,
     CameraAvailableLoad, CameraAvailableStore
<1>11. QED
  BY <1>2, <1>3, <1>5, <1>6, <1>7, <1>8, <1>9, <1>10 DEF Next, Telem, Ui

\* Telemetry and video activity each mask a lost link at most once in the life of
\* the station: state leaves Searching for good, and the one decision that a thread
\* may have made before is used up by its store.
THEOREM MasksTheorem == Spec => []ActivityMasksOnce
<1>1. Init => MaskInv
  BY DEF Init, MaskInv, ActivityMasksOnce, ActivityThreads
<1>2. MaskInv => ActivityMasksOnce
  BY DEF MaskInv
<1>3. QED
  BY <1>1, <1>2, MaskInductive, SafeCorrect, TypeCorrect, PTL DEF Spec
==============================================================================
