------------------------------- MODULE Downlink -------------------------------
(***************************************************************************)
(* The threads of the camera (rpv-cam/src/main.rs) from the flight         *)
(* controller's reader to the high-priority channel, and their shutdown:   *)
(* fc_reader offers MAVLink frames and telemetry to two bounded channels,  *)
(* the forwarder and telemetry_sender put messages for the ground into a   *)
(* third, whose receiver video_tx::run owns, and main joins the threads in *)
(* a fixed order.                                                          *)
(*                                                                         *)
(* What is in a message does not matter here, only of which kind it is.    *)
(* video_tx is reduced to its reads and how it ends; VideoTx models what it*)
(* does.                                                                   *)
(***************************************************************************)
EXTENDS Integers, Sequences

CONSTANTS
  HpCap,       \* capacity of the high-priority channel (256)
  DownlinkCap, \* capacity of raw_downlink (64)
  TelemCap     \* capacity of telem (4)

ASSUME DownlinkAssumption ==
  /\ HpCap \in Nat \ {0}
  /\ DownlinkCap \in Nat \ {0}
  /\ TelemCap \in Nat \ {0}

VARIABLES
  running,   \* the flag Ctrl-C clears
  downlink,  \* frames in raw_downlink
  telem,     \* samples in telem
  hp,        \* the high-priority channel
  pc,        \* what each thread does
  restarted, \* video_tx has started another camera process
  joined     \* the threads main has joined

vars == <<running, downlink, telem, hp, pc, restarted, joined>>

\* In the order in which main joins them.
Joins == <<"rx_dispatcher", "video_tx", "telemetry_sender", "heartbeat_monitor",
           "heartbeat_sender", "mavlink_forwarder">>

\* Threads that look at running every second at least, whatever else happens (recv
\* has a timeout on every transport), and use no channel of these.
Loops   == {"rx_dispatcher", "heartbeat_monitor", "heartbeat_sender"}
Senders == {"telemetry_sender", "mavlink_forwarder"}
\* fc_reader and its supervisor are not joined.
Threads == Loops \cup Senders \cup {"video_tx", "fc_reader"}

TypeOK ==
  /\ running \in BOOLEAN
  /\ downlink \in 0..DownlinkCap
  /\ telem \in 0..TelemCap
  /\ hp \in Seq({"telemetry", "mavlink"})
  /\ Len(hp) <= HpCap
  /\ pc \in [Threads -> {"loop", "read", "send", "spin", "ended"}]
  /\ restarted \in BOOLEAN
  /\ joined \in 0..Len(Joins)

Init ==
  /\ running = TRUE
  /\ downlink = 0
  /\ telem = 0
  /\ hp = <<>>
  /\ pc = [t \in Threads |-> "loop"]
  /\ restarted = FALSE
  /\ joined = 0

Goto(t, label) == pc' = [pc EXCEPT ![t] = label]

Interrupt ==
  /\ running
  /\ running' = FALSE
  /\ UNCHANGED <<downlink, telem, hp, pc, restarted, joined>>

-----------------------------------------------------------------------------
(* fc_reader.                                                              *)

\* A frame parsed from the serial stream is dropped if the channel is full.
ReadFrame ==
  /\ pc["fc_reader"] = "loop"
  /\ downlink' = IF downlink < DownlinkCap THEN downlink + 1 ELSE downlink
  /\ UNCHANGED <<running, telem, hp, pc, restarted, joined>>

\* Every 100 ms, a copy of the telemetry collected so far.
ReadTelemetry ==
  /\ pc["fc_reader"] = "loop"
  /\ telem' = IF telem < TelemCap THEN telem + 1 ELSE telem
  /\ UNCHANGED <<running, downlink, hp, pc, restarted, joined>>

LoopEnds(t) ==
  /\ pc[t] = "loop" /\ ~running
  /\ Goto(t, "ended")
  /\ UNCHANGED <<running, downlink, telem, hp, restarted, joined>>

-----------------------------------------------------------------------------
(* video_tx, which owns hp_rx and never receives from it.                  *)

\* Mutated form: another thread holds hp_rx too, so that it outlives video_tx.
HpOpenAlways == TRUE

HpOpen == pc["video_tx"] # "ended"

\* The camera process has died and another one is started, whose stdout is not set
\* to O_NONBLOCK.
VideoRestarts ==
  /\ pc["video_tx"] = "loop" /\ running
  /\ restarted' = TRUE
  /\ UNCHANGED <<running, downlink, telem, hp, pc, joined>>

\* The read, and what is done with the data, before running is looked at again.
VideoReads ==
  /\ pc["video_tx"] = "loop" /\ running
  /\ Goto("video_tx", "read")
  /\ UNCHANGED <<running, downlink, telem, hp, restarted, joined>>

VideoReturns ==
  /\ pc["video_tx"] = "read"
  /\ Goto("video_tx", "loop")
  /\ UNCHANGED <<running, downlink, telem, hp, restarted, joined>>

\* The end of run drops hp_rx, and what the channel holds: after running was
\* cleared, or at any time when the camera cannot be restarted or the thread panics.
VideoEnds ==
  /\ pc["video_tx"] \in {"loop", "read"}
  /\ Goto("video_tx", "ended")
  /\ hp' = <<>>
  /\ UNCHANGED <<running, downlink, telem, restarted, joined>>

\* An IDR unit is put back behind its parameter sets for ever.
VideoSpins ==
  /\ pc["video_tx"] = "read"
  /\ Goto("video_tx", "spin")
  /\ UNCHANGED <<running, downlink, telem, hp, restarted, joined>>

Video == VideoRestarts \/ VideoReads \/ VideoReturns \/ VideoEnds \/ VideoSpins

-----------------------------------------------------------------------------
(* telemetry_sender and the forwarder.  hp_tx.send waits for room as long  *)
(* as the receiver exists: a thread in "send" may be blocked.              *)

CanPut == HpOpen /\ Len(hp) < HpCap
Put(m) == hp' = Append(hp, m)

\* All samples are taken out of telem, the last one is used.
TelemetryBuilds ==
  /\ pc["telemetry_sender"] = "loop" /\ running
  /\ telem' = 0
  /\ Goto("telemetry_sender", "send")
  /\ UNCHANGED <<running, downlink, hp, restarted, joined>>

\* An error of send is ignored.
TelemetrySends ==
  /\ pc["telemetry_sender"] = "send"
  /\ \/ CanPut /\ Put("telemetry")
     \/ ~HpOpen /\ UNCHANGED hp
  /\ Goto("telemetry_sender", "loop")
  /\ UNCHANGED <<running, downlink, telem, restarted, joined>>

ForwarderTakes ==
  /\ pc["mavlink_forwarder"] = "loop" /\ running
  /\ downlink > 0
  /\ downlink' = downlink - 1
  /\ Goto("mavlink_forwarder", "send")
  /\ UNCHANGED <<running, telem, hp, restarted, joined>>

\* An error of send ends the forwarder.
ForwarderSends ==
  /\ pc["mavlink_forwarder"] = "send"
  /\ \/ CanPut /\ Put("mavlink") /\ Goto("mavlink_forwarder", "loop")
     \/ ~HpOpen /\ UNCHANGED hp /\ Goto("mavlink_forwarder", "ended")
  /\ UNCHANGED <<running, downlink, telem, restarted, joined>>

\* recv_timeout reports that all senders are gone only when the channel is empty.
ForwarderDisconnected ==
  /\ pc["mavlink_forwarder"] = "loop"
  /\ pc["fc_reader"] = "ended" /\ downlink = 0
  /\ Goto("mavlink_forwarder", "ended")
  /\ UNCHANGED <<running, downlink, telem, hp, restarted, joined>>

Telemetry == TelemetryBuilds \/ TelemetrySends \/ LoopEnds("telemetry_sender")
Forwarder == ForwarderTakes \/ ForwarderSends \/ ForwarderDisconnected
               \/ LoopEnds("mavlink_forwarder")

-----------------------------------------------------------------------------
(* main, after it has seen that running is cleared.                        *)

Join ==
  /\ ~running
  /\ joined < Len(Joins)
  /\ pc[Joins[joined + 1]] = "ended"
  /\ joined' = joined + 1
  /\ UNCHANGED <<running, downlink, telem, hp, pc, restarted>>

Next ==
  \/ Interrupt
  \/ ReadFrame \/ ReadTelemetry
  \/ \E t \in Loops \cup {"fc_reader"} : LoopEnds(t)
  \/ Video
  \/ Telemetry
  \/ Forwarder
  \/ Join

Spec == Init /\ [][Next]_vars

\* Every loop sleeps or waits for at most 200 ms.  video_tx is bound to end only when
\* it looks at running and finds it cleared; and to come back from a read only as long
\* as it reads from the first camera process, whose stdout does not block.
FairSpec ==
  /\ Spec
  /\ \A t \in Loops \cup {"fc_reader"} : WF_vars(LoopEnds(t))
  /\ WF_vars(~running /\ pc["video_tx"] = "loop" /\ VideoEnds)
  /\ WF_vars(~restarted /\ VideoReturns)
  /\ WF_vars(Telemetry)
  /\ WF_vars(Forwarder)
  /\ WF_vars(Join)

-----------------------------------------------------------------------------
(* Properties.                                                             *)

\* After Ctrl-C main joins all threads, although two of them may be blocked for good
\* in a channel nobody reads: video_tx is joined before them, and its end frees
\* them.  Only a video_tx that never looks at running again prevents it: one that puts
\* back an IDR unit for ever, or that waits in the read of a restarted camera for ever.
ShutdownCompletes ==
  ~running ~> \/ joined = Len(Joins)
              \/ pc["video_tx"] = "spin"
              \/ [](restarted /\ pc["video_tx"] = "read")

\* A full channel blocks the forwarder, but never ends it: while the program runs
\* it ends only after video_tx has.
BackpressureEndsNobody ==
  running /\ pc["mavlink_forwarder"] = "ended" => pc["video_tx"] = "ended"
===============================================================================
