-------------------------------- MODULE Ground --------------------------------
(***************************************************************************)
(* The threads of the ground station (rpv-ground/src/main.rs) from the     *)
(* socket to the screen, and their end: rx_dispatcher offers packets to    *)
(* bounded channels and drops what does not fit, VideoReceiver waits for   *)
(* room before the decoder, the decoder drops frames the UI does not take, *)
(* and the UI keeps a few of them, shows one per update and ends with the  *)
(* window.  main then joins the threads in a fixed order.                  *)
(*                                                                         *)
(* NAL units are numbered as VideoReceiver emits them.  What it makes of   *)
(* shards is in module VideoReceiver; here a packet ends in any number of  *)
(* NAL units.  A decoded frame is the number of its NAL unit and its size  *)
(* in multiples of the configured one.                                     *)
(***************************************************************************)
EXTENDS Integers, Sequences

CONSTANTS
  PayloadCap, TelemCap,  \* capacities of the payload channels (256, 4)
  NalCap,     \* capacity of the channel to the decoder (16)
  FrameCap,   \* capacity of the channel to the UI (8)
  BufferLen,  \* frames the UI keeps (3)
  MaxNals     \* bound: NAL units that are emitted

ASSUME GroundAssumption ==
  /\ {PayloadCap, TelemCap, NalCap, FrameCap, BufferLen} \subseteq Nat \ {0}
  /\ MaxNals \in Nat

VARIABLES
  running,   \* the flag Ctrl-C clears
  window,    \* run_native has not returned
  wire,      \* what recv finds at the socket
  payloads,  \* packets in the channel to VideoReceiver
  telem,     \* packets in the channel to TelemetryReceiver
  pc,        \* what each thread does
  emitted,   \* history: NAL units emitted so far
  todo,      \* NAL units that emit_block still has to send
  nals,      \* channel to the decoder
  codec,     \* NAL units inside libavcodec
  frames,    \* channel to the UI
  buffer,    \* RpvApp.frame_buffer
  gpu,       \* size of the GPU's textures, 0 before they are made
  size,      \* config.video_width and video_height
  shown,     \* history: the frame that was uploaded last
  joined     \* the threads main has joined

receiver == <<payloads, emitted, todo>>
decoder  == <<nals, codec, frames>>
ui       == <<window, buffer, gpu, size, shown>>
vars     == <<running, window, wire, payloads, telem, pc, emitted, todo, nals, codec,
              frames, buffer, gpu, size, shown, joined>>

\* In the order in which main joins them.
Joins == <<"rx_dispatcher", "video_receiver", "video_decoder", "telemetry", "rc_joystick",
           "heartbeat_sender", "heartbeat_monitor", "mavlink_downlink", "mavlink_uplink">>

\* Threads that look at running every second at least, whatever else happens, and end
\* when it is cleared: main waits for them only until then.
Loops   == {"rc_joystick", "heartbeat_sender", "heartbeat_monitor",
            "mavlink_downlink", "mavlink_uplink"}
Threads == {"rx_dispatcher", "video_receiver", "video_decoder", "telemetry"}

\* A size the decoder lets through: at most twice the configured one.
Sizes == {1, 2}
Frame == [n : 1..MaxNals, size : Sizes]

TypeOK ==
  /\ running \in BOOLEAN
  /\ window \in BOOLEAN
  /\ wire \in {"none", "video", "telemetry", "error"}
  /\ payloads \in 0..PayloadCap
  /\ telem \in 0..TelemCap
  /\ pc \in [Threads -> {"start", "loop", "reconnect", "decode", "ended"}]
  /\ emitted \in 0..MaxNals
  /\ todo \in Seq(1..MaxNals) /\ Len(todo) <= MaxNals
  /\ nals \in Seq(1..MaxNals) /\ Len(nals) <= NalCap
  /\ codec \in Seq(1..MaxNals)
  /\ frames \in Seq(Frame) /\ Len(frames) <= FrameCap
  /\ buffer \in Seq(Frame) /\ Len(buffer) <= BufferLen
  /\ gpu \in Sizes \cup {0}
  /\ size \in Sizes
  /\ shown \in 0..MaxNals
  /\ joined \in 0..Len(Joins)

Init ==
  /\ running = TRUE
  /\ window = TRUE
  /\ wire = "none"
  /\ payloads = 0
  /\ telem = 0
  /\ pc = [t \in Threads |-> IF t = "video_decoder" THEN "start" ELSE "loop"]
  /\ emitted = 0
  /\ todo = <<>>
  /\ nals = <<>>
  /\ codec = <<>>
  /\ frames = <<>>
  /\ buffer = <<>>
  /\ gpu = 0
  /\ size = 1
  /\ shown = 0
  /\ joined = 0

Goto(t, label) == pc' = [pc EXCEPT ![t] = label]
Ended(t)       == pc[t] = "ended"

Interrupt ==
  /\ running
  /\ running' = FALSE
  /\ UNCHANGED <<ui, wire, telem, receiver, decoder, pc, joined>>

Arrive ==
  /\ wire = "none"
  /\ wire' \in {"video", "telemetry", "error"}
  /\ UNCHANGED <<running, ui, telem, receiver, decoder, pc, joined>>

-----------------------------------------------------------------------------
(* rx_dispatcher.                                                          *)

\* Mutated form: a send that waits for room.
RecvVideoWaiting ==
  /\ pc["rx_dispatcher"] = "loop" /\ running
  /\ wire = "video"
  /\ payloads < PayloadCap
  /\ wire' = "none"
  /\ payloads' = payloads + 1
  /\ UNCHANGED <<running, ui, telem, emitted, todo, decoder, pc, joined>>

RecvVideo ==
  /\ pc["rx_dispatcher"] = "loop" /\ running
  /\ wire = "video"
  /\ wire' = "none"
  /\ payloads' = IF payloads < PayloadCap THEN payloads + 1 ELSE payloads
  /\ UNCHANGED <<running, ui, telem, emitted, todo, decoder, pc, joined>>

RecvTelemetry ==
  /\ pc["rx_dispatcher"] = "loop" /\ running
  /\ wire = "telemetry"
  /\ wire' = "none"
  /\ telem' = IF telem < TelemCap THEN telem + 1 ELSE telem
  /\ UNCHANGED <<running, ui, receiver, decoder, pc, joined>>

RecvError ==
  /\ pc["rx_dispatcher"] = "loop" /\ running
  /\ wire = "error"
  /\ wire' = "none"
  /\ Goto("rx_dispatcher", "reconnect")
  /\ UNCHANGED <<running, ui, telem, receiver, decoder, joined>>

\* UDP and raw sockets reconnect at once; TCP waits for the camera and retries,
\* whether running was cleared or not.
Reconnected ==
  /\ pc["rx_dispatcher"] = "reconnect"
  /\ Goto("rx_dispatcher", "loop")
  /\ UNCHANGED <<running, ui, wire, telem, receiver, decoder, joined>>

\* Its senders of the two payload channels go with it.
DispatcherEnds ==
  /\ pc["rx_dispatcher"] = "loop" /\ ~running
  /\ Goto("rx_dispatcher", "ended")
  /\ UNCHANGED <<running, ui, wire, telem, receiver, decoder, joined>>

-----------------------------------------------------------------------------
(* VideoReceiver and TelemetryReceiver.  They never look at running.       *)

\* The NAL units that a packet emits: any number, as it may complete the head of a
\* run of blocks.
Emits == 0 .. (MaxNals - emitted)

ReceiverTakes ==
  /\ pc["video_receiver"] = "loop"
  /\ todo = <<>>
  /\ payloads > 0
  /\ payloads' = payloads - 1
  /\ \E k \in Emits :
       /\ todo' = [i \in 1..k |-> emitted + i]
       /\ emitted' = emitted + k
  /\ UNCHANGED <<running, ui, wire, telem, decoder, pc, joined>>

\* send waits for room as long as the decoder lives; its error is ignored.
ReceiverSends ==
  /\ todo # <<>>
  /\ \/ Ended("video_decoder") /\ UNCHANGED nals
     \/ ~Ended("video_decoder") /\ Len(nals) < NalCap /\ nals' = Append(nals, Head(todo))
  /\ todo' = Tail(todo)
  /\ UNCHANGED <<running, ui, wire, payloads, telem, emitted, codec, frames, pc, joined>>

\* Mutated form: main keeps a sender, as it does of the MAVLink channel.
PayloadsOpenInMain == TRUE

PayloadsOpen == ~Ended("rx_dispatcher")

ReceiverEnds ==
  /\ pc["video_receiver"] = "loop"
  /\ todo = <<>> /\ payloads = 0 /\ ~PayloadsOpen
  /\ Goto("video_receiver", "ended")
  /\ UNCHANGED <<running, ui, wire, telem, receiver, decoder, joined>>

TelemetryTakes ==
  /\ pc["telemetry"] = "loop"
  /\ telem > 0
  /\ telem' = telem - 1
  /\ UNCHANGED <<running, ui, wire, receiver, decoder, pc, joined>>

TelemetryEnds ==
  /\ pc["telemetry"] = "loop"
  /\ telem = 0 /\ Ended("rx_dispatcher")
  /\ Goto("telemetry", "ended")
  /\ UNCHANGED <<running, ui, wire, telem, receiver, decoder, joined>>

-----------------------------------------------------------------------------
(* The decoder.                                                            *)

\* A decoder is found and opened, or the thread ends, and the channel with it.
DecoderStarts ==
  /\ pc["video_decoder"] = "start"
  /\ \/ Goto("video_decoder", "loop") /\ UNCHANGED nals
     \/ Goto("video_decoder", "ended") /\ nals' = <<>>
  /\ UNCHANGED <<running, ui, wire, telem, receiver, codec, frames, joined>>

DecoderTakes ==
  /\ pc["video_decoder"] = "loop"
  /\ nals # <<>>
  /\ nals' = Tail(nals)
  /\ codec' = Append(codec, Head(nals))
  /\ Goto("video_decoder", "decode")
  /\ UNCHANGED <<running, ui, wire, telem, receiver, frames, joined>>

\* libavcodec gives a frame: it is dropped when it has no picture in it or is
\* larger than twice the configured size, or when the channel is full.
process_decoded_frame ==
  /\ pc["video_decoder"] = "decode"
  /\ codec # <<>>
  /\ codec' = Tail(codec)
  /\ \/ UNCHANGED frames
     \/ /\ Len(frames) < FrameCap
        /\ \E s \in Sizes : frames' = Append(frames, [n |-> Head(codec), size |-> s])
  /\ UNCHANGED <<running, ui, wire, telem, receiver, nals, pc, joined>>

\* libavcodec has no more frames for now, or reports an error.
Decoded ==
  /\ pc["video_decoder"] = "decode"
  /\ Goto("video_decoder", "loop")
  /\ UNCHANGED <<running, ui, wire, telem, receiver, decoder, joined>>

DecoderEnds ==
  /\ pc["video_decoder"] = "loop"
  /\ nals = <<>> /\ Ended("video_receiver")
  /\ Goto("video_decoder", "ended")
  /\ UNCHANGED <<running, ui, wire, telem, receiver, decoder, joined>>

-----------------------------------------------------------------------------
(* RpvApp::update.                                                         *)

\* The newest frames stay.
Newest(s) == SubSeq(s, Len(s) - (IF Len(s) < BufferLen THEN Len(s) ELSE BufferLen) + 1, Len(s))

Filled     == Newest(buffer \o frames)
ensure_gpu_resources == IF gpu = 0 THEN size ELSE gpu

\* Mutated form: the frame shown stays in the buffer.
ShowNextKeeping ==
  /\ Filled # <<>>
  /\ Head(Filled).size = ensure_gpu_resources
  /\ shown' = Head(Filled).n
  /\ buffer' = Filled
  /\ gpu' = ensure_gpu_resources
  /\ UNCHANGED size

\* The oldest frame is uploaded.
ShowNext ==
  /\ Filled # <<>>
  /\ Head(Filled).size = ensure_gpu_resources
  /\ shown' = Head(Filled).n
  /\ buffer' = Tail(Filled)
  /\ gpu' = ensure_gpu_resources
  /\ UNCHANGED size

\* Mutated form: the textures are made anew for the old size.
ResizeKeepsSize ==
  /\ Filled # <<>>
  /\ Head(Filled).size # ensure_gpu_resources
  /\ gpu' = 0
  /\ buffer' = Filled
  /\ UNCHANGED <<size, shown>>

\* A frame of another size waits for textures of its size.
Resize ==
  /\ Filled # <<>>
  /\ Head(Filled).size # ensure_gpu_resources
  /\ gpu' = 0
  /\ size' = Head(Filled).size
  /\ buffer' = Filled
  /\ UNCHANGED shown

ShowNothing ==
  /\ Filled = <<>>
  /\ gpu' = ensure_gpu_resources
  /\ buffer' = Filled
  /\ UNCHANGED <<size, shown>>

process_frames ==
  /\ window /\ running
  /\ frames' = <<>>
  /\ ShowNext \/ Resize \/ ShowNothing
  /\ UNCHANGED <<running, window, wire, telem, receiver, nals, codec, pc, joined>>

\* The window is closed by update once running is cleared, or by the user.
CloseWindow ==
  /\ window
  /\ window' = FALSE
  /\ UNCHANGED <<running, buffer, gpu, size, shown, wire, telem, receiver, decoder, pc, joined>>

-----------------------------------------------------------------------------
(* main, after run_native.                                                 *)

\* Mutated form: the threads are left to themselves, not joined.
JoinDetached ==
  /\ ~window
  /\ joined < Len(Joins)
  /\ joined' = joined + 1
  /\ UNCHANGED <<running, ui, wire, telem, receiver, decoder, pc>>

Join ==
  /\ ~window
  /\ joined < Len(Joins)
  /\ LET t == Joins[joined + 1]
     IN IF t \in Loops THEN ~running ELSE Ended(t)
  /\ joined' = joined + 1
  /\ UNCHANGED <<running, ui, wire, telem, receiver, decoder, pc>>

Dispatcher == RecvVideo \/ RecvTelemetry \/ RecvError \/ DispatcherEnds
Receiver   == ReceiverTakes \/ ReceiverSends \/ ReceiverEnds
Telemetry  == TelemetryTakes \/ TelemetryEnds
Decoder    == DecoderStarts \/ DecoderTakes \/ process_decoded_frame \/ Decoded \/ DecoderEnds
Ui         == process_frames \/ CloseWindow

Next ==
  \/ Interrupt \/ Arrive
  \/ Dispatcher \/ Reconnected
  \/ Receiver \/ Telemetry
  \/ Decoder
  \/ Ui \/ Join

Spec == Init /\ [][Next]_vars

\* Every thread that can go on does: update asks to be called again within 100 ms, and
\* closes the window once running is cleared.  libavcodec may hang, a camera may
\* never come back, and users need not close anything.
FairSpec ==
  /\ Spec
  /\ WF_vars(Dispatcher)
  /\ WF_vars(Receiver)
  /\ WF_vars(Telemetry)
  /\ WF_vars(DecoderStarts)
  /\ WF_vars(DecoderTakes)
  /\ WF_vars(DecoderEnds)
  /\ WF_vars(process_frames)
  /\ WF_vars(~running /\ CloseWindow)
  /\ WF_vars(Join)

-----------------------------------------------------------------------------
(* Properties.                                                             *)

CodecReturns   == []<>(pc["video_decoder"] # "decode")
CameraIsBack   == []<>(pc["rx_dispatcher"] # "reconnect")

\* After Ctrl-C main joins every thread, although the receiver and the decoder look
\* at channels only: each ends when the one before it has dropped its sender, in the
\* order in which main joins them.  It takes a camera, if TCP is being reconnected,
\* and a libavcodec that returns.
ShutdownCompletes ==
  CodecReturns /\ CameraIsBack => (~running ~> joined = Len(Joins))

\* Closing the window does not end the program: until Ctrl-C main gets no further
\* than its first join, and all that reads the socket keeps working.
WindowAloneEndsNothing == running => joined = 0 /\ ~Ended("rx_dispatcher") /\ ~Ended("video_receiver")

\* A decoder that hangs for ever stops the video, not the reception: what arrives is
\* taken from the socket, and telemetry from its channel.
HungDecoderStopsOnlyVideo ==
  /\ wire # "none" ~> (wire = "none" \/ ~running \/ pc["rx_dispatcher"] = "reconnect")
  /\ telem = TelemCap ~> telem < TelemCap

\* Frames are shown in the order of their NAL units and none twice: not through the
\* queue that drops the newest and the one that drops the oldest, nor when the
\* textures are made anew.
ShownInOrder == [][process_frames /\ ShowNext => shown' > shown]_vars

\* When no more NAL units are emitted, nothing stays behind: every frame still queued
\* is shown or superseded, at the size it has, as long as the window is open.
BacklogIsShown ==
  CodecReturns => <>[](nals = <<>> /\ frames = <<>> /\ buffer = <<>>) \/ <>(~window \/ ~running)
===============================================================================
