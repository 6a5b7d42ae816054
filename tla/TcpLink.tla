------------------------------- MODULE TcpLink -------------------------------
(***************************************************************************)
(* The TCP transport (rpv-proto/src/tcpsock.rs) from the camera to the     *)
(* ground station: the threads of the camera that send frames on one       *)
(* stream, the byte stream, and the ground's rx_dispatcher, which cuts     *)
(* frames out of it and accepts a new connection after an error.           *)
(*                                                                         *)
(* A stream is a sequence of cells.  The length prefix of a frame is one   *)
(* cell (four bytes in the code), a cell of the payload stands for any     *)
(* bytes that are read as one prefix once framing is lost: a value above   *)
(* MaxLen is a length recv refuses.  A payload begins with such a cell,    *)
(* since it begins with an L2 header, whose magic and type are not zero.   *)
(*                                                                         *)
(* Connections are numbered in the order in which the camera makes them;   *)
(* the kernel completes the handshake, so the camera may write to one the  *)
(* ground has not accepted yet.                                            *)
(***************************************************************************)
EXTENDS Integers, Sequences, FiniteSets, SequencesExt

CONSTANTS
  Senders,   \* threads of the camera that send: video_tx, heartbeat_sender
  MaxLen,    \* the largest frame recv accepts, in cells
  Inner,     \* values of the cells of a payload after its first
  ReadMax,   \* the most one read returns, in cells
  Conns,     \* bound: connections the camera makes
  Frames     \* bound: frames the senders begin

ASSUME TcpAssumption ==
  /\ IsFiniteSet(Senders)
  /\ MaxLen \in Nat \ {0}
  /\ Inner \subseteq 0..MaxLen + 1
  /\ ReadMax \in Nat \ {0}
  /\ Conns \in Nat \ {0}
  /\ Frames \in Nat

VARIABLES
  slow,      \* writes of the camera may time out
  up,        \* the camera's process runs
  pc,        \* what each sender writes next
  frame,     \* the payload each sender sends
  begun,     \* frames begun so far
  cam,       \* the camera's latest connection
  wire,      \* of each connection: cells written and not read
  link,      \* of each connection: how the ground's kernel sees it
  gnd,       \* the connection in the ground's `stream'
  read_buf,  \* cells read and not consumed
  rx,        \* rx_dispatcher: in recv, or in the loop around reconnect
  written,   \* history, of each connection: payloads in the order begun
  got,       \* history, of each connection: payloads recv returned
  disturbed  \* history: connections on which framing was endangered

camera == <<slow, up, pc, frame, begun, cam>>
ground == <<gnd, read_buf, rx, got>>
vars   == <<slow, up, pc, frame, begun, cam, wire, link, gnd, read_buf, rx,
            written, got, disturbed>>

TooLarge == MaxLen + 1
Payload  == {<<TooLarge>> \o rest :
               rest \in UNION {[1..n -> Inner] : n \in 0..MaxLen - 1}}
ConnIds  == 1..Conns

TypeOK ==
  /\ slow \in BOOLEAN
  /\ up \in BOOLEAN
  /\ pc \in [Senders -> {"idle", "prefix", "body"}]
  /\ frame \in [Senders -> Seq(Nat)]
  /\ begun \in 0..Frames
  /\ cam \in ConnIds
  /\ wire \in [ConnIds -> Seq(0..TooLarge)]
  /\ link \in [ConnIds -> {"none", "open", "closed", "reset"}]
  /\ gnd \in 1..cam
  /\ read_buf \in Seq(0..TooLarge)
  /\ rx \in {"recv", "reconnect"}
  /\ written \in [ConnIds -> Seq(Payload)]
  /\ got \in [ConnIds -> Seq(Seq(0..TooLarge))]
  /\ disturbed \subseteq ConnIds

\* The camera has connected, and new_server has accepted the connection.
Init ==
  /\ slow \in BOOLEAN
  /\ up = TRUE
  /\ pc = [s \in Senders |-> "idle"]
  /\ frame = [s \in Senders |-> <<>>]
  /\ begun = 0
  /\ cam = 1
  /\ wire = [c \in ConnIds |-> <<>>]
  /\ link = [c \in ConnIds |-> IF c = 1 THEN "open" ELSE "none"]
  /\ gnd = 1
  /\ read_buf = <<>>
  /\ rx = "recv"
  /\ written = [c \in ConnIds |-> <<>>]
  /\ got = [c \in ConnIds |-> <<>>]
  /\ disturbed = {}

-----------------------------------------------------------------------------
(* The camera's senders: send_with_buf.                                    *)

\* The clone of the stream; every process of the camera has one connection.
SendBegins(s) ==
  /\ up /\ link[cam] = "open"
  /\ pc[s] = "idle" /\ begun < Frames
  /\ \E p \in Payload : frame' = [frame EXCEPT ![s] = p]
  /\ begun' = begun + 1
  /\ pc' = [pc EXCEPT ![s] = "prefix"]
  /\ UNCHANGED <<slow, up, cam, wire, link, written, disturbed, ground>>

\* What the two calls of write_all are given.
Cells(s) == IF pc[s] = "prefix" THEN <<Len(frame[s])>> ELSE frame[s]

AnotherInFrame(s) == \E t \in Senders \ {s} : pc[t] = "body"

\* write_all succeeds.
Write(s) ==
  /\ up /\ link[cam] = "open" /\ pc[s] # "idle"
  /\ wire' = [wire EXCEPT ![cam] = @ \o Cells(s)]
  /\ IF pc[s] = "prefix"
     THEN /\ pc' = [pc EXCEPT ![s] = "body"]
          /\ written' = [written EXCEPT ![cam] = Append(@, frame[s])]
     ELSE /\ pc' = [pc EXCEPT ![s] = "idle"]
          /\ UNCHANGED written
  /\ disturbed' = disturbed \cup IF AnotherInFrame(s) THEN {cam} ELSE {}
  /\ UNCHANGED <<slow, up, frame, begun, cam, link, ground>>

\* write_all fails: on a connection that is gone, or after it has written a
\* part and the rest has timed out.  Both callers ignore the error.
WriteFails(s) ==
  /\ up /\ pc[s] # "idle"
  /\ \E n \in 0..Len(Cells(s)) - 1 :
       /\ n > 0 => slow /\ link[cam] = "open"
       /\ slow \/ link[cam] # "open"
       /\ wire' = [wire EXCEPT ![cam] = @ \o SubSeq(Cells(s), 1, n)]
       /\ disturbed' = disturbed
                       \cup IF pc[s] = "body" \/ n > 0 THEN {cam} ELSE {}
  /\ pc' = [pc EXCEPT ![s] = "idle"]
  /\ UNCHANGED <<slow, up, frame, begun, cam, link, written, ground>>

Camera == \E s \in Senders : SendBegins(s) \/ Write(s) \/ WriteFails(s)

-----------------------------------------------------------------------------
(* What happens to the camera and to the link (external).                  *)

\* The network drops out until both ends have given the connection up; what
\* was under way is lost.
LinkLost ==
  /\ link[cam] = "open"
  /\ link' = [link EXCEPT ![cam] = "reset"]
  /\ \E n \in 0..Len(wire[cam]) :
       wire' = [wire EXCEPT ![cam] = SubSeq(@, 1, n)]
  /\ UNCHANGED <<camera, ground, written, disturbed>>

\* The camera's process ends: its kernel closes the connection in order, or
\* resets it when received data was left unread or the node lost power.
CameraEnds ==
  /\ up /\ cam < Conns
  /\ up' = FALSE
  /\ pc' = [s \in Senders |-> "idle"]
  /\ link' \in IF link[cam] = "open"
               THEN {[link EXCEPT ![cam] = how] : how \in {"closed", "reset"}}
               ELSE {link}
  /\ UNCHANGED <<slow, frame, begun, cam, wire, ground, written, disturbed>>

\* It is started again and connects (main, the loop around new_client).
CameraConnects ==
  /\ ~up
  /\ up' = TRUE
  /\ cam' = cam + 1
  /\ link' = [link EXCEPT ![cam + 1] = "open"]
  /\ UNCHANGED <<slow, pc, frame, begun, wire, ground, written, disturbed>>

World == LinkLost \/ CameraEnds \/ CameraConnects

-----------------------------------------------------------------------------
(* The ground's rx_dispatcher.  A recv that returns Ok(0), on a timeout or *)
(* at the end of a closed stream, is ignored and changes nothing.          *)

Oversize == read_buf # <<>> /\ read_buf[1] > MaxLen

\* Mutated form: the body is complete one cell later.
HasFrameLate ==
  read_buf # <<>> /\ ~Oversize /\ Len(read_buf) > read_buf[1] + 1

HasFrame == read_buf # <<>> /\ ~Oversize /\ Len(read_buf) > read_buf[1]

\* Mutated form: the last cell of the frame is not drained.
RecvFrameKeepsOne ==
  /\ rx = "recv" /\ HasFrame
  /\ LET n == read_buf[1] IN
       /\ got' = [got EXCEPT ![gnd] = Append(@, SubSeq(read_buf, 2, n + 1))]
       /\ read_buf' = SubSeq(read_buf, n + 1, Len(read_buf))
  /\ UNCHANGED <<camera, wire, link, gnd, rx, written, disturbed>>

\* recv returns a frame; one of length zero looks like a timeout.
RecvFrame ==
  /\ rx = "recv" /\ HasFrame
  /\ LET n == read_buf[1] IN
       /\ got' = IF n = 0 THEN got
                 ELSE [got EXCEPT ![gnd] = Append(@, SubSeq(read_buf, 2, n + 1))]
       /\ read_buf' = SubSeq(read_buf, n + 2, Len(read_buf))
  /\ UNCHANGED <<camera, wire, link, gnd, rx, written, disturbed>>

\* recv clears its buffer and fails with InvalidData.
RecvOversize ==
  /\ rx = "recv" /\ Oversize
  /\ read_buf' = <<>>
  /\ rx' = "reconnect"
  /\ UNCHANGED <<camera, wire, link, gnd, got, written, disturbed>>

RecvRead ==
  /\ rx = "recv" /\ ~HasFrame /\ ~Oversize
  /\ \E n \in 1..Len(wire[gnd]) :
       /\ n <= ReadMax
       /\ read_buf' = read_buf \o SubSeq(wire[gnd], 1, n)
       /\ wire' = [wire EXCEPT ![gnd] = SubSeq(@, n + 1, Len(@))]
  /\ UNCHANGED <<camera, link, gnd, rx, got, written, disturbed>>

\* The kernel reports the error of a connection once.
RecvError ==
  /\ rx = "recv" /\ ~HasFrame /\ ~Oversize
  /\ wire[gnd] = <<>> /\ link[gnd] = "reset"
  /\ link' = [link EXCEPT ![gnd] = "closed"]
  /\ rx' = "reconnect"
  /\ UNCHANGED <<camera, wire, gnd, read_buf, got, written, disturbed>>

\* A sender of the ground (RC, heartbeat) gets the error, and ignores it.
SendTakesError ==
  /\ link[gnd] = "reset"
  /\ link' = [link EXCEPT ![gnd] = "closed"]
  /\ UNCHANGED <<camera, wire, ground, written, disturbed>>

\* Mutated form: what the new connection already holds is flushed.
ReconnectFlushes ==
  /\ rx = "reconnect" /\ gnd < cam
  /\ gnd' = gnd + 1
  /\ rx' = "recv"
  /\ wire' = [wire EXCEPT ![gnd + 1] = <<>>]
  /\ disturbed' = disturbed \cup IF read_buf # <<>> THEN {gnd + 1} ELSE {}
  /\ UNCHANGED <<camera, link, read_buf, got, written>>

\* Mutated form: the loop around reconnect is not left.
ReconnectWithoutBreak ==
  /\ rx = "reconnect" /\ gnd < cam
  /\ gnd' = gnd + 1
  /\ disturbed' = disturbed \cup IF read_buf # <<>> THEN {gnd + 1} ELSE {}
  /\ UNCHANGED <<camera, wire, link, read_buf, rx, got, written>>

\* accept blocks until there is a connection; reconnect leaves read_buf alone.
Reconnect ==
  /\ rx = "reconnect" /\ gnd < cam
  /\ gnd' = gnd + 1
  /\ rx' = "recv"
  /\ disturbed' = disturbed \cup IF read_buf # <<>> THEN {gnd + 1} ELSE {}
  /\ UNCHANGED <<camera, wire, link, read_buf, got, written>>

Dispatcher == RecvFrame \/ RecvOversize \/ RecvRead \/ RecvError \/ Reconnect
Ground     == Dispatcher \/ SendTakesError

Next == Camera \/ World \/ Ground

Spec == Init /\ [][Next]_vars

\* The threads of both sides run on, and the service manager starts an ended
\* camera again.
FairSpec ==
  /\ Spec
  /\ \A s \in Senders : WF_vars(Write(s) \/ WriteFails(s))
  /\ WF_vars(CameraConnects)
  /\ WF_vars(Dispatcher)

-----------------------------------------------------------------------------
(* Properties.                                                             *)

\* Framing is lost in three ways only: two senders write at the same time, a
\* write is cut short, or reconnect finds a part of a frame in read_buf.  On
\* a connection without them recv returns the payloads in the order they were
\* sent, each once and unchanged, however the reads cut the stream.
UndisturbedFraming ==
  \A c \in ConnIds \ disturbed : IsPrefix(got[c], written[c])

\* Nothing is lost on the way: once the stream and read_buf of an undisturbed
\* connection are empty, no sender is inside a frame and recv has returned
\* every payload begun on it.
NothingVanishes ==
  (/\ gnd \notin disturbed /\ gnd = cam /\ link[gnd] = "open"
   /\ rx = "recv" /\ wire[gnd] = <<>> /\ read_buf = <<>>)
  => /\ got[gnd] = written[gnd]
     /\ \A s \in Senders : pc[s] # "body"

\* The dispatcher has all that was sent on its connection.
CaughtUp ==
  got[gnd] = written[gnd] \/ gnd \in disturbed \/ link[gnd] # "open"

\* What a sender writes while it has the stream for itself is heard: recv
\* returns it without waiting for a later frame to push it out.
LoneFramesArrive == ~CaughtUp ~> CaughtUp

\* Once the dispatcher has seen an error, it takes up the connection the camera
\* makes next, and gets all that the camera sends on it, from the start.
NextConnectionIsServed ==
  (rx = "reconnect" /\ cam = Conns /\ gnd < Conns) ~> (gnd = Conns /\ CaughtUp)

=============================================================================
