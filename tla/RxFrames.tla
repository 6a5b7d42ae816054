------------------------------- MODULE RxFrames -------------------------------
(***************************************************************************)
(* From a received frame to a component of the program: the parsers that   *)
(* ground station and camera share (rawsock_common.rs, link.rs) and the    *)
(* filters of their two rx_dispatchers.                                    *)
(*                                                                         *)
(* A raw frame is the driver's radiotap header, an 802.11 header, perhaps  *)
(* LLC/SNAP, and what was sent; over UDP and TCP only what was sent        *)
(* arrives.  A frame is kept as the fields the parsers read, its length,   *)
(* and the offset at which what was sent begins: a parser that looks       *)
(* elsewhere reads something else.                                         *)
(***************************************************************************)
EXTENDS Naturals, Sequences

CONSTANTS
  Presents,   \* bitmaps a driver may put into its radiotap header
  Cuts        \* lengths frames may be cut to on the way

MAGIC      == 82   \* 'R'; a radiotap header has version 0
HEADER_LEN == 8
LLC_LEN    == 8
RSSI_BIT   == 5

ASSUME FramesAssumption ==
  /\ \A p \in Presents : p \in Seq(SUBSET (0..31)) /\ p # <<>>
  /\ Cuts \subseteq Nat

\* The two absent results: nothing extracted, no signal.
NoPayload == [magic |-> FALSE, mine |-> FALSE, type |-> "none", len |-> 0]
NoSignal  == [from |-> "nobody", real |-> TRUE]

-----------------------------------------------------------------------------
\* Radiotap.  The fields of the first bitmap are laid out in the order of their
\* bits, each at a multiple of its alignment; only bits below RSSI_BIT can move it.
FIELD_SIZE  == <<8, 1, 1, 4, 2>>
FIELD_ALIGN == <<8, 1, 1, 4, 2>>

\* The alignments the radiotap standard gives: a channel is two 16-bit words.
STANDARD_ALIGN == <<8, 1, 1, 2, 2>>

AlignUp(n, a) == ((n + a - 1) \div a) * a

FirstField(words) == 4 + 4 * Len(words)

\* Where the field of RSSI_BIT starts, walking over the fields before it.
RssiOffset(words, align) ==
  LET offset[b \in 0..RSSI_BIT] ==
        IF b = 0 THEN FirstField(words)
        ELSE IF b - 1 \in words[1] THEN AlignUp(offset[b - 1], align[b]) + FIELD_SIZE[b]
        ELSE offset[b - 1]
  IN offset[RSSI_BIT]

radiotap_hdr_len(f) ==
  IF f.len < 8 \/ f.version # 0 \/ f.hdr_len < 8 \/ f.hdr_len > f.len THEN 0 ELSE f.hdr_len

\* The signal of a frame as a parser sees it: the driver's value, or another byte.
ByteAt(f, offset) ==
  [from |-> f.from, real |-> offset = RssiOffset(f.words, STANDARD_ALIGN)]

\* Mutated form: extended bitmaps are taken for fields.
parse_radiotap_rssi_OneWord(f) ==
  LET offset == RssiOffset(<<f.words[1]>>, FIELD_ALIGN)
  IN IF radiotap_hdr_len(f) = 0 \/ RSSI_BIT \notin f.words[1] \/ offset >= f.hdr_len
       THEN NoSignal ELSE ByteAt(f, offset)

\* A bit of a later bitmap is another field, whatever its number.
parse_radiotap_rssi(f) ==
  LET offset == RssiOffset(f.words, FIELD_ALIGN)
  IN IF \/ radiotap_hdr_len(f) = 0
        \/ FirstField(f.words) > f.hdr_len
        \/ RSSI_BIT \notin f.words[1]
        \/ offset >= f.hdr_len
       THEN NoSignal ELSE ByteAt(f, offset)

-----------------------------------------------------------------------------
\* 802.11 and LLC/SNAP.  0 stands for a header that is cut off.
base_len(h) == IF h.to_ds /\ h.from_ds THEN 30 ELSE 24

\* Mutated form: QoS Control is forgotten.
HdrLenNoQos(h) == IF ~h.data THEN 24 ELSE base_len(h)

HdrLen(h) ==
  IF ~h.data THEN 24 ELSE IF h.qos THEN base_len(h) + 2 ELSE base_len(h)

ieee80211_hdr_len(f) ==
  IF f.len < f.hdr_len + HdrLen(f.ieee) THEN 0 ELSE HdrLen(f.ieee)

\* What is found from an offset on: what was sent, whole or cut, or other bytes.
Found(f, offset) ==
  IF offset = f.sent_at THEN [f.sent EXCEPT !.len = f.len - offset]
                        ELSE [f.sent EXCEPT !.len = f.len - offset, !.magic = FALSE]

recv_extract(f) ==
  LET rt   == radiotap_hdr_len(f)
      ieee == ieee80211_hdr_len(f)
      llc  == f.llc /\ f.sent_at = rt + ieee + LLC_LEN /\ f.len >= f.sent_at
      start == rt + ieee + (IF llc THEN LLC_LEN ELSE 0)
  IN IF rt = 0 \/ ieee = 0 \/ f.len <= start THEN NoPayload ELSE Found(f, start)

matches_magic(p) == p.len >= 2 /\ p.magic
decode(p)        == p.len >= HEADER_LEN /\ p.magic

-----------------------------------------------------------------------------
VARIABLES
  inbox,      \* the frame that has just arrived, and where
  delivered,  \* what the last frame was handed on as
  rssi        \* RpvState.rssi: the signal the ground station shows

vars == <<inbox, delivered, rssi>>

Sides == {"ground", "camera"}
Types == {"video", "telemetry", "rc", "heartbeat", "mavlink", "unknown"}

\* What each sender sends: (drone id, type).  Another drone has its own id;
\* strangers' frames have no magic.
Sends ==
  [camera   |-> {"video", "telemetry", "heartbeat", "mavlink"},
   ground   |-> {"rc", "heartbeat", "mavlink"},
   other    |-> {"video", "rc"},
   stranger |-> {"unknown"}]

Senders == DOMAIN Sends

Sent(s) ==
  [magic : {s # "stranger"}, mine : {s = "camera" \/ s = "ground"}, type : Sends[s], len : {40}]

\* The standard's header: frame control, duration and sequence control, three
\* addresses, a fourth between access points, and QoS control.
StandardLen(h) ==
  6 + 6 * (IF h.data /\ h.to_ds /\ h.from_ds THEN 4 ELSE 3)
    + (IF h.data /\ h.qos THEN 2 ELSE 0)

Ieee == [data : BOOLEAN, qos : BOOLEAN, to_ds : BOOLEAN, from_ds : BOOLEAN]

\* The header RawSocketBase::send_with_buf puts in front of every frame.
DATA_FRAME_HDR == [data |-> TRUE, qos |-> TRUE, to_ds |-> FALSE, from_ds |-> FALSE]

\* A raw frame: the driver lays its header out as the standard says, perhaps with
\* more fields behind the signal.
RawFrame(s, p, words, more, h, llc) ==
  LET rt == RssiOffset(words, STANDARD_ALIGN) + (IF RSSI_BIT \in words[1] THEN 1 ELSE 0) + more
      at == rt + StandardLen(h) + (IF llc THEN LLC_LEN ELSE 0)
  IN [from |-> s, version |-> 0, hdr_len |-> rt, words |-> words, ieee |-> h,
      llc |-> llc, sent |-> p, sent_at |-> at, len |-> at + p.len]

\* A datagram or a TCP frame: its first byte is that of what was sent.
IpFrame(s, p) ==
  [from |-> s, version |-> MAGIC, hdr_len |-> 0, words |-> <<{}>>, ieee |-> DATA_FRAME_HDR,
   llc |-> FALSE, sent |-> p, sent_at |-> 0, len |-> p.len]

IsRaw(f) == f.version = 0

\* What may arrive: every radiotap header and every 802.11 header, cut frames, and
\* IP frames.
Any(s) == CHOOSE p \in Sent(s) : TRUE

FramesOf(s) ==
  {RawFrame(s, Any(s), w, more, DATA_FRAME_HDR, FALSE) : w \in Presents, more \in {0, 4}}
    \cup {RawFrame(s, p, <<{RSSI_BIT}>>, 0, h, llc) : p \in Sent(s), h \in Ieee, llc \in BOOLEAN}
    \cup {[RawFrame(s, p, <<{RSSI_BIT}>>, 0, DATA_FRAME_HDR, FALSE) EXCEPT !.len = c]
            : p \in Sent(s), c \in Cuts}
    \cup {IpFrame(s, p) : p \in Sent(s)}

Frames == UNION {FramesOf(s) : s \in Senders}

Empty == [at |-> "none"]

Init ==
  /\ inbox = Empty
  /\ delivered = "none"
  /\ rssi = NoSignal

\* The radio carries every frame everywhere; UDP and TCP link the two sides.
Arrive(side, f) ==
  /\ inbox = Empty
  /\ IsRaw(f) \/ f.from \in {"camera", "ground"} \ {side}
  /\ inbox' = [at |-> side, f |-> f]
  /\ delivered' = "none"
  /\ UNCHANGED rssi

\* Both dispatchers want the magic, a whole header, their drone's id and a type
\* they handle.
Accepted(p, types) ==
  IF matches_magic(p) /\ decode(p) /\ p.mine /\ p.type \in types THEN p.type ELSE "none"

GroundTypes == {"video", "telemetry", "heartbeat", "mavlink"}
CameraTypes == {"rc", "heartbeat", "mavlink"}

\* Mutated form: no fallback, as in the camera.
GroundPayload_RawOnly(f) == recv_extract(f)

\* What the ground station looks at: what was extracted, or else the whole frame.
GroundPayload(f) == IF recv_extract(f) = NoPayload THEN Found(f, 0) ELSE recv_extract(f)

\* The signal is stored before anything is known of the frame.
GroundRx ==
  /\ inbox.at = "ground"
  /\ inbox' = Empty
  /\ rssi' = IF recv_extract(inbox.f) = NoPayload \/ parse_radiotap_rssi(inbox.f) = NoSignal
               THEN rssi ELSE parse_radiotap_rssi(inbox.f)
  /\ delivered' = Accepted(GroundPayload(inbox.f), GroundTypes)

\* The camera drops what recv_extract finds nothing in.
CameraRx ==
  /\ inbox.at = "camera"
  /\ inbox' = Empty
  /\ delivered' = Accepted(recv_extract(inbox.f), CameraTypes)
  /\ UNCHANGED rssi

Next ==
  \/ \E side \in Sides, f \in Frames : Arrive(side, f)
  \/ GroundRx
  \/ CameraRx

Spec == Init /\ [][Next]_vars

-----------------------------------------------------------------------------
\* What came whole of a type the side handles: from the other side of its drone, or
\* its own, heard back over the radio (both send heartbeats and MAVLink frames).
Other(side) == IF side = "ground" THEN "camera" ELSE "ground"

Whole(f, types)       == f.len >= f.sent_at + HEADER_LEN /\ f.sent.type \in types
Meant(f, side, types) == f.from = Other(side) /\ Whole(f, types)
Echo(f, side, types)  == f.from = side /\ Whole(f, types)

Due(f, side, types) == IF Meant(f, side, types) THEN f.sent.type ELSE "none"

\* Whatever radiotap, 802.11 and LLC/SNAP headers stand before it and wherever it is
\* cut, a side hands on what the other side of its drone sent, to the component it was
\* sent to, and nothing of other drones, of strangers, or of a type it does not handle.
\* The ground station does so over radio, UDP and TCP, the camera over radio only: over
\* UDP and TCP nothing of its ground reaches it.  Excepted are a side's own heartbeats
\* and MAVLink frames, which nothing in the code tells from the other side's.
EachTakesItsOwn ==
  [][/\ GroundRx /\ ~Echo(inbox.f, "ground", GroundTypes)
       => delivered' = Due(inbox.f, "ground", GroundTypes)
     /\ CameraRx /\ ~Echo(inbox.f, "camera", CameraTypes)
       => delivered' = IF IsRaw(inbox.f) THEN Due(inbox.f, "camera", CameraTypes)
                                         ELSE "none"]_vars

\* A channel is misread when flags or rate put it at 2 off a multiple of 4.
ChannelIsShifted(words) ==
  /\ 3 \in words[1]
  /\ AlignUp(RssiOffset(<<words[1] \ (3..31)>> \o Tail(words), STANDARD_ALIGN), 2) % 4 # 0

\* The signal shown is one the driver measured, however many bitmaps and fields
\* its header has, except where the parser's alignment of the channel (4) is not
\* the standard's (2).
SignalIsReal ==
  [][GroundRx /\ ~ChannelIsShifted(inbox.f.words) => rssi'.real \/ rssi' = rssi]_vars

==============================================================================
