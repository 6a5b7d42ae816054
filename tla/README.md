# TLA+ specifications of rpv

rpv is a drone video link written in Rust: a camera node (`rpv-cam`) sends H.264
video, telemetry and heartbeats to a ground station (`rpv-ground`), which shows the
video and sends RC and MAVLink frames back; `rpv-proto` holds what the two share.
This directory models the parts in which threads, queues, timers and lost packets
decide what happens. Every definition is translated from the Rust source;
`PROJECT.json` gives for each one the lines it stands for.

## 1. The system

| component | source | state | operations | what makes it correct |
|---|---|---|---|---|
| Link state machine | `rpv-ground/src/link_state.rs`, callers in `main.rs`, `telemetry.rs` | two atomics `state`, `camera_ok`; the callers' `last_heartbeat`, `ever_connected`, `has_ever_had_frame`, cached `link_status` | `heartbeat_lost`, `heartbeat_restored`, `telemetry_activity`, `video_frame_decoded`, `camera_unavailable`, `camera_available` | the status shown follows the link: silence, recovery and a missing camera are reported, and nothing is reported that did not happen |
| Video receiver | `rpv-ground/src/video/receiver.rs` | ring of partial FEC blocks, ring of decoded ones, `next_block`, two stall timers, fragment buffer | `run` (a packet, an idle visit), `drain_completed`, `emit_block`, `cleanup_fragments` | blocks are emitted once and in order, never mixed, and none is lost without a reason |
| Flight-controller link | `rpv-cam/src/fc.rs` | serial port, supervisor, reader and writer threads, RC and uplink queues, failsafe flag | open, retry, join; heartbeat, RC override, failsafe, uplink; read | silence of the pilot reaches the flight controller; a throttle left high never takes effect after a failsafe; a lost device is reopened |
| TCP transport | `rpv-proto/src/tcpsock.rs`, loops in both `main.rs` | stream, `read_buf`, listener | `send_with_buf`, `recv`, `reconnect` | frames arrive whole, once, in order; a lost connection is replaced |
| Video transmitter | `rpv-cam/src/video_tx.rs` | NAL buffer, FEC group, sequence numbers, camera child process | capture, NAL split, fragmentation, FEC, restart of the camera | what the receiver assembles is what was captured |
| Camera dispatch and queues | `rpv-cam/src/main.rs` | channels between threads, `rc_failsafe_active` | `rx_dispatcher`, telemetry sender, MAVLink forwarder, heartbeat sender, shutdown | commands reach the FC link, telemetry reaches the ground, shutdown ends |
| UDP and discovery | `rpv-proto/src/udpsock.rs`, `discovery.rs` | shared peer address, miss counter | beacon, receive, forget | the peer is found, kept while it lives, found again |
| Raw 802.11 transport | `rpv-proto/src/rawsock*.rs`, `rawsocket_base.rs`, `rawsock.rs` of both nodes | a socket, `RpvState.rssi` | `send_with_buf`, `recv_extract`, `parse_radiotap_rssi` | what was sent is found behind every header, and the signal shown is a signal |
| L2 header | `rpv-proto/src/link.rs` | none | `encode`, `matches_magic`, `decode` | a node takes the packets of its own drone and of the types it handles |
| RC transmitter | `rpv-ground/src/rc/joystick.rs` | `channels`, `js_fd`, the joystick's unread events | `poll_joystick`, `joystick_to_rc`, `apply_button`, `send_rc_packet` | the flight controller ends up with the pilot's sticks, or with the failsafe |
| Ground threads, UI, decoder | `rpv-ground/src/main.rs`, `video/decoder.rs` | channels, `frame_buffer`, GPU textures, `running`, nine threads | dispatch, decode, `process_decoded_frame`, `RpvApp::update`, joins | frames are shown in order and once, a stuck part stops only what depends on it, shutdown ends |
| Configuration, installers, fuzz targets | `config.rs`, `deploy/`, `fuzz/` | files | | (I/O) |

How they interact. The camera's `video_tx`, heartbeat sender and (by way of
`video_tx`'s high-priority channel) telemetry share one transport. On the ground,
`rx_dispatcher` receives everything, offers video and telemetry to bounded channels
(dropping what does not fit) and stamps `last_heartbeat`; `VideoReceiver`,
`TelemetryReceiver`, `heartbeat_monitor` and the UI thread read them, and the last
three drive the link state machine. In the other direction the camera's
`rx_dispatcher` feeds the FC link's RC and uplink queues, again with `try_send`.

What is hard about it: atomics read and written in separate accesses by three
threads; packets lost, duplicated and reordered around a ring with wrapping sequence
numbers; timers that fire on a snapshot; threads that end for different reasons and
are joined in a fixed order; a byte stream several threads write to; queues at their
limit. `PROJECT.json` lists these hazards one by one, with line and property.

## 2. The modules

| module | models | composed of |
|---|---|---|
| `LinkState` | link state machine and the four threads around it, one action per access to shared memory | rx_dispatcher, TelemetryReceiver, UI, heartbeat_monitor |
| `VideoReceiver`, `MCVideoReceiver` | `VideoReceiver::run`, fed by a camera that sends FEC blocks and a network | camera, network, rx_dispatcher, receiver |
| `BlockStream` | abstract: the stream of blocks handed to the decoder; implemented by `VideoReceiver` | |
| `VideoTx`, `MCVideoTx` | `video_tx::run` and the camera process it reads, `emit_block` and `cleanup_fragments` of the receiver | camera process, video_tx, receiver's assembly |
| `FailsafeGate` | abstract: what the flight-controller link lets pass; implemented by `FcLink`, used by `RcLink` | |
| `FcLink` | `fc::start`, `fc_writer`, the life of `fc_reader`, the dispatcher that feeds them, the device | supervisor, reader, writer, rx_dispatcher, device |
| `RcLink`, `MCRcLink` | the sticks' way from the joystick to the flight controller | pilot, RCTx, radio, rx_dispatcher, `FailsafeGate` |
| `RxFrames`, `MCRxFrames` | header parsers and the filters of both dispatchers | four senders, two receivers |
| `Ground` | the ground station's threads from socket to screen, and their joins | rx_dispatcher, VideoReceiver, decoder, TelemetryReceiver, UI, main |
| `TcpLink` | `TcpSocket` from camera to ground, the ground's receive and reconnect loop | camera's senders, connections, rx_dispatcher |
| `Downlink` | the camera's threads around the high-priority channel, and shutdown | fc_reader, forwarder, telemetry_sender, video_tx's end, main |
| `Discovery` | `discovery_loop` on both nodes, and both mains' use of the address | two nodes, their broadcasts, restarts |
| `LinkStateProofs`, `VideoReceiverProofs`, `FcLinkProofs`, `RcLinkProofs`, `GroundProofs`, `TcpLinkProofs` | theorems about the module of that name | |
| `CameraProofs` | theorems about `VideoTx` and `Downlink`, and how the first fits into the second | |
| `PeerProofs` | theorems about `Discovery` and `RxFrames` | |

Operators marked "Mutated form" are faulty variants of the definition after them. They are not part
of any specification: each shows that the property named with it in `PROJECT.json`
can tell the code from a likely mistake.

### LinkState

Each method of `LinkStateMachine` loads an atomic and stores another value in a
second access. An action is therefore one access: `HeartbeatLostLoad` /
`HeartbeatLostStore` and so on, with `pc` and `reg` for what a thread is about to do.
The age of `last_heartbeat` is never / fresh / stale (5 s); `telemQ` is the bounded
channel of reports, of which only `camera_ok` is kept. `has_frame` and `link_status`
are the UI's, the latter a copy of the state taken at the end of the previous update.
Link status files and log lines are left out.

Run `linkstate` (channel of 1 report, 353 thousand states) checks, over every
interleaving:
- `StatusIsEarned`: no SignalLost without a contact, no NoCamera without a bad report, although
  either is stored accesses after it was decided on;
- `ActivityMasksOnce`: `README.md:282` says that only heartbeats override SignalLost. Telemetry and
  video can, when they loaded the state before the loss, but each only once, in the race around
  the first contact, and never afterwards. `masked` is history;
- `LinkIsReported`: lasting silence is reported, and so is recovery;
- `NoCameraSettles`, `StaleNoCameraIsRepaired`: the camera's report is followed, before the
  first frame by the UI and afterwards by the next heartbeat.

One report in the queue suffices: the receiver takes reports one by one, and
a longer queue only delays them, which the threads' interleaving already does.

Fairness: weak fairness of each thread. The monitor wakes every 100 ms, the UI asks to
be repainted at least every 100 ms (`main.rs:605-610`), the telemetry thread receives
with a timeout of 100 ms. No heartbeat, report or frame is assumed to arrive.

### VideoReceiver

A packet is a shard of a block. The receiver sees the block's number modulo `SeqMod`;
the model carries the real number along for the properties. `blocks` and `completed`
are the two rings; `Handle` is one packet through the loop body (head-of-line check, old
or future, eviction, storing, reconstruction, drain), `IdleVisit` the 200 ms stall path,
in the order of the code. Reed-Solomon itself is abstracted to "any `DataShards` distinct
shards of one block give it back". Instants are flags that may turn true at any time.
`out`, `decoded`, `strayed` and `moved` (by how much `next_block` advanced since the restart) are history. What `emit_block` makes of the shards is
in `VideoTx`.

Run `mcvideoreceiver` (3.17 million states): three blocks, two of three shards enough for each,
numbers modulo 16 in a ring of two slots, at most two blocks in flight. `FirstSeqs` starts the
stream at 0 or at 14 (only at 14 where packets are lost, only at 0 where the camera is restarted); from 14 the numbers wrap between the
second and the third block, and the first and third share a slot in either case. `MaxWaits`
bounds how often the head-of-line timer may expire: each time it may carry the receiver past a
number, and `LastBlock + MaxWaits` must stay below half the range of numbers, 2^31 in the code,
for the receiver to tell old from new at all; here it is 6, below 8. Four networks, all of which reorder: one that
does nothing else, one that loses packets and stalls, one that loses and duplicates, and one that
stalls while the camera process is restarted and counts from 0 again (`RestartWaits` and a single
older shard in flight keep this one small). Checked:
- `ImplementsStream`: the receiver implements `BlockStream`. Blocks come out in the camera's
  order unless `strayed` (an idle visit advanced `next_block`, or a shard came a whole ring
  ahead) or after a restart, and each at most once unless packets are duplicated or the
  camera restarts;
- `RingIsSound`: no entry mixes shards of two sequence numbers, and a full counter means
  enough distinct shards. After a restart, a block may mix shards of two processes that carry the same
  number: nothing in a packet tells them apart;
- `DecodedIsKeptUnlessStrayed`, `AllDeliveredWhenIdeal`;
- `DarkUntilCaughtUp`: after a restart no block of the new process is shown whose number had been
  passed before. The code has no way to tell a new stream, and what the receiver skips meanwhile, at
  a missing head or while idle (a respawn takes longer than 200 ms), only pushes `next_block` on: the
  screen stays dark for at least as long as the camera had been sending. It holds while the
  numbers are below 2^31, for beyond that small numbers are ahead, and of strayed receivers, too.

Three blocks are what it takes to have one late, one at the head and one ahead in a ring of two.
The run stops when everything is sent and consumed, hence no deadlock check.

### FcLink

`Supervisor` opens the port with backoff, starts reader and writer, joins the reader and
then the writer. The writer's loop is heartbeat, `recv_timeout` of RC (100 ms, one packet per
turn), and the uplink until its queue is empty. The empty queue is found
(`WriterFindsNothing`) before the failsafe is declared (`WriterTimeout`), and a packet may come in
between. A packet refused during failsafe also
throws away the queued MAVLink frames. A throttle is neutral or high, the age of the
last RC packet fresh / up to 2 s / older. `device` may be removed and return; `full`
says that writes to a working port may time out. `latched` is history: failsafe was
declared and no neutral stick seen since.

Of the reader only its end matters. It ends on EIO, ENODEV and ENXIO alone and retries everything
else for ever, end of file and serialport's own errors included (`fc.rs:214-219`, `246-250`). How a
removed device shows is up to driver and serialport, so `DeviceRemoved` leaves
the handle either `dead` (a read says so) or `mute` (it never does).

`FailsafeGate` is what this promises: once failsafe was declared, only neutral sticks open
the gate, whatever fails and reconnects. `ImplementsGate` maps `held` to
`rc_failsafe_active` and `given` to the last override the flight controller received.

Run `fclink` (RC queue of 2 as in the code, uplink queue of 1, 107 thousand states)
checks `ImplementsGate`, `NoHighThrottleWhileLatched`, `SilenceReachesFc`,
`RemovedDeviceIsReopened` and `NeutralEndsFailsafe`. The liveness properties assume `~full`,
a device that in the end stays, and an uplink that goes quiet: `WriterUplink` empties its
queue before it looks at RC again. They also assume `RemovalShows`, that no handle is mute, which the
code does not guarantee: without it each of the three is false, since the supervisor then
waits for the reader for ever (section 4). Fairness: supervisor and writer are plain loops with timed
waits, a read returns within its 100 ms timeout, and clocks advance. That the reader ends is
assumed only of a `dead` handle.

Disagreement: `fclink_reconnect` (one timed-out write ends the writer, the supervisor
waits for a reader that has no reason to end, `fc.rs:498`).

### RcLink

The same promise from the pilot's side. `Move` changes a stick and queues its event if a
joystick is open; `poll_joystick` takes up all events, maps them (dead band, axis ranges,
buttons) and stores the channels; `send_rc_packet` sends them 50 times a second; `RecvRc` is
the camera's `try_send` into a queue of two, which keeps the oldest; `WriterRc` and
`WriterFindsNothing`, `WriterTimeout` are the flight-controller writer over the actions of
`FailsafeGate`. A control is moved by the axis of its number, controls 4 to 7 also by buttons.
The joystick may be unplugged (it is not opened again), the ground station may end and start
afresh with centred channels, the radio may drop out, the port may be lost and with it the
flight controller's memory. `stamp`, `taken`, `moved` and the flag `during` are history.
Reader, supervisor and the writer's uplink are left to `FcLink`.

Run `mcrclink` (962 thousand states): the two controls that matter, the throttle axis and
the channel failsafe looks at, which are not the same; sticks at either end, the throttle down at
the start; the code's queue
of two; one packet in the socket; two movements, one to be sent and one to come too late.
Checked:
- `ReleaseIsRecent`: only a packet that came in after the writer had found its queue empty ends the
  failsafe it then declares, never one left in the queue. One that comes in between that look and
  the declaration does end it, at the writer's next turn;
- `SticksSettle`: with the link up for good and failsafe ended, the flight controller gets, of every
  control moved since the joystick was opened, what the pilot holds, and the middle of all others;
- `OutageEndsInFailsafe`.

Fairness: the RC thread, the dispatcher and the writer are loops with timed waits, and time
passes (`Silence`). Nothing is assumed of pilot, radio, ground station or flight controller.

### RxFrames

Frames with every header, from the peer, the node itself, another drone and a stranger, to
both dispatchers. A frame is a record of the fields the parsers read, its length, and where
what was sent begins; a parser that looks elsewhere finds other bytes. The headers are laid out
as the standards say, the parsers look where the code does.

Run `mcrxframes` (35 thousand states): all subsets of the fields up to the signal strength in
the first radiotap bitmap, alone or with a second one; all combinations of data, QoS and the
two DS bits, with and without LLC/SNAP; cut within the radiotap, the 802.11 and the L2
header, at each boundary, one byte before and behind it. Checked, and proved for any bitmaps and
any cuts: `EachTakesItsOwn` and `SignalIsReal`. The former says what each side makes of a frame: what
the other node of its drone sent, to the component it was sent to, and nothing of strangers, other
drones and cut frames. A node's own frames (`Echo`) are excepted: nothing marks them, and a
heartbeat or MAVLink frame that comes back is taken like the peer's (section 4). The latter excepts bitmaps in which a channel field of alignment 2 (the
standard's) falls where the code's alignment of 4 moves it. No liveness: each step is a function
call.

### Ground

NAL units are numbers, as `VideoReceiver` emits them; a packet may emit any number of them, since it
may complete the head of a run of blocks. `ReceiverSends` waits for room, the other channels
drop what does not fit. `codec` is what libavcodec holds; it is taken to give a frame per NAL
unit, or none, in order (there are no B-frames in a live stream), and may never return.
`process_frames` is one update: it takes all frames from the channel, keeps the newest of
them, and shows one or makes textures of another size. `Join` is main's list of joins in its order;
five threads that only look at `running` every second or more often are joined as soon
as that is cleared.

Run `ground` (149 thousand states): all channels of one, a frame buffer of two, three NAL units, so that
each queue is full with one more waiting, and a frame of another size may stand behind or
before others. Checked:
- `ShutdownCompletes`, given that libavcodec returns and a TCP camera comes back: receiver and
  decoder never look at `running`, and end because each sees its channel closed by the one before;
- `WindowAloneEndsNothing`: closing the window leaves main at its first join until Ctrl-C;
- `HungDecoderStopsOnlyVideo`; `ShownInOrder`; `BacklogIsShown`.

Fairness: the loops run on; the UI asks to be repainted within 100 ms, and closes its window
after Ctrl-C (`main.rs:561-564`). The run stops when main has returned, hence no deadlock check.

### TcpLink

The byte stream is a sequence of cells: a length prefix is one cell, a payload is cells
with values, the first of them too large for a length, as an L2 header is. Framing can
therefore really be lost in the model and found wrong by `recv`. A prefix is never cut
in two, which four bytes could be: cutting happens in payloads, where it has the same
effect. Senders write prefix and payload in two steps; a write may time out half-way if
`slow`. Connections are numbered; the camera may have written to one that the
ground has not accepted. `link` tells how a connection ended: closed in order (reads give
0 for ever) or reset (one error, for whichever call comes first).

Run `tcplink` (two senders, three frames, payloads of one or two cells, reads of one or
two, two connections, 952 thousand states) checks `UndisturbedFraming` (overlapping
writes, torn writes and a non-empty `read_buf` at `reconnect` are the only ways to lose
framing, and without them frames come once, whole and in order), `NothingVanishes`,
`LoneFramesArrive` and `NextConnectionIsServed`. Two senders are all the camera has;
three frames allow one to be misread from two others; the second connection is enough for left-over
bytes and for a camera that waits. Fairness: threads that write go on, the dispatcher loops, and a camera that
ended is started again (`Restart=on-failure` of its service, or by hand). Nothing makes
the camera begin a frame. The run stops when the bounds are used up or the dispatcher
waits in `accept`, hence no deadlock check.

### VideoTx

The camera process writes NAL units into a pipe, as cells: the zeros of the start code, the one that
ends it, and parts of the payload. A cell knows which process and unit it is from, which the
code cannot see and the properties need. `Read` takes any prefix of the pipe, so that reads cut
units, parameter sets and start codes at every place; `MadeRoom` is the check of `MAX_NAL_BUF`
before it. `StillAlive` is what `try_wait` says, in a step before the read (`pc = "read"`); a
read of an empty pipe returns only from a dead process or from the first one, whose
stdout alone is set to `O_NONBLOCK`. `pc = "nals"` is the inner loop: `Inject` puts an IDR unit back behind the stored
parameter sets, `SendShort` sends a unit of one shard, `BeginLong` writes the first
fragment of a longer one into slot 0 and leaves the rest, and `Overrun` is what the next
unit then meets. `Reset` is what a restart sets back. On the ground `emit_block` and
`Cleanup` work on `assembly`; groups in between are lost or emitted.
Of an FEC group only slot 0 is kept, since every group is sent with one unit in it.

Run `mcvideotx` (two camera processes, three units, parameter sets of two payload cells and pictures of
one or four, a pipe of six cells, a buffer of seven, shards of six with a header of one, 536 thousand
states) checks:
- `SentIsOneNal`: what is sent is the beginning of one unit. A unit cut by a read is sent as
  far as it was read, and if the cut lies in the next unit's start code, with its zeros;
- `OnlyParamsOutliveCamera`, `PanicNeedsLongNal`;
- `NoStartIsLost`, of start codes that are whole in the buffer. One that a read cuts is lost: its zeros
  leave with the unit before it, and what it began is left over without a beginning;
- `LoopEnds`, under fairness of the thread while it does not block in a read.

Three units are needed for a unit behind left-overs behind a
long one; the buffer holds less than two long ones, so that it overflows; the longest unit does
not fit into a slot; `FreeRestarts` is 0 so that giving up races with the only restart. The ground's
smaller limit on shards, `RxMaxShard`, is below `MaxShard`, as in the code. The ground receives only a
group behind which nothing more is written, since these properties concern the camera;
`videotx_shown` leaves open what it receives.

Disagreement: `videotx_shown` (a unit of one shard is sent as number 1, the start of
several; nothing completes it, against `receiver.rs:152-158`). It needs one process and two units.

### Downlink

Counters and a short queue of kinds for the three channels, and a `pc` per thread.
`send` on a bounded channel blocks while it is full and its receiver exists, and the
receiver is owned by `video_tx::run`, so that `VideoEnds` empties and closes it. Of the loop of
`VideoTx`, `VideoReads` and `VideoReturns` remain, between which it does not look at `running`, and
`VideoSpins`, the loop over NAL units that does not end. The flight-controller link is taken to exist:
`fc::start` always returns one.

Run `downlink` (channels of 3, 2 and 2, 184 thousand states) checks `ShutdownCompletes`.
The capacities let both senders block, one with a queue
left over. Fairness: every loop waits for at most 200 ms per turn; `video_tx` ends
when it comes to look at `running` and finds it cleared, and comes back from a read while no camera was
restarted. A restarted camera's stdout blocks, so nothing makes it come back then: the property excepts
a `video_tx` that stays in that read for ever. The run stops when all threads are
joined, hence no deadlock check.

`BackpressureEndsNobody`, that a full queue never ends the forwarder, is proved.

### Discovery

Time is counted in iterations of `discovery_loop` (50 to 150 ms each): a node broadcasts with
every `BeaconPolls`-th and makes at most `PollsPerBeacon` of them per beacon of its running
peer. Each iteration takes one packet out of `inbox`, where the node's own broadcasts are
too. `conf` is the configured peer: a camera that has one does not discover, the ground
does in any case and stores the configured address afterwards. `sock` is the camera's copy of what was
found when it stopped waiting. A restarted node may have another address, but not the one
that its own configuration gives to its peer.

Run `discovery` (beacons every 3 iterations, at most 3 per peer's beacon, 7 misses, one
beacon in two lost, one restart, 164 thousand states) checks `NeverItsOwnPeer`,
`LivePeerIsKept` and `PeerIsFound`. The code's numbers are 4 to 10, 13 and 60, more generous
than these: with 6 misses instead of 7 `LivePeerIsKept` fails, so that the bounds are tight,
and the paths on which a live peer is almost forgotten occur. (With 4 iterations per peer's beacon 9
misses are needed, and 690 thousand states; nothing else changes.) Fairness: both loops
run on, an ended process is started again, the mains go on. Loss in a row is bounded by
`MaxLost`, without which nothing could be promised.

## 3. What is proved

TLAPS checks the theorems for every value of the constants, under the modules' named
assumptions. Those about capacities and sizes say that they are positive. The others:

- `RingAssumption` (`VideoReceiver`): `SeqMod` is a multiple of `RingSize` (2^32 and 128), so that
  a number's slot does not jump where numbers wrap, and at least five of it, so that one packet
  moves the receiver by a small part of the range only; `DataShards <= TotalShards < 2 * DataShards`
  (4 and 6): after a block was decoded, the shards still to come cannot decode it again; and
  `LastBlock + MaxWaits < SeqMod \div 2`: fewer than 2^31 blocks are sent and skipped while the
  program runs, which is years of video. The code compares numbers modulo 2^32 and rests on this.
- `VideoTxAssumption`: a shard (1374 bytes) has room for fragment header, start code and some payload,
  and for a whole parameter set with the zeros of the next start code, which is some tens of
  bytes; `RxMaxShard <= MaxShard`; the buffer holds more than one read.
- `DiscoveryAssumption`: there are two addresses.
- `FramesAssumption` (`RxFrames`): a radiotap header has at least one bitmap.

A module whose variables have the names of another's is taken with `INSTANCE`; the assumption of
such a module (`Downlink`, `RxFrames`) is then a hypothesis of the theorem.

- `LinkState`: `TypeCorrect`; `EarnedTheorem`, `MasksTheorem`.
  The properties speak of `state`, but a thread may be about to store what it decided
  earlier. The inductive invariant `Safe` adds what each thread carries: on the way to
  storing SignalLost contact was made, on the way to NoCamera a report was bad, and the
  monitor's register never holds Searching. `MasksTheorem` rests on the last: no store brings Searching
  back (`SearchingLeft`), so a thread that stored Connected on top of a loss loads Searching no
  more (`MaskInv`).
- `VideoReceiver`. The handling of a packet is a chain of operators on a record (head-of-line
  skip, drain, eviction, storing, completion); each invariant has one lemma for each link of
  the chain. The properties speak of blocks, the code of their numbers: `At(b)` is the number of
  block `b`, and a set of lemmas leads from one to the other, through the wrap.
  - `NotMixedTheorem`, `DecodableTheorem`, together `RingTheorem`. `RingInv` says that each
    entry lies in the slot of its sequence number, holds only shards of that number, and that its
    counter is the number of distinct shards and below `DataShards` while it is partial.
    With it `TypeCorrect`.
  - `OrderInvariant`, and from it `DecodedIsKeptTheorem`. `OrderInv`: unless strayed or
    restarted, `next_block` is the number of some block `b`; what waits decoded is ahead of
    `b` and less than a ring away, everything emitted lies before it, in order. That the numbers are
    those of blocks follows from a bound on `b`: it is passed by sending or by waiting, so it
    stays within half a round of what is sent.
  - `RefinementTheorem`: the receiver implements `BlockStream`. `OnceInv` adds, for
    networks that do not duplicate, that the shards of a block in flight, in the channel and in the
    ring are apart, and that a decoded block has fewer than `DataShards` left anywhere.
  - `DeliveryInvariant`, and from it `AllDeliveredTheorem`: on a network without loss, every
    block from the one waited for on was decoded, or enough of its shards are on their way or
    held.
  - `DarkTheorem`, over any network, with stalls and idle visits. After a restart `next_block` is no
    block's number any more, so `DarkInv` counts instead: as long as head and `moved` together
    are below 2^31, `next_block` is that sum, since skips, idle or not, and drains only
    push it on, by at most two rings per packet (`MovedOn`). What is not discarded is then at it or
    ahead of it, and every shard of the new process in the rings has a number that was not
    passed before the restart (`CaughtUp`), wherever drains find it.
- `FcLink`: `TypeCorrect`; `GateTheorem`, that `FcLink` implements `FailsafeGate`, and from its
  invariant `Latch`, which ties the history to `rc_failsafe_active` through every reconnection
  and failed write, `LatchTheorem`.
- `RcLink`: `TypeCorrect`; `ReleaseTheorem` from `QueuedDuring`: while failsafe is on,
  or about to be declared (`writer = "timeout"`), everything in the RC queue came in since the writer
  found it empty. `OrderTheorem`, that the packets taken are never older than those before:
  the invariant `OrderInv` is the chain of stamps from the flight controller through
  queue, socket buffer and joystick back to the pilot.
- `Ground`: `TypeCorrect`; `WindowAloneTheorem`; `OrderTheorem`. Frames lie on six levels
  (shown, buffer, channel, codec, channel, still to be sent); `Levels` says that everything on
  one level is older than everything on the next, and `Sorted` that each is ordered in
  itself. Every step moves a prefix of one level to the end of the next or drops some.
- `TcpLink`, for any number of senders and connections and any size of frames: `TypeCorrect`,
  which needs `WritersHaveFrames` (a sender inside a write has a frame) and `EndedMayConnect`
  (a camera that ended has a connection left to come back on); `FramingTheorem` and
  `NothingVanishesTheorem`. The cells of a stream do not tell where frames
  end; `Framed` says it by a function that gives for each payload begun the number of cells
  written up to its end. What recv has not consumed (`read_buf` and the stream) is then
  what lies behind the payloads it returned, whole or all but the body of the frame that the one
  sender inside a write still owes. `Untouched` says that
  connections not yet used are empty, and that an ended camera writes nothing.
- `VideoTx` (in `CameraProofs`): `TypeCorrect`; `OneNalTheorem`, `OutliveTheorem`, `PanicTheorem`,
  `StartTheorem`. `NalInv`: wherever reads cut it, buffer and pipe together are a piece of the stream
  the camera wrote, cell by cell (`Follows`), unless an IDR unit was put back, when the loop is
  `Trapped`; before a read the buffer has no whole start code but as its last two cells. Stored parameter
  sets need not be whole: each is the beginning of one, perhaps with the zeros of the next
  start code (`Unit`), and fits into a slot all the same. Such zeros also make a `Trapped` loop go on as
  the others do (`Trap`). `LifeInv`: only cells of the running process, parameter sets and cut-off
  zeros are in buffer, pipe and arena. `PanicInv`: what waits in the arena is full, of the
  running process.
- `Downlink` (in `CameraProofs`): `DownlinkTypeCorrect`; `BackpressureTheorem`, for every capacity.
  The forwarder also ends when fc_reader has and the downlink is empty, or after `running` was cleared; the
  invariant `EndsInv` says that fc_reader itself ends only after `running` was cleared.
  `ThreadTheorem`: `VideoTx` implements what `Downlink` says of its thread `video_tx`, each step
  being Ctrl-C, a restart, the begin or end of a read, the thread's end, or nothing to the others. (That it may spin for ever
  concerns liveness only.)
- `Discovery` (in `PeerProofs`): `TypeCorrect`; `NeverItsOwnPeerTheorem`, for any set of addresses
  and any number of restarts. The invariant `OtherInv` adds what the sockets hold: beacons of
  the node's own role, and beacons with another address. A restart empties the
  socket of the node whose address changes, which is why old beacons do no harm. That
  addresses differ, and that nobody is configured with its own, is how the world starts and
  restarts nodes (`Init`, `Starts`).
- `RxFrames` (in `PeerProofs`): `EachTakesItsOwnTheorem`, `SignalTheorem`, for any radiotap
  bitmaps and any cutting. The walk over the bitmap's fields is a recursive function of five
  steps, unrolled by `RssiOffsetIs`. `ExtractRaw` says where recv_extract looks: exactly
  where what was sent begins, or it finds nothing. `SameWalk` says that parser and standard
  agree on the signal's place unless `ChannelIsShifted`. A node's own frames (`Echo`) are
  excepted from the first theorem, not from the second.

Only model-checked: all liveness properties, since fairness and ENABLED are beyond the prover.
TLC also checks, on small instances, every safety property that is proved.


## 4. Known disagreements

Two have a run that ends with a counterexample: `fclink_reconnect` and `videotx_shown`. The
others were met while modelling; each behaviour named here is among those of the module.

Link state and video receiver:

- Activity loaded before, or a camera report, takes the link out of SignalLost, against
  `README.md:282` "Only heartbeat transitions can override SignalLost" and `link_state.rs:90`
  "Does NOT override SignalLost": `telemetry_activity` loads Searching, the monitor stores SignalLost,
  then Connected is stored on top; and `camera_unavailable` stores NoCamera.
- `README.md:261-265` draws an arrow from NO_CAMERA back to SEARCHING for "camera_ok=true (from telem)";
  `camera_available` and `heartbeat_restored` store Connected, and nothing ever stores Searching again
  (`SearchingLeft` proves it).
- Once a frame was shown, camera reports are not consulted any more (`main.rs:578` of the
  ground): NoCamera then stays although the camera is back, against `link_state.rs:71` "Also
  handles transitioning from NoCamera to Connected if camera has become available".
- An idle visit passes a decoded block by, which comes out a ring later, against
  `receiver.rs:235` "strict in-order"; idle visits carry `next_block` past what the camera has
  sent, and good blocks are then discarded as "pre-wrap or already processed" (`receiver.rs:361`).
  The properties of `VideoReceiver` except these cases by `strayed`.
- `README.md:105` gives a heartbeat timeout of 500 ms; the ground's monitor uses 5 s.
- The head-of-line timer is not reset when the head advances to another missing block
  (`receiver.rs:338-350`): that head may be skipped with the age of an earlier one.

Flight-controller link, RC and TCP:

- Failsafe looks at channel 2 (`fc.rs:397`) and calls it throttle; the ground's joystick has the throttle
  on axis 1, that is channel 1 (`joystick.rs`). Throttle down alone does not end a failsafe,
  and a yaw stick in the middle holds on to it (`RcLink` keeps both channels).
- `fc.rs:365` says "requires throttle >= 1050 to clear failsafe"; line 399 refuses a
  throttle above 1050 and accepts one at or below.
- `fc.rs:62-64` says that `start` returns None without a flight controller; it always
  returns Some, so the RC file path in `main.rs:570-622` is never taken.
- `fc_reader` ends on EIO, ENODEV and ENXIO only, and retries end of file and every other error for ever
  (`fc.rs:214-219`, `246-250`). A removed device that shows in another way is never reopened,
  since the supervisor waits for the reader, against `fc.rs:60` "with automatic reconnect".
- After 500 ms without RC the pilot's override still stands; after 2 s failsafe values are
  sent instead, against `README.md:41` "releases override after 500ms (FC path)".
- Length prefix and payload are two unlocked writes on one stream, so that two senders can
  mix them, against `tcpsock.rs:16` "This ensures message boundaries are preserved"
  (`UndisturbedFraming` names the overlap as a cause).
- `recv` returns Ok(0) for a closed connection, which `rx_dispatcher` ignores: it reconnects
  after an error only, against `README.md:9` "handles reconnection". After a frame that is too large it
  waits in `accept` while the camera, which never reconnects by itself, keeps the old one.

Video transmitter:

- The loop that re-inserts an IDR unit never looks at `running`, against
  `video_tx.rs:375` "Set non-blocking mode so we can respond to shutdown promptly"; it is
  also why an IDR unit is never sent once SPS and PPS are known.
- A respawned camera's stdout is not set to `O_NONBLOCK` (`video_tx.rs:543-560`; the first one's is, at
  line 383): while it is silent `read` blocks, and `running` is not looked at and main's
  joins wait, against the same comment at line 375.
- A read ends anywhere, and what has been read so far counts as the end of a unit (`video_tx.rs:101`,
  `573-587`), against line 97 "Extract the next NAL unit from the buffer, including its start code": a
  unit is sent as far as it was read, its rest, without a start code, never; a cut SPS or PPS is
  stored and put before IDR units (638-643); the zeros of a cut start code go with the unit before it.
- A unit longer than one shard is begun, drained, and never finished, against `video_tx.rs:674`
  "finish it first"; the next unit panics, and shutdown then ends without video.
- `consumed` (`video_tx.rs:97-98`) is drained from the front of the buffer, not from the
  unit: a unit behind left-overs is sent again, and its end may be cut off.
- `VIDEO_HEALTHY` stays true after `run` gave up or panicked, against `main.rs:732` "encoder
  actively extracting/transmitting NAL units".
- Byte 6 of the video header is 1 or 0 (`video_tx.rs:255`), not the number of data shards of
  `README.md:78`; the receiver takes as many slots from it, so that a block whose first shard
  to arrive is parity emits nothing.
- A shard of 1372 to 1374 bytes is sent, and its group refused by the receiver
  (`MAX_SHARD_DATA` is 1374 on one side and 1371 on the other).
- A restart of the camera process counts FEC blocks from 0, which the receiver discards as old.

Channels, threads and discovery:

- Nobody receives from the high-priority channel, against `main.rs:327` "telemetry/RC/heartbeat
  preempt video shards" and `README.md:95`: the ground gets no telemetry and no MAVLink frames, and
  telemetry sender and forwarder block once 256 are queued.
- The camera drops whatever `recv_extract` finds nothing in (`main.rs:501-504`), which is every
  UDP and TCP packet; RC and MAVLink frames reach it over raw 802.11 only, against
  `README.md:9` "TCP (recommended)". The ground falls back to the whole packet.
- `parse_radiotap_rssi` aligns the channel field to 4, the standard to 2, so that after an odd number of
  such steps the byte behind or before the signal is shown. The signal is stored before magic and drone id
  are looked at (ground `main.rs:1333`): it is that of whoever was heard last.
- A raw socket hears its own frames (nothing looks at PACKET_OUTGOING), which carry the own drone's ID.
  A heartbeat of the ground that it hears back stamps `last_heartbeat` (ground `main.rs:1406-1413`)
  like the camera's: the link then looks alive without a camera.
- Closing the window does not end the ground station: `running` stays set and main waits
  in its first join. At the end it does not wait for discovery either, whose `stop` only clears a flag.
- Over UDP with a configured peer the ground's discovery runs all the same and replaces or forgets that
  address, against `rpv-proto/src/config.rs:24` "If set, skip discovery and use this directly".
- `main.rs:414-415` "HP channel full": `send` fails only when the receiver is gone; a full
  channel blocks.
- `main.rs:157` of the camera "will connect when found": the address is copied once, before.
- `discovery.rs:172-173` counts 60 cycles of 50 ms as 3 s; a cycle takes up to 150 ms.
  The drone's ID in a beacon is not compared with the node's own.

## 5. Not modelled, and the plan

In this order:

1. Proofs: every safety property of a run is proved. What is left are the steps behind the
   liveness properties that need no fairness: that a measure of what is still to be done never grows and
   that each of the fair actions makes it smaller.
2. `VideoReceiver`, the assembly in `VideoTx` and `Ground` each model a part of the ground's receiver;
   an abstract pipeline of NAL units, implemented by each, would join them.
3. The MAVLink bridge of the ground, which is only there as two threads that end; TCP from the
   ground to the camera, once the camera reads it.

Not modelled: Reed-Solomon arithmetic, JSON, MAVLink encoding and byte layouts (data without
control); the client's `reconnect` of `TcpSocket` and the RC file path, which nothing calls;
socket options and system calls; GPU, OSD and the inside of libavcodec; configuration files,
installers and fuzz targets.

## 6. Running

    tlc -config MCVideoReceiver.cfg MCVideoReceiver.tla
    tlapm VideoReceiverProofs.tla

A run is named after its `.cfg`, in lower case; modules called `MC...` give values to constants. Runs whose name has a suffix are expected to end with
a counterexample: it is the evidence for the disagreement named above.
