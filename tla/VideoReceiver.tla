---------------------------- MODULE VideoReceiver -----------------------------
(***************************************************************************)
(* VideoReceiver::run (rpv-ground/src/video/receiver.rs): the ring of FEC  *)
(* blocks between the video_payload channel and the NAL assembler.         *)
(*                                                                         *)
(* A packet carries one shard of one block.  The receiver sees the block's *)
(* sequence number (u32 in the code), which a restarted camera process     *)
(* counts from 0 again; the number blk of all blocks ever sent is kept     *)
(* beside it so that properties can speak of the real order.  The camera   *)
(* and the network are the environment: shards of the last Window blocks   *)
(* may be in flight, and are delivered in any order, lost or duplicated.   *)
(* Instants are abstracted to timers that expire at any time.              *)
(***************************************************************************)
EXTENDS Integers, Sequences, FiniteSets

CONSTANTS
  DataShards,   \* DATA_SHARDS (4)
  TotalShards,  \* TOTAL_SHARDS (6)
  RingSize,     \* RING_SIZE (128)
  SeqMod,       \* 2^32, the range of block_seq
  ChanCap,      \* capacity of the video_payload channel (256)
  FirstSeqs,    \* numbers the camera may have come to when the receiver starts
  LastBlock,    \* bound: how many blocks it sends; one more if it is restarted
  Window,       \* bound: how many blocks may be in flight together
  MaxWaits,     \* bound: how often the head-of-line timer may expire
  Networks,     \* the environments to consider, each the set of its faults
  None

ASSUME RingAssumption ==
  /\ DataShards \in Nat \ {0}
  /\ TotalShards \in Nat
  /\ DataShards <= TotalShards
  /\ TotalShards < 2 * DataShards
  /\ RingSize \in Nat \ {0}
  /\ SeqMod \in Nat \ {0}
  /\ SeqMod % RingSize = 0
  /\ 4 * RingSize < SeqMod
  /\ ChanCap \in Nat \ {0}
  /\ FirstSeqs \subseteq 0..(SeqMod - 1)
  /\ LastBlock \in Nat
  /\ Window \in Nat \ {0}
  /\ MaxWaits \in Nat
  /\ LastBlock + MaxWaits < SeqMod \div 2   \* 2^31 in the code: years of video
  /\ Networks \subseteq SUBSET {"loss", "duplication", "stalls", "restart"}

VARIABLES
  network,    \* what may happen: loss, duplication, waits of STALL_TIMEOUT, a restart
  sent,       \* the camera's next block, counted from 1
  fec_block_seq,  \* the sequence number of its next block
  restart,    \* history: None, or the first block of the restarted camera process and
              \* what next_block was then
  net,        \* packets in flight
  chan,       \* the video_payload channel
  blocked,    \* the thread is inside the blocking rx.recv()
  blocks,     \* partial blocks, by slot
  completed,  \* decoded blocks that wait for their turn, by slot
  next_block, \* the sequence number to emit next, None before the first packet
  hol,        \* head_of_line_stall_start: None, or the head it was started for
  hol_expired,    \* it started more than STALL_TIMEOUT ago
  waits,          \* how often that happened
  decode_stale,   \* last_decode_time is more than STALL_TIMEOUT ago
  out,        \* history: the blocks handed to emit_block
  decoded,    \* history: the block numbers that were reconstructed
  strayed,    \* history: the receiver skipped while idle, or accepted a shard
              \* RingSize or more blocks ahead
  moved       \* history: by how much next_block advanced since the camera was
              \* restarted, up to SeqMod

env  == <<network, sent, fec_block_seq, restart, net>>
hist == <<out, decoded, strayed, moved>>
vars == <<network, sent, fec_block_seq, restart, net, chan, blocked, blocks, completed,
          next_block, hol, hol_expired, waits, decode_stale, out, decoded, strayed, moved>>

Shards  == 0..(TotalShards - 1)
Slots   == 0..(RingSize - 1)
SeqNums == 0..(SeqMod - 1)
Blocks  == 1..(LastBlock + 1)
Packets == [blk : Blocks, idx : Shards, seq : SeqNums]

PartialBlock   == [seq : SeqNums, got : SUBSET Packets, received : Nat]
CompletedBlock == [seq : SeqNums, got : SUBSET Packets]
Restarts       == [blk : Nat, head : SeqNums \cup {None}]

ASSUME NoneAssumption ==
  None \notin SeqNums /\ None \notin PartialBlock /\ None \notin CompletedBlock
  /\ None \notin Restarts

TypeOK ==
  /\ network \in Networks
  /\ sent \in Nat
  /\ fec_block_seq \in SeqNums
  /\ restart \in Restarts \cup {None}
  /\ net \subseteq Packets
  /\ chan \in Seq(Packets)
  /\ Len(chan) <= ChanCap
  /\ blocked \in BOOLEAN
  /\ blocks \in [Slots -> PartialBlock \cup {None}]
  /\ completed \in [Slots -> CompletedBlock \cup {None}]
  /\ next_block \in SeqNums \cup {None}
  /\ hol \in SeqNums \cup {None}
  /\ hol_expired \in BOOLEAN
  /\ waits \in 0..MaxWaits
  /\ decode_stale \in BOOLEAN
  /\ out \in Seq(Blocks)
  /\ decoded \subseteq Blocks
  /\ strayed \in BOOLEAN
  /\ moved \in 0..SeqMod

Slot(seq) == seq % RingSize
Succ(seq) == (seq + 1) % SeqMod
Dist(seq, base) == (seq - base) % SeqMod   \* wrapping_sub

Init ==
  /\ network \in Networks
  /\ sent = 1
  /\ fec_block_seq \in FirstSeqs
  /\ restart = None
  /\ net = {}
  /\ chan = <<>>
  /\ blocked = FALSE
  /\ blocks = [i \in Slots |-> None]
  /\ completed = [i \in Slots |-> None]
  /\ next_block = None
  /\ hol = None
  /\ hol_expired = FALSE
  /\ waits = 0
  /\ decode_stale = FALSE
  /\ out = <<>>
  /\ decoded = {}
  /\ strayed = FALSE
  /\ moved = 0

-----------------------------------------------------------------------------
\* Environment: the camera sends all shards of the next block.  What is still in
\* flight of a block Window or more behind is lost; a network that loses nothing
\* delivers it first.
SendBlock ==
  /\ sent <= LastBlock \/ (sent = LastBlock + 1 /\ restart # None)
  /\ net' = {p \in net : sent - p.blk < Window}
            \cup [blk : {sent}, idx : Shards, seq : {fec_block_seq}]
  /\ "loss" \in network \/ net \subseteq net'
  /\ sent' = sent + 1
  /\ fec_block_seq' = Succ(fec_block_seq)
  /\ UNCHANGED <<network, restart, chan, blocked, blocks, completed, next_block, hol,
                 hol_expired, waits, decode_stale, hist>>

\* The camera process is restarted, and its blocks are numbered from 0 again.
RestartCamera ==
  /\ "restart" \in network
  /\ restart = None
  /\ restart' = [blk |-> sent, head |-> next_block]
  /\ fec_block_seq' = 0
  /\ UNCHANGED <<network, sent, net, chan, blocked, blocks, completed, next_block, hol,
                 hol_expired, waits, decode_stale, hist>>

\* Mutated form: an unbounded video_payload channel.
DeliverUnbounded(p) ==
  /\ p \in net
  /\ chan' = Append(chan, p)
  /\ net' \in {net \ {p}} \cup (IF "duplication" \in network THEN {net} ELSE {})
  /\ UNCHANGED <<network, sent, fec_block_seq, restart, blocked, blocks, completed,
                 next_block, hol, hol_expired, waits, decode_stale, hist>>

\* rx_dispatcher offers the shard to the bounded channel and drops it when full.
Deliver(p) ==
  /\ p \in net
  /\ chan' = IF Len(chan) < ChanCap THEN Append(chan, p) ELSE chan
  /\ "loss" \in network \/ Len(chan) < ChanCap
  /\ net' \in {net \ {p}} \cup (IF "duplication" \in network THEN {net} ELSE {})
  /\ UNCHANGED <<network, sent, fec_block_seq, restart, blocked, blocks, completed,
                 next_block, hol, hol_expired, waits, decode_stale, hist>>

\* More than STALL_TIMEOUT passes since the head-of-line timer started, or since
\* the last decode (last_decode_time is set when the thread starts).
HolTimerExpires ==
  /\ "stalls" \in network
  /\ hol # None
  /\ ~hol_expired
  /\ waits < MaxWaits
  /\ hol_expired' = TRUE
  /\ waits' = waits + 1
  /\ UNCHANGED <<env, chan, blocked, blocks, completed, next_block, hol,
                 decode_stale, hist>>

DecodeTimerExpires ==
  /\ "stalls" \in network
  /\ ~decode_stale
  /\ decode_stale' = TRUE
  /\ UNCHANGED <<env, chan, blocked, blocks, completed, next_block, hol,
                 hol_expired, waits, hist>>

-----------------------------------------------------------------------------
\* The wrapping difference has its top bit clear.
is_future_block(seq, base) ==
  seq # base /\ Dist(seq, base) < SeqMod \div 2

(***************************************************************************)
(* The effect of one packet is computed on a ring record r:                *)
(*   next, completed   the new next_block and completed                    *)
(*   out               the blocks handed to emit_block so far              *)
(*   fresh             whether last_decode_time was set to now             *)
(***************************************************************************)
\* The camera's number of a decoded block.
BlkOf(c) == (CHOOSE p \in c.got : TRUE).blk

\* Mutated form: the loop of drain_completed runs once.
DrainedSlotsOnce(c, n) == {i \in Slots : i = Slot(n) /\ c[i] # None}

\* drain_completed takes the slots from n on until the first empty one.  It does
\* not compare the sequence number it finds with the one it expects.
DrainedSlots(c, n) ==
  {i \in Slots : \A j \in 0..((i - n) % RingSize) : c[Slot(n + j)] # None}

\* Mutated form: the slots are read but not emptied (as_ref for take).
drain_completed_keeping(r) ==
  LET k == Cardinality(DrainedSlots(r.completed, r.next))
  IN  [next      |-> (r.next + k) % SeqMod,
       completed |-> r.completed,
       out       |-> r.out \o [j \in 1..k |-> BlkOf(r.completed[Slot(r.next + j - 1)])],
       fresh     |-> TRUE]

drain_completed(r) ==
  LET taken == DrainedSlots(r.completed, r.next)
      k     == Cardinality(taken)
  IN  [next      |-> (r.next + k) % SeqMod,
       completed |-> [i \in Slots |-> IF i \in taken THEN None
                                                     ELSE r.completed[i]],
       out       |-> r.out \o [j \in 1..k |-> BlkOf(r.completed[Slot(r.next + j - 1)])],
       fresh     |-> TRUE]

\* The head-of-line check, made for every packet once next_block is n.
HeadMissing(n) == completed[Slot(n)] = None
HolSkips(n)    == HeadMissing(n) /\ hol # None /\ hol_expired

AfterHolCheck(n) ==
  LET from(m) == [next |-> m, completed |-> completed, out |-> <<>>, fresh |-> FALSE]
  IN  IF HolSkips(n) THEN drain_completed(from(Succ(n))) ELSE from(n)

HolTimer(n) ==
  IF ~HeadMissing(n) \/ HolSkips(n) THEN None
  ELSE IF hol = None THEN n ELSE hol

\* Mutated form: late shards are taken in again.
DiscardedNever(seq, r) == FALSE

Discarded(seq, r) == seq # r.next /\ ~is_future_block(seq, r.next)

\* Mutated form: the sequence numbers are not compared.
EvictAlways(seq, r) == [r EXCEPT !.completed[Slot(seq)] = None]

\* A decoded block of another sequence number makes room in the slot.
Evict(seq, r) ==
  LET old == r.completed[Slot(seq)]
  IN  IF old # None /\ old.seq # seq
        THEN [r EXCEPT !.completed[Slot(seq)] = None] ELSE r

\* Mutated form: whatever block is in the slot is taken to be the shard's.
ExistingAnyBlock(seq) ==
  LET b == blocks[Slot(seq)]
  IN  IF b # None THEN b ELSE [seq |-> seq, got |-> {}, received |-> 0]

\* The partial block the shard joins: one of another sequence number is dropped.
Existing(seq) ==
  LET b == blocks[Slot(seq)]
  IN  IF b # None /\ b.seq = seq
        THEN b
        ELSE [seq |-> seq, got |-> {}, received |-> 0]

\* Mutated form: the counter is incremented before the duplicate check.
WithShardCountsAll(b, p) ==
  [b EXCEPT !.received = @ + 1,
            !.got = {q \in @ : q.idx # p.idx} \cup {p}]

\* A duplicate replaces the stored shard and is not counted again.  Lengths
\* are left out: one of another length leaves shard_sizes as it was.
WithShard(b, p) ==
  LET dup == \E q \in b.got : q.idx = p.idx
  IN  [seq      |-> b.seq,
       got      |-> {q \in b.got : q.idx # p.idx} \cup {p},
       received |-> IF dup THEN b.received ELSE b.received + 1]

Indices(b) == {q.idx : q \in b.got}
CanReconstruct(b) == Cardinality(Indices(b)) >= DataShards

\* The decoded block is stored, and emitted with its successors if it is the head.
Complete(b, r) ==
  LET stored == [r EXCEPT !.completed[Slot(b.seq)] =
                   [seq |-> b.seq, got |-> b.got]]
  IN  IF b.seq = r.next THEN drain_completed(stored) ELSE stored

\* How far next_block has come since the restart when it becomes n.
MovedTo(n) ==
  LET far == moved + Dist(n, next_block)
  IN  IF restart = None \/ next_block = None THEN moved
      ELSE IF far < SeqMod THEN far ELSE SeqMod

MoveHead(n) == next_block' = n /\ moved' = MovedTo(n)

Commit(r) ==
  /\ completed' = r.completed
  /\ MoveHead(r.next)
  /\ out' = out \o r.out
  /\ decode_stale' = (decode_stale /\ ~r.fresh)

PutPartial(seq, b) == blocks' = [blocks EXCEPT ![Slot(seq)] = b]

\* The loop body from the head-of-line check to the end of the iteration.
Handle(p, seq, r) ==
  LET b == WithShard(Existing(seq), p)
      e == Evict(seq, r)
  IN  \/ /\ Discarded(seq, r)
         /\ Commit(r)
         /\ UNCHANGED <<blocks, decoded, strayed>>
      \/ /\ ~Discarded(seq, r)
         /\ strayed' = (strayed \/ ( /\ is_future_block(seq, r.next)
                                    /\ Dist(seq, r.next) >= RingSize))
         /\ \/ /\ b.received < DataShards
               /\ PutPartial(seq, b)
               /\ Commit(e)
               /\ UNCHANGED decoded
            \/ /\ b.received >= DataShards
               /\ PutPartial(seq, None)
               /\ IF CanReconstruct(b)
                    THEN Commit(Complete(b, e)) /\ decoded' = decoded \cup {p.blk}
                    ELSE Commit(e) /\ UNCHANGED decoded

Receive ==
  /\ chan # <<>>
  /\ LET p   == Head(chan)
         seq == p.seq
         n   == IF next_block = None THEN seq ELSE next_block
     IN  /\ Handle(p, seq, AfterHolCheck(n))
         /\ hol' = HolTimer(n)
         /\ hol_expired' = (hol_expired /\ hol' # None)
  /\ chan' = Tail(chan)
  /\ blocked' = FALSE
  /\ UNCHANGED <<env, waits>>

\* try_recv finds the channel empty.  If nothing was decoded for STALL_TIMEOUT
\* the head is given up, whether or not any of it is missing; last_decode_time
\* is not touched.  Then the thread blocks in recv.
IdleVisit ==
  /\ chan = <<>>
  /\ ~blocked
  /\ blocked' = TRUE
  /\ IF next_block # None /\ decode_stale
       THEN /\ blocks' = [blocks EXCEPT ![Slot(next_block)] = None]
            /\ MoveHead(Succ(next_block))
            /\ strayed' = TRUE
       ELSE UNCHANGED <<blocks, next_block, strayed, moved>>
  /\ UNCHANGED <<env, chan, completed, hol, hol_expired, waits, decode_stale, out,
                 decoded>>

Sender   == SendBlock \/ RestartCamera \/ (\E p \in net : Deliver(p))
Timers   == HolTimerExpires \/ DecodeTimerExpires
Receiver == Receive \/ IdleVisit

Next == Sender \/ Timers \/ Receiver

Spec == Init /\ [][Next]_vars

-----------------------------------------------------------------------------
Filled(ring) == {i \in Slots : ring[i] # None}

\* No block mixes shards of two blocks, although the two share a ring slot: every
\* partial or decoded block lies in its own slot and holds shards of one block of
\* the camera, the one its sequence number names.
BlocksAreNotMixed ==
  /\ \A i \in Filled(blocks) :
       /\ Slot(blocks[i].seq) = i
       /\ \A p \in blocks[i].got : p.seq = blocks[i].seq
  /\ \A i \in Filled(completed) :
       /\ Slot(completed[i].seq) = i
       /\ \A p \in completed[i].got : p.seq = completed[i].seq

\* No block is given up as undecodable: a shard that brings the counter to
\* DataShards completes a block that really holds that many distinct shards,
\* duplicated packets and slots taken over from other blocks notwithstanding.
CompleteIsDecodable ==
  \A j \in DOMAIN chan :
    LET b == WithShard(Existing(chan[j].seq), chan[j])
    IN  b.received >= DataShards => CanReconstruct(b)

\* Both: what the decoder is given was sent as one block.
RingIsSound == BlocksAreNotMixed /\ CompleteIsDecodable

\* The receiver keeps the promise of BlockStream: as long as it never skipped while
\* idle, never held blocks RingSize or more ahead, and the camera was not restarted,
\* blocks reach the decoder in the camera's order; and whatever it skips, none twice,
\* though two shards of a block arrive after it was decoded.
Stream ==
  INSTANCE BlockStream
    WITH once <- {"duplication", "restart"} \cap network = {},
         ordered <- ~strayed /\ restart = None
ImplementsStream == Stream!Spec

\* A restarted camera numbers its blocks from 0, and receiver.rs:346-349 takes what
\* is behind next_block for late shards.  Over any network, whatever the receiver
\* skipped meanwhile, idle or at a missing head: of the new process no block is shown
\* whose number had been passed before the restart, so that the screen stays dark for
\* at least as long as the camera had been sending.  Blocks of the ring, that wait in
\* their slots without being compared to the number expected there, are no way
\* round.  (While the numbers are below 2^31: beyond, small ones are ahead.)
DarkUntilCaughtUp ==
  /\ restart # None
  /\ restart.head # None
  /\ restart.head + moved < SeqMod \div 2
  => \A j \in DOMAIN out :
       out[j] >= restart.blk => out[j] - restart.blk >= restart.head

\* As long as it never strayed and the camera was not restarted, the receiver loses
\* no decoded block: it was emitted or is still
\* waiting in its slot, so neither late shards nor skips discard finished work.
DecodedIsKeptUnlessStrayed ==
  ~strayed /\ restart = None =>
    \A b \in decoded :
      \/ \E j \in DOMAIN out : out[j] = b
      \/ \E i \in Filled(completed) : BlkOf(completed[i]) = b

\* On a network that loses nothing and never waits, every block from the first one
\* accepted on has been emitted when nothing is left in flight.
AllDeliveredWhenIdeal ==
  /\ network \cap {"loss", "stalls", "restart"} = {}
  /\ ~strayed
  /\ net = {} /\ chan = <<>> /\ next_block # None
  => next_block = fec_block_seq
==============================================================================
