------------------------------- MODULE VideoTx -------------------------------
(***************************************************************************)
(* video_tx::run (rpv-cam/src/video_tx.rs): reading the camera process,    *)
(* cutting its stream into NAL units, fragmenting them into FEC groups and *)
(* restarting the process; and emit_block of the ground's VideoReceiver,   *)
(* which puts the fragments together again.                                *)
(*                                                                         *)
(* A cell stands for some bytes of a NAL unit: the zeros of its start code *)
(* (pos 0), the one that ends the start code (pos 1), or a part of its     *)
(* payload, the header first (pos 2 and on).  A read ends behind any cell, *)
(* so inside a start code, too.  Lengths (shards, headers, buffers) are    *)
(* counted in cells.  The FEC blocks between the two sides are the subject *)
(* of VideoReceiver; here a group is lost or emitted at once.              *)
(***************************************************************************)
EXTENDS Integers, Sequences, SequencesExt, FiniteSets

CONSTANTS
  FragHdr,       \* the fragment header, frag_num and nal_id (5 bytes)
  MaxShard,      \* MAX_SHARD_DATA of the camera (1374 bytes)
  RxMaxShard,    \* MAX_SHARD_DATA of the ground (1371 bytes)
  MaxNalBuf,     \* MAX_NAL_BUF (512 KiB)
  ReadMax,       \* size of read_buf, and of the pipe (64 KiB)
  NalMod,        \* 2^32, the range of nal_seq
  FreeRestarts,  \* restarts of the camera that may follow each other fast (3)
  Lives,         \* bound: camera processes started
  Nals,          \* bound: NAL units they write, all together
  ParamLens,     \* bound: the payload cells an SPS or PPS may have
  PictureLens,   \* bound: the payload cells any other NAL unit may have
  None

ASSUME VideoTxAssumption ==
  /\ FragHdr \in Nat \ {0}
  /\ MaxShard \in Nat /\ MaxShard > FragHdr + 2
  /\ RxMaxShard \in Nat /\ RxMaxShard <= MaxShard
  /\ ReadMax \in Nat \ {0}
  /\ MaxNalBuf \in Nat /\ MaxNalBuf > ReadMax
  /\ NalMod \in Nat \ {0}
  /\ FreeRestarts \in Nat
  /\ Lives \in Nat \ {0}
  /\ Nals \in Nat
  /\ ParamLens \subseteq Nat \ {0} /\ PictureLens \subseteq Nat \ {0}
     \* an SPS or PPS fits into a slot, with the zeros of the next start code
  /\ \A len \in ParamLens : FragHdr + len + 3 <= MaxShard
  /\ None \notin Nat

VARIABLES
  running,   \* the flag Ctrl-C clears
  alive,     \* the camera process runs
  life,      \* which camera process it is; camera_restart_count is life - 1
  made,      \* NAL units the camera processes have begun
  pipe,      \* cells written and not read
  pc,        \* "top" of the loop, in "read", in the loop over "nals", or how run ended
  nal_buf,
  sps,       \* stored_sps
  pps,       \* stored_pps
  nal_seq,
  slot0,     \* cells in slot 0 of the arena that wait to be sent
  pending,   \* the offset of pending_nal, or None
  healthy,   \* VIDEO_HEALTHY
  assembly,  \* assembly_map of the ground
  shown      \* history: the last NAL unit given to the decoder

camera   == <<alive, life, made, pipe>>
receiver == <<assembly, shown>>
vars     == <<running, alive, life, made, pipe, pc, nal_buf, sps, pps, nal_seq, slot0,
              pending, healthy, assembly, shown>>

Kinds  == {"sps", "pps", "idr", "slice"}
Params == {"sps", "pps"}
Cell   == [life : 1..Lives, nal : 1..Nals, kind : Kinds, pos : Nat, end : BOOLEAN]
NalIds == 0..(NalMod - 1)
Ended  == {"stopped", "gave_up", "panicked"}

TypeOK ==
  /\ running \in BOOLEAN
  /\ alive \in BOOLEAN
  /\ life \in 1..Lives
  /\ made \in 0..Nals
  /\ pipe \in Seq(Cell)
  /\ pc \in {"top", "read", "nals"} \cup Ended
  /\ nal_buf \in Seq(Cell)
  /\ sps \in Seq(Cell)
  /\ pps \in Seq(Cell)
  /\ nal_seq \in NalIds
  /\ slot0 \in Seq(Cell)
  /\ pending \in Nat \cup {None}
  /\ healthy \in BOOLEAN
  /\ assembly \in [NalIds -> Seq(Cell) \cup {None}]
  /\ shown \in Seq(Cell)

\* The camera process has been spawned.
Init ==
  /\ running = TRUE
  /\ alive = TRUE /\ life = 1 /\ made = 0 /\ pipe = <<>>
  /\ pc = "top"
  /\ nal_buf = <<>> /\ sps = <<>> /\ pps = <<>>
  /\ nal_seq = 0 /\ slot0 = <<>> /\ pending = None
  /\ healthy = FALSE
  /\ assembly = [id \in NalIds |-> None]
  /\ shown = <<>>

-----------------------------------------------------------------------------
(* Environment: the camera process, and the user.                          *)

NalOf(kind, len) ==
  [i \in 1..len + 2 |->
     [life |-> life, nal |-> made + 1, kind |-> kind, pos |-> i - 1, end |-> i = len + 2]]

LensOf(kind) == IF kind \in Params THEN ParamLens ELSE PictureLens

CameraWrites ==
  /\ alive /\ made < Nals
  /\ \E kind \in Kinds : \E len \in LensOf(kind) :
       /\ Len(pipe) + len + 2 <= ReadMax
       /\ pipe' = pipe \o NalOf(kind, len)
  /\ made' = made + 1
  /\ UNCHANGED <<running, alive, life, pc, nal_buf, sps, pps, nal_seq, slot0, pending,
                 healthy, receiver>>

CameraDies ==
  /\ alive
  /\ alive' = FALSE
  /\ UNCHANGED <<running, life, made, pipe, pc, nal_buf, sps, pps, nal_seq, slot0,
                 pending, healthy, receiver>>

\* The handler of Ctrl-C.
Interrupt ==
  /\ running
  /\ running' = FALSE
  /\ UNCHANGED <<camera, pc, nal_buf, sps, pps, nal_seq, slot0, pending, healthy,
                 receiver>>

World == CameraWrites \/ CameraDies \/ Interrupt

-----------------------------------------------------------------------------
(* The top of the loop: running, try_wait, read.                           *)

\* The camera process is killed on the way out.
Stop ==
  /\ pc = "top" /\ ~running
  /\ pc' = "stopped"
  /\ alive' = FALSE
  /\ UNCHANGED <<running, life, made, pipe, nal_buf, sps, pps, nal_seq, slot0, pending,
                 healthy, receiver>>

\* camera_restart_count is never reset, so after FreeRestarts restarts any death
\* within five seconds of the last restart (it may always be one) is the end.
GiveUp ==
  /\ pc = "top" /\ running /\ ~alive
  /\ life > FreeRestarts
  /\ pc' = "gave_up"
  /\ UNCHANGED <<running, camera, nal_buf, sps, pps, nal_seq, slot0, pending, healthy,
                 receiver>>

\* Mutated form: nal_buf is not cleared.
ResetKeepsBuffer ==
  /\ nal_buf' = nal_buf /\ nal_seq' = 0
  /\ slot0' = <<>> /\ pending' = None
  /\ healthy' = FALSE

\* Mutated form: pending_nal is not cleared.
ResetKeepsPending ==
  /\ nal_buf' = <<>> /\ nal_seq' = 0
  /\ slot0' = <<>> /\ pending' = pending
  /\ healthy' = FALSE

\* What a restart sets back; the stored SPS and PPS stay.
Reset ==
  /\ nal_buf' = <<>> /\ nal_seq' = 0
  /\ slot0' = <<>> /\ pending' = None
  /\ healthy' = FALSE

Restart ==
  /\ pc = "top" /\ running /\ ~alive
  /\ life < Lives
  /\ Reset
  /\ alive' = TRUE
  /\ life' = life + 1
  /\ pipe' = <<>>
  /\ UNCHANGED <<running, made, pc, sps, pps, receiver>>

RestartFails ==
  /\ pc = "top" /\ running /\ ~alive
  /\ Reset
  /\ pc' = "gave_up"
  /\ UNCHANGED <<running, camera, sps, pps, receiver>>

\* try_wait finds the process running.
StillAlive ==
  /\ pc = "top" /\ running /\ alive
  /\ pc' = "read"
  /\ UNCHANGED <<running, camera, nal_buf, sps, pps, nal_seq, slot0, pending, healthy,
                 receiver>>

Top == Stop \/ GiveUp \/ Restart \/ RestartFails \/ StillAlive

-----------------------------------------------------------------------------
(* The read.  The process may have died since it was looked at.            *)

\* find_start_code: where the zeros of a whole start code are.
Starts(buf) == {i \in DOMAIN buf : i + 1 \in DOMAIN buf /\ buf[i].pos = 0 /\ buf[i + 1].pos = 1}
First(S)    == CHOOSE i \in S : \A j \in S : i <= j

\* Mutated form: too long a buffer is always emptied.
MadeRoomEmpty(n) == IF Len(nal_buf) + n <= MaxNalBuf THEN nal_buf ELSE <<>>

\* Before n more cells are appended: too long a buffer is cut at a start code in
\* its last three quarters, or emptied.
MadeRoom(n) ==
  LET late == {i \in Starts(nal_buf) : i > Len(nal_buf) \div 4}
  IN  IF Len(nal_buf) + n <= MaxNalBuf THEN nal_buf
      ELSE IF late = {} THEN <<>>
      ELSE SubSeq(nal_buf, First(late), Len(nal_buf))

\* A read ends anywhere, in the middle of a start code or of a parameter set, too.
Read ==
  /\ pc = "read"
  /\ \E n \in 1..Len(pipe) :
       /\ n <= ReadMax
       /\ nal_buf' = MadeRoom(n) \o SubSeq(pipe, 1, n)
       /\ pipe' = SubSeq(pipe, n + 1, Len(pipe))
  /\ pc' = "nals"
  /\ UNCHANGED <<running, alive, life, made, sps, pps, nal_seq, slot0, pending, healthy,
                 receiver>>

\* An empty pipe: Ok(0) behind a dead process, WouldBlock otherwise.  But only the
\* first process's stdout was set to O_NONBLOCK: behind a later one that runs and is
\* silent, read blocks.
ReadNothing ==
  /\ pc = "read" /\ pipe = <<>>
  /\ ~alive \/ life = 1
  /\ pc' = "top"
  /\ UNCHANGED <<running, camera, nal_buf, sps, pps, nal_seq, slot0, pending, healthy,
                 receiver>>

ReadFails ==
  /\ pc = "read"
  /\ nal_buf' = <<>>
  /\ pc' = "top"
  /\ UNCHANGED <<running, camera, sps, pps, nal_seq, slot0, pending, healthy, receiver>>

Reading == Read \/ ReadNothing \/ ReadFails

-----------------------------------------------------------------------------
(* The loop over the NAL units in the buffer.  It does not look at running.*)

\* Mutated form: the NAL unit goes on to the end of the buffer.
ExtractToTheEnd(buf) ==
  IF Starts(buf) = {} THEN <<>> ELSE SubSeq(buf, First(Starts(buf)), Len(buf))

\* The cells from the first start code to the next one, or to the end of what
\* has been read so far, with the zeros of a start code that was cut there.
Extract(buf) ==
  LET s == First(Starts(buf))
      later == {i \in Starts(buf) : i > s}
  IN  IF Starts(buf) = {} THEN <<>>
      ELSE SubSeq(buf, s, IF later = {} THEN Len(buf) ELSE First(later) - 1)

nal_data == Extract(nal_buf)

\* extract_next_nal_cursor: a start code alone is not a NAL unit yet.
Found == Len(nal_data) > 2

nal_type == nal_data[3].kind

\* Mutated form: only what precedes the NAL unit goes.
DrainedToStart == SubSeq(nal_buf, First(Starts(nal_buf)), Len(nal_buf))

\* As many cells as the NAL unit has go from the front of the buffer, where it
\* need not lie: what precedes its start code goes first.
Drained == SubSeq(nal_buf, Len(nal_data) + 1, Len(nal_buf))

NoNal ==
  /\ pc = "nals" /\ ~Found
  /\ pc' = "top"
  /\ UNCHANGED <<running, camera, nal_buf, sps, pps, nal_seq, slot0, pending, healthy,
                 receiver>>

Taken ==
  /\ pc = "nals" /\ Found
  /\ healthy' = TRUE

HasParams == sps # <<>> /\ pps # <<>>
Injects   == nal_type = "idr" /\ HasParams

\* An IDR unit is put back behind the stored SPS and PPS.
Inject ==
  /\ Taken /\ Injects
  /\ nal_buf' = sps \o pps \o nal_data \o Drained
  /\ UNCHANGED <<running, camera, pc, sps, pps, nal_seq, slot0, pending, receiver>>

Store ==
  /\ sps' = IF nal_type = "sps" THEN nal_data ELSE sps
  /\ pps' = IF nal_type = "pps" THEN nal_data ELSE pps

MaxData == MaxShard - FragHdr

\* Mutated form: nal_seq does not wrap.
NextIdUnbounded == nal_seq + 1

NextId == (nal_seq + 1) % NalMod

\* emit_block takes a fragment f = [num, id, data] of an emitted block.
emit_block(f) ==
  LET known == assembly[f.id] # None
      grown == assembly[f.id] \o f.data
      stored(x, to) == [assembly |-> [assembly EXCEPT ![f.id] = x], shown |-> to]
  IN  CASE f.num = 0 -> [assembly |-> assembly, shown |-> f.data]
        [] f.num = 1 -> stored(f.data, shown)
        [] f.num = 2 /\ known -> stored(grown, shown)
        [] f.num = 3 /\ known -> stored(None, grown)
        [] OTHER -> [assembly |-> assembly, shown |-> shown]

\* A group is lost if the ground finds a shard in it too long.  Otherwise it is
\* emitted as far as the header of its first shard to arrive says: one slot if it
\* was a data shard, none if it was a parity shard.
Transmit(f) ==
  \/ UNCHANGED receiver
  \/ /\ FragHdr + Len(f.data) <= RxMaxShard
     /\ assembly' = emit_block(f).assembly
     /\ shown' = emit_block(f).shown

\* A NAL unit that fits into slot 0: it is fragment 1, and its group is sent.
SendShort ==
  /\ Taken /\ ~Injects /\ pending = None
  /\ Len(nal_data) <= MaxData
  /\ Store
  /\ Transmit([num |-> 1, id |-> nal_seq, data |-> nal_data])
  /\ nal_seq' = NextId
  /\ nal_buf' = Drained
  /\ UNCHANGED <<running, camera, pc, slot0, pending>>

\* A longer one: its first fragment fills slot 0, and waits there for the next turn
\* of the loop, while the whole of it is drained.
BeginLong ==
  /\ Taken /\ ~Injects /\ pending = None
  /\ Len(nal_data) > MaxData
  /\ Store
  /\ slot0' = SubSeq(nal_data, 1, MaxData)
  /\ pending' = FragHdr + MaxData
  /\ nal_seq' = NextId
  /\ nal_buf' = Drained
  /\ UNCHANGED <<running, camera, pc, receiver>>

\* The next NAL unit finds one pending, in a slot that is full: writing the header's
\* nal_id behind the slot's end (MAX_SHARD_DATA - offset underflows) panics.
Overrun ==
  /\ Taken /\ ~Injects /\ pending # None
  /\ pending + 1 > MaxShard
  /\ Store
  /\ nal_seq' = NextId
  /\ pc' = "panicked"
  /\ UNCHANGED <<running, camera, nal_buf, slot0, pending, receiver>>

NalLoop == NoNal \/ Inject \/ SendShort \/ BeginLong \/ Overrun

\* cleanup_fragments of the receiver, FRAGMENT_TIMEOUT after the first fragment.
Cleanup ==
  /\ \E id \in NalIds :
       /\ assembly[id] # None
       /\ assembly' = [assembly EXCEPT ![id] = None]
  /\ UNCHANGED <<running, camera, pc, nal_buf, sps, pps, nal_seq, slot0, pending, healthy,
                 shown>>

Thread == Top \/ Reading \/ NalLoop

Next == World \/ Thread \/ Cleanup

Spec == Init /\ [][Next]_vars

\* The loop sleeps 100 microseconds at most, then goes on, unless read blocks.
FairSpec == Spec /\ WF_vars(Top \/ Read \/ ReadNothing \/ NalLoop)

-----------------------------------------------------------------------------
(* Properties.                                                             *)

\* What is sent, or begun to be sent, as one NAL unit is the beginning of one NAL
\* unit: its start code and the payload behind it, nothing left out and nothing of
\* another one mixed in, however reads cut the stream, buffers overflow or reads
\* fail; but for the zeros of the next start code, at its end, which a read cut off.
\* (An IDR unit that is re-inserted for ever is excepted: see Inject.)
SentIsOneNal ==
  pc = "nals" /\ Found /\ ~Injects =>
    \A i \in DOMAIN nal_data :
      \/ nal_data[i].nal = nal_data[1].nal /\ nal_data[i].pos = i - 1
      \/ nal_data[i].pos = 0 /\ i = Len(nal_data)

\* Once a camera process is dead and replaced, only its SPS and PPS are used
\* again (with zeros that a read cut off behind them): no picture of it is in the
\* buffer or in the arena, whatever the restart interrupted.
OnlyParamsOutliveCamera ==
  \A c \in ToSet(nal_buf) \cup ToSet(slot0) : c.life = life \/ c.kind \in Params \/ c.pos = 0

\* The thread dies of a NAL unit that is too long for one slot, at the first
\* NAL unit after it, but never of one that an earlier camera process wrote.
PanicNeedsLongNal ==
  pc = "panicked" =>
    /\ Len(slot0) = MaxData
    /\ slot0[1].life = life

StartWaits(n) == \E i \in Starts(nal_buf) : nal_buf[i + 1].nal = n
IdrWaits      == HasParams /\ \E c \in ToSet(nal_buf) : c.kind = "idr"

\* A start code that is whole in the buffer leaves it only with the NAL unit that is
\* taken from it, or when the buffer is emptied: neither draining from the front,
\* where the NAL unit need not lie, nor cutting a full buffer loses one.  (One that a
\* read cuts is lost: its zeros leave with the NAL unit before it.)
NoStartIsLost ==
  [][\A n \in 1..Nals :
       StartWaits(n) /\ ~StartWaits(n)' =>
         (pc = "nals" /\ nal_data[2].nal = n) \/ (nal_buf' = <<>> /\ pc # "nals")]_vars

\* The loop over the NAL units comes to an end, although it drains the buffer from
\* the front and may find the same NAL unit again and again behind what precedes it;
\* unless an IDR unit is to be sent behind its parameter sets, and is put back for
\* ever.
LoopEnds == pc = "nals" ~> (pc # "nals" \/ IdrWaits)

-----------------------------------------------------------------------------
(* Claims of comments.                                                     *)

\* receiver.rs:158 "Start of a multi-fragment NAL", receiver.rs:152 "Single-fragment
\* NAL": a NAL unit that the ground holds whole is given to the decoder.
WholeNalIsShown ==
  (\E id \in NalIds : assembly[id] # None /\ assembly[id][Len(assembly[id])].end)
  ~> shown # <<>>
=============================================================================
