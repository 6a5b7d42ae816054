------------------------------ MODULE BlockStream ------------------------------
(***************************************************************************)
(* What the ground station's video receiver promises to the decoder: of    *)
(* the blocks the camera has sent it hands on some, each once and in the   *)
(* camera's order.  Reordering, losses and late shards leave gaps but do   *)
(* not break this; only a receiver that gives up its place in the stream   *)
(* does, and then for good.  VideoReceiver implements it.                  *)
(***************************************************************************)
EXTENDS Integers, Sequences, SequencesExt

VARIABLES
  once,     \* every shard arrives at most once, for good
  sent,     \* the camera's next block number
  ordered,  \* the receiver still has its place in the stream
  out       \* the blocks handed on

vars == <<once, sent, ordered, out>>

Increasing(s) == \A j, k \in DOMAIN s : j < k => s[j] < s[k]
Distinct(s)   == \A j, k \in DOMAIN s : s[j] = s[k] => j = k

Init ==
  /\ once \in BOOLEAN
  /\ sent = 1
  /\ ordered = TRUE
  /\ out = <<>>

Send ==
  /\ sent' = sent + 1
  /\ UNCHANGED <<once, ordered, out>>

\* Some blocks that were sent are handed on.
HandOn ==
  /\ IsPrefix(out, out')
  /\ \A j \in DOMAIN out' : out'[j] \in 1..(sent - 1)
  /\ ordered' => Increasing(out')
  /\ once => Distinct(out')
  /\ ordered' => ordered
  /\ UNCHANGED <<once, sent>>

Next == Send \/ HandOn

Spec == Init /\ [][Next]_vars
===============================================================================
