---------------------------- MODULE MCVideoReceiver ----------------------------
(***************************************************************************)
(* VideoReceiver, where the streams that lose packets are those whose      *)
(* numbers wrap, and a camera is restarted early in its numbers, over a    *)
(* network that stalls but holds a shard of an older block at most.        *)
(***************************************************************************)
EXTENDS VideoReceiver

CONSTANT RestartWaits   \* bound: MaxWaits of the network with a restart

Wrapping == 14

MCInit ==
  /\ Init
  /\ "loss" \in network => fec_block_seq = Wrapping
  /\ "restart" \in network => fec_block_seq # Wrapping

BlockByBlock ==
  "restart" \in network => /\ waits' <= RestartWaits
                           /\ sent' # sent => Cardinality(net) <= 1

MCNext == Next /\ BlockByBlock

MCSpec == MCInit /\ [][MCNext]_vars
===============================================================================
