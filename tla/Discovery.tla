------------------------------ MODULE Discovery ------------------------------
(***************************************************************************)
(* Discovery over UDP (rpv-proto/src/discovery.rs) on the camera and on    *)
(* the ground station, and what main of each does with the address found:  *)
(* the camera waits for one and copies it into its socket, the ground's    *)
(* socket shares it with the discovery thread.                             *)
(*                                                                         *)
(* An iteration of discovery_loop takes 50 to 150 ms and a beacon is due   *)
(* every 500 ms.  Time is therefore counted in iterations: a node sends a  *)
(* beacon with every BeaconPolls-th, and makes at most PollsPerBeacon of   *)
(* them from one beacon of its running peer to the next.                   *)
(***************************************************************************)
EXTENDS Integers, Sequences

CONSTANTS
  Addrs,          \* addresses a node may have
  MaxMisses,      \* DISCOVERY_TIMEOUT / 50 ms (60)
  BeaconPolls,    \* iterations per beacon (4 to 10)
  PollsPerBeacon, \* iterations per beacon of the peer, at most (13)
  MaxLost,        \* beacons that get lost one after the other, at most
  Restarts,       \* bound: restarts of the two nodes
  None

ASSUME DiscoveryAssumption ==
  /\ \E a, b \in Addrs : a # b
  /\ None \notin Addrs
  /\ MaxMisses \in Nat \ {0}
  /\ BeaconPolls \in Nat \ {0}
  /\ PollsPerBeacon \in Nat \ {0}
  /\ MaxLost \in Nat
  /\ Restarts \in Nat

VARIABLES
  conf,     \* peer_addr of each node's configuration
  own,      \* the address of each node
  up,       \* the node's process runs
  restarts, \* how often one has ended, to be started again
  main,     \* what each main does next: "store" the configured address, "wait" for
             \* one, "run"
  peer_addr,
  misses,   \* consecutive_misses
  age,      \* iterations since the node's last beacon
  quiet,    \* iterations since the peer's last beacon
  inbox,    \* beacons in the node's socket
  lost,     \* the peer's beacons lost since the last one that arrived
  sock      \* the address the camera sends to

world == <<conf, own, up, restarts>>
vars  == <<conf, own, up, restarts, main, peer_addr, misses, age, quiet, inbox, lost, sock>>

Nodes    == {"cam", "gnd"}
Other(n) == CHOOSE m \in Nodes : m # n
Beacon   == [role : Nodes, addr : Addrs]
Optional == Addrs \cup {None}

\* A camera with a configured address does not start discovery.
Discovers(n) == up[n] /\ (n = "cam" => conf[n] = None)

TypeOK ==
  /\ conf \in [Nodes -> Optional]
  /\ own \in [Nodes -> Addrs]
  /\ up \in [Nodes -> BOOLEAN]
  /\ restarts \in 0..Restarts
  /\ main \in [Nodes -> {"store", "wait", "run"}]
  /\ peer_addr \in [Nodes -> Optional]
  /\ misses \in [Nodes -> 0..(MaxMisses - 1)]
  /\ age \in [Nodes -> 0..(BeaconPolls - 1)]
  /\ quiet \in [Nodes -> 0..PollsPerBeacon]
  /\ inbox \in [Nodes -> Seq(Beacon)]
  /\ lost \in [Nodes -> 0..MaxLost]
  /\ sock \in Optional

\* Where main begins: the ground stores a configured address after discovery was
\* started, a camera without one waits for discovery.  (The ground waits too, but
\* goes on with the shared address either way.)
FirstStep(n) == IF n = "gnd" /\ conf[n] # None THEN "store"
                ELSE IF n = "cam" /\ conf[n] = None THEN "wait" ELSE "run"

\* Both nodes have been started with different addresses (which ones does not
\* matter); an address that is configured is right.
Init ==
  /\ own = CHOOSE o \in [Nodes -> Addrs] : o["cam"] # o["gnd"]
  /\ conf \in {c \in [Nodes -> Optional] : \A n \in Nodes : c[n] \in {None, own[Other(n)]}}
  /\ up = [n \in Nodes |-> TRUE]
  /\ restarts = 0
  /\ main = [n \in Nodes |-> FirstStep(n)]
  /\ peer_addr = [n \in Nodes |-> None]
  /\ misses = [n \in Nodes |-> 0]
  /\ age = [n \in Nodes |-> 0]
  /\ quiet = [n \in Nodes |-> 0]
  /\ inbox = [n \in Nodes |-> <<>>]
  /\ lost = [n \in Nodes |-> 0]
  /\ sock = conf["cam"]

-----------------------------------------------------------------------------
(* The world.                                                              *)

Ends(n) ==
  /\ up[n]
  /\ restarts < Restarts
  /\ restarts' = restarts + 1
  /\ up' = [up EXCEPT ![n] = FALSE]
  /\ UNCHANGED <<conf, own, main, peer_addr, misses, age, quiet, inbox, lost, sock>>

\* A node that is started again may have another address, but none that its own
\* configuration takes for the peer's.
Starts(n) ==
  /\ ~up[n]
  /\ up' = [up EXCEPT ![n] = TRUE]
  /\ \E a \in Addrs \ {own[Other(n)], conf[n]} : own' = [own EXCEPT ![n] = a]
  /\ main' = [main EXCEPT ![n] = FirstStep(n)]
  /\ peer_addr' = [peer_addr EXCEPT ![n] = None]
  /\ misses' = [misses EXCEPT ![n] = 0]
  /\ age' = [age EXCEPT ![n] = 0]
  /\ quiet' = [m \in Nodes |-> 0]
  /\ inbox' = [inbox EXCEPT ![n] = <<>>]
  /\ lost' = [m \in Nodes |-> 0]
  /\ sock' = IF n = "cam" THEN conf[n] ELSE sock
  /\ UNCHANGED <<conf, restarts>>

-----------------------------------------------------------------------------
(* One iteration of discovery_loop.                                        *)

Due(n) == age[n] = BeaconPolls - 1

\* A broadcast reaches the sender's own socket too.  A node that does not discover
\* has none.
Broadcast(n, b, heard) ==
  [m \in Nodes |->
     IF Discovers(m) /\ (m = n \/ heard) THEN Append(inbox[m], b) ELSE inbox[m]]

\* Mutated form: the role is not looked at.
AcceptsAny(n, b) == TRUE

\* Only the role is looked at; the drone's ID in the beacon is not.
Accepts(n, b) == b.role # n

\* Mutated form: a beacon does not reset the count of misses.
MissesAfterNoReset(n, heard) == misses[n] + 1

\* The count after the reset by a beacon and the increment of the iteration.
MissesAfter(n, heard) == (IF heard THEN 0 ELSE misses[n]) + 1

\* Mutated form: DISCOVERY_TIMEOUT is taken in seconds, and 3 / 50 is 0.
GivesUpAtOnce(count) == count >= 0

GivesUp(count) == count >= MaxMisses

\* The iteration of n that finds the inboxes in `in': one packet is taken, and a
\* known peer is forgotten after MaxMisses iterations.
Receive(n, in) ==
  LET heard == in[n] # <<>> /\ Accepts(n, Head(in[n]))
      addr  == IF heard THEN Head(in[n]).addr ELSE peer_addr[n]
      count == MissesAfter(n, heard)
      gone  == addr = None \/ GivesUp(count)
  IN  /\ peer_addr' = [peer_addr EXCEPT ![n] = IF gone THEN None ELSE addr]
      /\ misses' = [misses EXCEPT ![n] = IF gone THEN 0 ELSE count]
      /\ inbox' = IF in[n] = <<>> THEN in ELSE [in EXCEPT ![n] = Tail(@)]

\* While the peer runs, n is not faster than PollsPerBeacon.
InStep(n) == Discovers(Other(n)) => quiet[n] < PollsPerBeacon

Silent(n) ==
  /\ Discovers(n) /\ InStep(n) /\ ~Due(n)
  /\ Receive(n, inbox)
  /\ age' = [age EXCEPT ![n] = @ + 1]
  /\ quiet' = [quiet EXCEPT ![n] = IF Discovers(Other(n)) THEN @ + 1 ELSE 0]
  /\ UNCHANGED <<world, main, lost, sock>>

\* The beacon is heard by the peer or lost on the way.
Beacons(n) ==
  /\ Discovers(n) /\ InStep(n) /\ Due(n)
  /\ \E heard \in BOOLEAN :
       /\ ~heard => lost[Other(n)] < MaxLost
       /\ lost' = [lost EXCEPT ![Other(n)] = IF heard THEN 0 ELSE @ + 1]
       /\ Receive(n, Broadcast(n, [role |-> n, addr |-> own[n]], heard))
  /\ age' = [age EXCEPT ![n] = 0]
  /\ quiet' = [m \in Nodes |-> IF m = Other(n) THEN 0
                               ELSE IF Discovers(Other(n)) THEN quiet[n] + 1 ELSE 0]
  /\ UNCHANGED <<world, main, sock>>

Poll(n) == Silent(n) \/ Beacons(n)

-----------------------------------------------------------------------------
(* main of each node.                                                      *)

GroundStores ==
  /\ up["gnd"] /\ main["gnd"] = "store"
  /\ peer_addr' = [peer_addr EXCEPT !["gnd"] = conf["gnd"]]
  /\ main' = [main EXCEPT !["gnd"] = "run"]
  /\ UNCHANGED <<world, misses, age, quiet, inbox, lost, sock>>

\* An address has been found, or 30 seconds have passed.  The camera's socket gets a
\* copy of what is known now, and no later change.
CameraStarts ==
  /\ up["cam"] /\ main["cam"] = "wait"
  /\ main' = [main EXCEPT !["cam"] = "run"]
  /\ sock' = peer_addr["cam"]
  /\ UNCHANGED <<world, peer_addr, misses, age, quiet, inbox, lost>>

Main == GroundStores \/ CameraStarts

Next ==
  \/ \E n \in Nodes : Ends(n) \/ Starts(n) \/ Poll(n)
  \/ Main

Spec == Init /\ [][Next]_vars

\* The loops run on, and an ended process is started again by its service.
FairSpec ==
  /\ Spec
  /\ \A n \in Nodes : WF_vars(Poll(n)) /\ WF_vars(Starts(n))
  /\ WF_vars(Main)

-----------------------------------------------------------------------------
(* Properties.                                                             *)

\* No node takes itself for its peer, although it hears its own broadcasts, and
\* the camera never sends its video to itself.
NeverItsOwnPeer ==
  /\ \A n \in Nodes : peer_addr[n] # own[n]
  /\ sock # own["cam"]

\* A peer that runs on is not forgotten and its address does not change, although
\* beacons get lost, wait behind the node's own, and come slower than iterations
\* are counted.
LivePeerIsKept ==
  [][\A n \in Nodes :
       restarts = 0 /\ up[n] /\ Discovers(Other(n)) /\ peer_addr[n] # None
       => peer_addr'[n] = peer_addr[n]]_vars

\* A peer is found, and found again after either of the two has been started anew
\* with another address.
PeerIsFound ==
  \A n \in Nodes :
    (Discovers(n) /\ Discovers(Other(n)))
      ~> (peer_addr[n] = own[Other(n)] \/ ~up[n] \/ ~up[Other(n)])
==============================================================================
