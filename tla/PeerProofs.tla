------------------------------ MODULE PeerProofs ------------------------------
(***************************************************************************)
(* Proofs about whom a node listens to: Discovery, for any set of          *)
(* addresses, any timeouts and any number of restarts, and RxFrames, for   *)
(* any radiotap bitmaps and any cutting of frames.                         *)
(*                                                                         *)
(* Both have names like Init and inbox; RxFrames is taken as F, with frame *)
(* for its inbox.                                                          *)
(***************************************************************************)
EXTENDS Discovery, SequenceTheorems, TLAPS

CONSTANTS Presents, Cuts

VARIABLES frame, delivered, rssi

F == INSTANCE RxFrames WITH inbox <- frame

LEMMA NodeFacts ==
  /\ "cam" \in Nodes /\ "gnd" \in Nodes
  /\ \A n \in Nodes : Other(n) \in Nodes /\ Other(n) # n
BY DEF Nodes, Other

LEMMA ExceptType ==
  ASSUME NEW S, NEW f \in [Nodes -> S], NEW n, NEW v \in S,
         NEW g, g = [f EXCEPT ![n] = v]
  PROVE  g \in [Nodes -> S]
OBVIOUS

-----------------------------------------------------------------------------
(* Type correctness.                                                       *)

\* A broadcast puts its beacon behind what is in an inbox, or leaves it alone.
LEMMA BroadcastIn ==
  ASSUME NEW S, NEW n \in Nodes, NEW m \in Nodes, NEW b \in S, NEW heard \in BOOLEAN,
         inbox[m] \in Seq(S)
  PROVE  Broadcast(n, b, heard)[m] \in Seq(S)
BY DEF Broadcast

\* An iteration leaves an address, a count below the limit and one packet less.
LEMMA ReceiveType ==
  ASSUME TypeOK, NEW n \in Nodes, NEW in \in [Nodes -> Seq(Beacon)], Receive(n, in)
  PROVE  /\ peer_addr' \in [Nodes -> Optional]
         /\ misses' \in [Nodes -> 0..(MaxMisses - 1)]
         /\ inbox' \in [Nodes -> Seq(Beacon)]
<1> DEFINE heard == in[n] # <<>> /\ Accepts(n, Head(in[n]))
           addr  == IF heard THEN Head(in[n]).addr ELSE peer_addr[n]
           count == MissesAfter(n, heard)
           gone  == addr = None \/ GivesUp(count)
<1>1. in[n] \in Seq(Beacon)
  OBVIOUS
<1>2. in[n] # <<>> => Head(in[n]) \in Beacon /\ Tail(in[n]) \in Seq(Beacon)
  BY <1>1, HeadTailProperties
<1>3. addr \in Optional
  BY <1>2 DEF TypeOK, Optional, Beacon
<1>4. count \in 1..MaxMisses
  BY DiscoveryAssumption DEF DiscoveryAssumption, MissesAfter, TypeOK
<1>5. ~gone => count \in 0..(MaxMisses - 1)
  BY <1>4, DiscoveryAssumption DEF DiscoveryAssumption, GivesUp
<1>6. /\ peer_addr' = [peer_addr EXCEPT ![n] = IF gone THEN None ELSE addr]
      /\ misses' = [misses EXCEPT ![n] = IF gone THEN 0 ELSE count]
      /\ inbox' = IF in[n] = <<>> THEN in ELSE [in EXCEPT ![n] = Tail(@)]
  BY DEF Receive
<1> HIDE DEF heard, addr, count, gone
<1>7. peer_addr' \in [Nodes -> Optional]
  BY <1>3, <1>6 DEF TypeOK, Optional
<1>8. misses' \in [Nodes -> 0..(MaxMisses - 1)]
  <2>1. (IF gone THEN 0 ELSE count) \in 0..(MaxMisses - 1)
    <3>1. 0 \in 0..(MaxMisses - 1)
      BY DiscoveryAssumption DEF DiscoveryAssumption
    <3> QED
      BY <1>5, <3>1, Zenon
  <2>2. misses \in [Nodes -> 0..(MaxMisses - 1)]
    BY DEF TypeOK
  <2> QED
    BY <1>6, <2>1, <2>2, ExceptType, Zenon
<1>9. inbox' \in [Nodes -> Seq(Beacon)]
  BY <1>2, <1>6
<1> QED
  BY <1>7, <1>8, <1>9

\* The variables of a node keep their types: in particular the count of misses stays
\* below its limit, and the wait for the peer's next beacon is bounded.
THEOREM TypeCorrect == Spec => []TypeOK
<1>1. Init => TypeOK
  <2> SUFFICES ASSUME Init PROVE TypeOK
    OBVIOUS
  <2>1. own \in [Nodes -> Addrs]
    <3>1. PICK a \in Addrs, b \in Addrs : a # b
      BY DiscoveryAssumption DEF DiscoveryAssumption
    <3>2. [n \in Nodes |-> IF n = "cam" THEN a ELSE b] \in {o \in [Nodes -> Addrs] : o["cam"] # o["gnd"]}
      BY <3>1, NodeFacts
    <3> QED
      BY <3>2 DEF Init
  <2>2. conf \in [Nodes -> Optional]
    BY DEF Init
  <2>3. /\ main \in [Nodes -> {"store", "wait", "run"}]
        /\ peer_addr \in [Nodes -> Optional]
        /\ sock \in Optional
    BY <2>2, NodeFacts DEF Init, FirstStep, Optional
  <2>4. /\ misses \in [Nodes -> 0..(MaxMisses - 1)]
        /\ age \in [Nodes -> 0..(BeaconPolls - 1)]
        /\ quiet \in [Nodes -> 0..PollsPerBeacon]
        /\ lost \in [Nodes -> 0..MaxLost]
        /\ restarts \in 0..Restarts
    <3>1. /\ 0 \in 0..(MaxMisses - 1) /\ 0 \in 0..(BeaconPolls - 1)
          /\ 0 \in 0..PollsPerBeacon /\ 0 \in 0..MaxLost /\ 0 \in 0..Restarts
      BY DiscoveryAssumption DEF DiscoveryAssumption
    <3> QED
      BY <3>1, Zenon DEF Init
  <2>5. up \in [Nodes -> BOOLEAN]
    BY DEF Init
  <2>6. inbox \in [Nodes -> Seq(Beacon)]
    BY EmptySeq, Zenon DEF Init
  <2> QED
    BY <2>1, <2>2, <2>3, <2>4, <2>5, <2>6 DEF TypeOK
<1>2. TypeOK /\ [Next]_vars => TypeOK'
  <2> SUFFICES ASSUME TypeOK, [Next]_vars PROVE TypeOK'
    OBVIOUS
  <2> USE NodeFacts, DiscoveryAssumption DEF DiscoveryAssumption
  <2>1. ASSUME NEW n \in Nodes, Ends(n) PROVE TypeOK'
    <3>1. up' \in [Nodes -> BOOLEAN] /\ restarts' \in 0..Restarts
      BY <2>1 DEF Ends, TypeOK
    <3> QED
      BY <2>1, <3>1 DEF Ends, TypeOK
  <2>2. ASSUME NEW n \in Nodes, Starts(n) PROVE TypeOK'
    <3>1. /\ 0 \in 0..(MaxMisses - 1) /\ 0 \in 0..(BeaconPolls - 1)
          /\ 0 \in 0..PollsPerBeacon /\ 0 \in 0..MaxLost
      OBVIOUS
    <3>2. /\ misses' \in [Nodes -> 0..(MaxMisses - 1)]
          /\ age' \in [Nodes -> 0..(BeaconPolls - 1)]
          /\ quiet' \in [Nodes -> 0..PollsPerBeacon]
          /\ lost' \in [Nodes -> 0..MaxLost]
      <4>1. /\ misses \in [Nodes -> 0..(MaxMisses - 1)] /\ misses' = [misses EXCEPT ![n] = 0]
            /\ age \in [Nodes -> 0..(BeaconPolls - 1)] /\ age' = [age EXCEPT ![n] = 0]
            /\ quiet' = [m \in Nodes |-> 0] /\ lost' = [m \in Nodes |-> 0]
        BY <2>2 DEF Starts, TypeOK
      <4>2. misses' \in [Nodes -> 0..(MaxMisses - 1)]
        BY <3>1, <4>1, ExceptType, Zenon
      <4>3. age' \in [Nodes -> 0..(BeaconPolls - 1)]
        BY <3>1, <4>1, ExceptType, Zenon
      <4> QED
        BY <3>1, <4>1, <4>2, <4>3, Zenon
    <3>3. /\ own' \in [Nodes -> Addrs]
          /\ up' \in [Nodes -> BOOLEAN]
      BY <2>2 DEF Starts, TypeOK
    <3>6. inbox' \in [Nodes -> Seq(Beacon)]
      BY <2>2, EmptySeq, ExceptType, Zenon DEF Starts, TypeOK
    <3>4. /\ main' \in [Nodes -> {"store", "wait", "run"}]
          /\ peer_addr' \in [Nodes -> Optional]
          /\ sock' \in Optional /\ conf' \in [Nodes -> Optional]
      BY <2>2 DEF Starts, TypeOK, FirstStep, Optional
    <3>5. restarts' \in 0..Restarts
      BY <2>2 DEF Starts, TypeOK
    <3> QED
      BY <3>2, <3>3, <3>4, <3>5, <3>6 DEF TypeOK
  <2>3. ASSUME NEW n \in Nodes, Silent(n) PROVE TypeOK'
    <3>1. /\ peer_addr' \in [Nodes -> Optional]
          /\ misses' \in [Nodes -> 0..(MaxMisses - 1)]
          /\ inbox' \in [Nodes -> Seq(Beacon)]
      BY <2>3, ReceiveType DEF Silent, TypeOK
    <3>2. age' \in [Nodes -> 0..(BeaconPolls - 1)]
      <4>1. age[n] + 1 \in 0..(BeaconPolls - 1)
        <5>1. age[n] \in 0..(BeaconPolls - 1)
          BY DEF TypeOK
        <5>2. age[n] # BeaconPolls - 1
          BY <2>3 DEF Silent, Due
        <5> QED
          BY <5>1, <5>2
      <4>2. age \in [Nodes -> 0..(BeaconPolls - 1)] /\ age' = [age EXCEPT ![n] = age[n] + 1]
        BY <2>3 DEF Silent, TypeOK
      <4> QED
        BY <4>1, <4>2, ExceptType, Zenon
    <3>3. quiet' \in [Nodes -> 0..PollsPerBeacon]
      <4>1. (IF Discovers(Other(n)) THEN quiet[n] + 1 ELSE 0) \in 0..PollsPerBeacon
        <5>1. quiet[n] \in 0..PollsPerBeacon
          BY DEF TypeOK
        <5>2. Discovers(Other(n)) => quiet[n] + 1 \in 0..PollsPerBeacon
          BY <5>1, <2>3 DEF Silent, InStep
        <5>3. 0 \in 0..PollsPerBeacon
          OBVIOUS
        <5> QED
          BY <5>2, <5>3, Zenon
      <4>2. /\ quiet \in [Nodes -> 0..PollsPerBeacon]
            /\ quiet' = [quiet EXCEPT ![n] = IF Discovers(Other(n)) THEN quiet[n] + 1 ELSE 0]
        BY <2>3 DEF Silent, TypeOK
      <4> QED
        BY <4>1, <4>2, ExceptType, Zenon
    <3> QED
      BY <2>3, <3>1, <3>2, <3>3 DEF Silent, TypeOK, world
  <2>4. ASSUME NEW n \in Nodes, Beacons(n) PROVE TypeOK'
    <3>1. PICK heard \in BOOLEAN :
            /\ ~heard => lost[Other(n)] < MaxLost
            /\ lost' = [lost EXCEPT ![Other(n)] = IF heard THEN 0 ELSE @ + 1]
            /\ Receive(n, Broadcast(n, [role |-> n, addr |-> own[n]], heard))
      BY <2>4 DEF Beacons
    <3> DEFINE b  == [role |-> n, addr |-> own[n]]
               in == Broadcast(n, b, heard)
    <3>2. b \in Beacon
      BY DEF Beacon, TypeOK
    <3>3. in \in [Nodes -> Seq(Beacon)]
      <4>1. \A m \in Nodes : in[m] \in Seq(Beacon)
        BY <3>2, BroadcastIn DEF TypeOK
      <4> QED
        BY <4>1 DEF Broadcast
    <3>4. /\ peer_addr' \in [Nodes -> Optional]
          /\ misses' \in [Nodes -> 0..(MaxMisses - 1)]
          /\ inbox' \in [Nodes -> Seq(Beacon)]
      BY <3>1, <3>3, ReceiveType
    <3>5. lost' \in [Nodes -> 0..MaxLost]
      <4>1. (IF heard THEN 0 ELSE lost[Other(n)] + 1) \in 0..MaxLost
        <5>1. lost[Other(n)] \in 0..MaxLost
          BY DEF TypeOK
        <5>2. ~heard => lost[Other(n)] + 1 \in 0..MaxLost
          BY <3>1, <5>1
        <5>3. 0 \in 0..MaxLost
          OBVIOUS
        <5> QED
          BY <5>2, <5>3, Zenon
      <4> QED
        BY <3>1, <4>1, ExceptType, Zenon DEF TypeOK
    <3>6. age' \in [Nodes -> 0..(BeaconPolls - 1)]
      <4>1. /\ 0 \in 0..(BeaconPolls - 1)
            /\ age \in [Nodes -> 0..(BeaconPolls - 1)] /\ age' = [age EXCEPT ![n] = 0]
        BY <2>4 DEF Beacons, TypeOK
      <4> QED
        BY <4>1, ExceptType, Zenon
    <3>7. quiet' \in [Nodes -> 0..PollsPerBeacon]
      <4>1. (IF Discovers(Other(n)) THEN quiet[n] + 1 ELSE 0) \in 0..PollsPerBeacon
        <5>1. quiet[n] \in 0..PollsPerBeacon
          BY DEF TypeOK
        <5>2. Discovers(Other(n)) => quiet[n] + 1 \in 0..PollsPerBeacon
          BY <5>1, <2>4 DEF Beacons, InStep
        <5>3. 0 \in 0..PollsPerBeacon
          OBVIOUS
        <5> QED
          BY <5>2, <5>3, Zenon
      <4>2. quiet' = [m \in Nodes |-> IF m = Other(n) THEN 0
                                      ELSE IF Discovers(Other(n)) THEN quiet[n] + 1 ELSE 0]
        BY <2>4 DEF Beacons
      <4> QED
        BY <4>1, <4>2
    <3> QED
      BY <2>4, <3>4, <3>5, <3>6, <3>7 DEF Beacons, TypeOK, world
  <2>5. CASE GroundStores
    BY <2>5 DEF GroundStores, TypeOK, world
  <2>6. CASE CameraStarts
    BY <2>6 DEF CameraStarts, TypeOK, world
  <2>7. CASE UNCHANGED vars
    BY <2>7 DEF vars, TypeOK
  <2> QED
    BY <2>1, <2>2, <2>3, <2>4, <2>5, <2>6, <2>7 DEF Next, Poll, Main
<1> QED
  BY <1>1, <1>2, PTL DEF Spec

-----------------------------------------------------------------------------
(* No node takes itself for its peer.                                      *)

\* What node n may find in its socket: its own broadcasts, and beacons with another
\* address than its own.
Heard(n) == {b \in Beacon : b.role # n => b.addr # own[n]}

\* Neither what is configured, nor what is known, nor what waits in the socket would
\* make a node send to itself.
OtherInv ==
  /\ own["cam"] # own["gnd"]
  /\ sock # own["cam"]
  /\ \A n \in Nodes : conf[n] # own[n]
  /\ \A n \in Nodes : peer_addr[n] # own[n]
  /\ \A n \in Nodes : inbox[n] \in Seq(Heard(n))

LEMMA OwnDiffers ==
  ASSUME own["cam"] # own["gnd"], NEW n \in Nodes
  PROVE  own[Other(n)] # own[n]
BY NodeFacts DEF Nodes

\* An iteration takes no address from a beacon of the node's own.
LEMMA ReceiveOther ==
  ASSUME TypeOK, OtherInv, NEW n \in Nodes, NEW in \in [Nodes -> Seq(Beacon)],
         \A m \in Nodes : in[m] \in Seq(Heard(m)), Receive(n, in)
  PROVE  \A m \in Nodes : peer_addr'[m] # own[m] /\ inbox'[m] \in Seq(Heard(m))
<1> DEFINE heard == in[n] # <<>> /\ Accepts(n, Head(in[n]))
           addr  == IF heard THEN Head(in[n]).addr ELSE peer_addr[n]
           gone  == addr = None \/ GivesUp(MissesAfter(n, heard))
<1>1. in[n] # <<>> => Head(in[n]) \in Heard(n) /\ Tail(in[n]) \in Seq(Heard(n))
  BY HeadTailProperties
<1>2. addr # own[n]
  BY <1>1 DEF Heard, Accepts, OtherInv
<1>3. None # own[n]
  BY DiscoveryAssumption DEF DiscoveryAssumption, TypeOK
<1>4. /\ peer_addr' = [peer_addr EXCEPT ![n] = IF gone THEN None ELSE addr]
      /\ inbox' = IF in[n] = <<>> THEN in ELSE [in EXCEPT ![n] = Tail(@)]
  BY DEF Receive
<1> HIDE DEF heard, addr, gone
<1> SUFFICES ASSUME NEW m \in Nodes
             PROVE  peer_addr'[m] # own[m] /\ inbox'[m] \in Seq(Heard(m))
  OBVIOUS
<1>5. peer_addr'[m] # own[m]
  BY <1>2, <1>3, <1>4 DEF TypeOK, OtherInv
<1>6. inbox'[m] \in Seq(Heard(m))
  BY <1>1, <1>4
<1> QED
  BY <1>5, <1>6

\* Neither node sends to itself, although it hears its own broadcasts, and whatever
\* the two are restarted with.
THEOREM NeverItsOwnPeerTheorem == Spec => []NeverItsOwnPeer
<1>1. Init => OtherInv
  <2> SUFFICES ASSUME Init PROVE OtherInv
    OBVIOUS
  <2>1. own \in [Nodes -> Addrs] /\ own["cam"] # own["gnd"]
    <3>1. PICK a \in Addrs, b \in Addrs : a # b
      BY DiscoveryAssumption DEF DiscoveryAssumption
    <3>2. [n \in Nodes |-> IF n = "cam" THEN a ELSE b] \in {o \in [Nodes -> Addrs] : o["cam"] # o["gnd"]}
      BY <3>1, NodeFacts
    <3> QED
      BY <3>2 DEF Init
  <2>2. \A n \in Nodes : None # own[n]
    BY <2>1, DiscoveryAssumption DEF DiscoveryAssumption
  <2>3. \A n \in Nodes : conf[n] # own[n]
    BY <2>1, <2>2, OwnDiffers DEF Init
  <2>4. \A n \in Nodes : peer_addr[n] # own[n]
    BY <2>2 DEF Init
  <2>5. \A n \in Nodes : inbox[n] \in Seq(Heard(n))
    BY EmptySeq, Zenon DEF Init
  <2> QED
    BY <2>1, <2>3, <2>4, <2>5, NodeFacts DEF Init, OtherInv
<1>2. TypeOK /\ OtherInv /\ [Next]_vars => OtherInv'
  <2> SUFFICES ASSUME TypeOK, OtherInv, [Next]_vars PROVE OtherInv'
    OBVIOUS
  <2>0. \A n \in Nodes : None # own[n]
    BY DiscoveryAssumption DEF DiscoveryAssumption, TypeOK
  <2>1. ASSUME NEW n \in Nodes, Ends(n) PROVE OtherInv'
    BY <2>1 DEF Ends, OtherInv, Heard
  <2>2. ASSUME NEW n \in Nodes, Starts(n) PROVE OtherInv'
    <3>1. PICK a \in Addrs \ {own[Other(n)], conf[n]} : own' = [own EXCEPT ![n] = a]
      BY <2>2 DEF Starts
    <3>2. own'["cam"] # own'["gnd"]
      BY <3>1, NodeFacts DEF OtherInv, TypeOK, Nodes, Other
    <3>3. a # None
      BY DiscoveryAssumption DEF DiscoveryAssumption
    <3>4. \A m \in Nodes : conf'[m] # own'[m] /\ peer_addr'[m] # own'[m]
      BY <2>2, <3>1, <3>3 DEF Starts, OtherInv, TypeOK
    <3>5. sock' # own'["cam"]
      BY <2>2, <3>1, NodeFacts DEF Starts, OtherInv, TypeOK
    <3>6. ASSUME NEW m \in Nodes PROVE inbox'[m] \in Seq(Heard(m)')
      <4>1. CASE m = n
        BY <2>2, <4>1, EmptySeq DEF Starts, TypeOK
      <4>2. CASE m # n
        <5>1. own'[m] = own[m] /\ inbox'[m] = inbox[m]
          BY <2>2, <3>1, <4>2 DEF Starts, TypeOK
        <5>2. Heard(m)' = Heard(m)
          BY <5>1 DEF Heard
        <5> QED
          BY <5>1, <5>2 DEF OtherInv
      <4> QED
        BY <4>1, <4>2
    <3> QED
      BY <3>2, <3>4, <3>5, <3>6 DEF OtherInv
  <2>3. ASSUME NEW n \in Nodes, NEW in \in [Nodes -> Seq(Beacon)],
               \A m \in Nodes : in[m] \in Seq(Heard(m)),
               Receive(n, in), UNCHANGED <<own, conf, sock>>
        PROVE  OtherInv'
    BY <2>3, ReceiveOther DEF OtherInv, Heard
  <2>4. ASSUME NEW n \in Nodes, Silent(n) PROVE OtherInv'
    BY <2>3, <2>4 DEF Silent, world, TypeOK, OtherInv
  <2>5. ASSUME NEW n \in Nodes, Beacons(n) PROVE OtherInv'
    <3> DEFINE b == [role |-> n, addr |-> own[n]]
    <3>1. PICK heard \in BOOLEAN : Receive(n, Broadcast(n, b, heard))
      BY <2>5 DEF Beacons
    <3>2. b \in Beacon
      BY DEF Beacon, TypeOK
    <3>3. \A m \in Nodes : b \in Heard(m)
      BY <3>2, OwnDiffers, NodeFacts DEF Heard, OtherInv, Nodes
    <3>4. \A m \in Nodes : Broadcast(n, b, heard)[m] \in Seq(Heard(m))
      BY <3>3, BroadcastIn DEF OtherInv
    <3>5. Broadcast(n, b, heard) \in [Nodes -> Seq(Beacon)]
      <4>1. \A m \in Nodes : Broadcast(n, b, heard)[m] \in Seq(Beacon)
        BY <3>2, BroadcastIn DEF TypeOK
      <4> QED
        BY <4>1 DEF Broadcast
    <3> QED
      BY <2>3, <2>5, <3>1, <3>4, <3>5 DEF Beacons, world
  <2>6. CASE GroundStores
    BY <2>6, NodeFacts DEF GroundStores, world, OtherInv, Heard, TypeOK
  <2>7. CASE CameraStarts
    BY <2>7, NodeFacts DEF CameraStarts, world, OtherInv, Heard
  <2>8. CASE UNCHANGED vars
    BY <2>8 DEF vars, OtherInv, Heard
  <2> QED
    BY <2>1, <2>2, <2>4, <2>5, <2>6, <2>7, <2>8 DEF Next, Poll, Main
<1>3. OtherInv => NeverItsOwnPeer
  BY DEF OtherInv, NeverItsOwnPeer
<1> QED
  BY <1>1, <1>2, <1>3, TypeCorrect, PTL DEF Spec

-----------------------------------------------------------------------------
(* RxFrames: the radiotap header.                                          *)

\* The walk over the first bitmap, as a formula for each field it may pass.
StepOver(words, align, b, n) ==
  IF b - 1 \in words[1] THEN F!AlignUp(n, align[b]) + F!FIELD_SIZE[b] ELSE n

Walk1(words, align) == StepOver(words, align, 1, F!FirstField(words))
Walk2(words, align) == StepOver(words, align, 2, Walk1(words, align))
Walk3(words, align) == StepOver(words, align, 3, Walk2(words, align))
Walk4(words, align) == StepOver(words, align, 4, Walk3(words, align))
Walk5(words, align) == StepOver(words, align, 5, Walk4(words, align))

\* The recursive function has these values: it exists, so that CHOOSE finds it, and
\* its equation determines it from the first field on.
LEMMA RssiOffsetIs ==
  ASSUME NEW words, NEW align
  PROVE  F!RssiOffset(words, align) = Walk5(words, align)
<1> DEFINE Is(f) == f = [b \in 0..F!RSSI_BIT |->
                           IF b = 0 THEN F!FirstField(words)
                           ELSE IF b - 1 \in words[1]
                                  THEN F!AlignUp(f[b - 1], align[b]) + F!FIELD_SIZE[b]
                           ELSE f[b - 1]]
           off == CHOOSE f : Is(f)
           walk == [b \in 0..F!RSSI_BIT |->
                      IF b = 0 THEN F!FirstField(words)
                      ELSE IF b = 1 THEN Walk1(words, align)
                      ELSE IF b = 2 THEN Walk2(words, align)
                      ELSE IF b = 3 THEN Walk3(words, align)
                      ELSE IF b = 4 THEN Walk4(words, align)
                      ELSE Walk5(words, align)]
<1>0. F!RSSI_BIT = 5
  BY DEF F!RSSI_BIT
<1>1. Is(walk)
  <2> DEFINE G(b) == IF b = 0 THEN F!FirstField(words)
                     ELSE IF b - 1 \in words[1]
                            THEN F!AlignUp(walk[b - 1], align[b]) + F!FIELD_SIZE[b]
                     ELSE walk[b - 1]
  <2>1. /\ walk[0] = F!FirstField(words) /\ walk[1] = Walk1(words, align)
        /\ walk[2] = Walk2(words, align) /\ walk[3] = Walk3(words, align)
        /\ walk[4] = Walk4(words, align) /\ walk[5] = Walk5(words, align)
    BY <1>0
  <2>2. \A b \in 0..F!RSSI_BIT : b \in {0, 1, 2, 3, 4, 5}
    BY <1>0
  <2>3. walk = [b \in 0..F!RSSI_BIT |-> walk[b]]
    OBVIOUS
  <2> HIDE DEF walk
  <2>4. /\ G(0) = walk[0] /\ G(1) = walk[1] /\ G(2) = walk[2] /\ G(3) = walk[3]
        /\ G(4) = walk[4] /\ G(5) = walk[5]
    BY <2>1 DEF StepOver, Walk1, Walk2, Walk3, Walk4, Walk5
  <2>5. \A b \in 0..F!RSSI_BIT : walk[b] = G(b)
    BY <2>2, <2>4
  <2> HIDE DEF G
  <2>6. walk = [b \in 0..F!RSSI_BIT |-> G(b)]
    BY <2>3, <2>5
  <2> QED
    BY <2>6 DEF G
<1>2. Is(off)
  <2> HIDE DEF Is, walk
  <2> QED
    BY <1>1
<1>3. F!RssiOffset(words, align) = off[F!RSSI_BIT]
  BY DEF F!RssiOffset
<1>4. \A b \in 0..5 : off[b] = IF b = 0 THEN F!FirstField(words)
                               ELSE IF b - 1 \in words[1]
                                      THEN F!AlignUp(off[b - 1], align[b]) + F!FIELD_SIZE[b]
                               ELSE off[b - 1]
  <2> HIDE DEF off
  <2> QED
    BY <1>0, <1>2
<1> HIDE DEF Is, off, walk
<1>5. off[0] = F!FirstField(words)
  BY <1>4
<1>6. off[1] = Walk1(words, align)
  BY <1>4, <1>5 DEF Walk1, StepOver
<1>7. off[2] = Walk2(words, align)
  BY <1>4, <1>6 DEF Walk2, StepOver
<1>8. off[3] = Walk3(words, align)
  BY <1>4, <1>7 DEF Walk3, StepOver
<1>9. off[4] = Walk4(words, align)
  BY <1>4, <1>8 DEF Walk4, StepOver
<1>10. off[5] = Walk5(words, align)
  BY <1>4, <1>9 DEF Walk5, StepOver
<1> QED
  BY <1>0, <1>3, <1>10

\* Rounding up to one of the alignments in use.
LEMMA AlignUpIs ==
  ASSUME NEW n \in Nat, NEW a \in {1, 2, 4, 8}
  PROVE  F!AlignUp(n, a) \in Nat /\ n <= F!AlignUp(n, a)
<1>1. CASE a = 1
  BY <1>1 DEF F!AlignUp
<1>2. CASE a = 2
  BY <1>2 DEF F!AlignUp
<1>3. CASE a = 4
  BY <1>3 DEF F!AlignUp
<1>4. CASE a = 8
  BY <1>4 DEF F!AlignUp
<1> QED
  BY <1>1, <1>2, <1>3, <1>4

\* The bitmaps of a header: at least one.
IsBitmaps(words) == words \in Seq(SUBSET (0..31)) /\ words # <<>>

\* Each step of the walk goes on, or stays.
LEMMA StepOverIs ==
  ASSUME NEW words, NEW align \in {F!FIELD_ALIGN, F!STANDARD_ALIGN}, NEW b \in 1..5,
         NEW n \in Nat
  PROVE  StepOver(words, align, b, n) \in Nat /\ n <= StepOver(words, align, b, n)
<1>1. align[b] \in {1, 2, 4, 8} /\ F!FIELD_SIZE[b] \in Nat
  <2>1. b \in {1, 2, 3, 4, 5}
    OBVIOUS
  <2> QED
    BY <2>1 DEF F!FIELD_ALIGN, F!STANDARD_ALIGN, F!FIELD_SIZE
<1>2. F!AlignUp(n, align[b]) \in Nat /\ n <= F!AlignUp(n, align[b])
  BY <1>1, AlignUpIs
<1> QED
  BY <1>1, <1>2 DEF StepOver

\* The signal lies behind the bitmaps.
LEMMA WalkIs ==
  ASSUME NEW words, IsBitmaps(words), NEW align \in {F!FIELD_ALIGN, F!STANDARD_ALIGN}
  PROVE  /\ Walk3(words, align) \in Nat /\ Walk4(words, align) \in Nat
         /\ Walk5(words, align) \in Nat /\ 8 <= Walk5(words, align)
<1>1. F!FirstField(words) \in Nat /\ 8 <= F!FirstField(words)
  <2>1. Len(words) \in Nat /\ Len(words) # 0
    BY EmptySeq DEF IsBitmaps
  <2> QED
    BY <2>1 DEF F!FirstField
<1>2. Walk1(words, align) \in Nat /\ 8 <= Walk1(words, align)
  BY <1>1, StepOverIs DEF Walk1
<1>3. Walk2(words, align) \in Nat /\ 8 <= Walk2(words, align)
  BY <1>2, StepOverIs DEF Walk2
<1>4. Walk3(words, align) \in Nat /\ 8 <= Walk3(words, align)
  BY <1>3, StepOverIs DEF Walk3
<1>5. Walk4(words, align) \in Nat /\ 8 <= Walk4(words, align)
  BY <1>4, StepOverIs DEF Walk4
<1>6. Walk5(words, align) \in Nat /\ 8 <= Walk5(words, align)
  BY <1>5, StepOverIs DEF Walk5
<1> QED
  BY <1>4, <1>5, <1>6

\* One element is a sequence.
LEMMA Singleton ==
  ASSUME NEW S, NEW x \in S
  PROVE  <<x>> \in Seq(S)
OBVIOUS

\* Where the channel is not shifted the parser's walk is the standard's: up to the channel
\* they have the same alignments, and behind it rounding to 2 and to 4 gave the same.
LEMMA SameWalk ==
  ASSUME NEW words, IsBitmaps(words), ~F!ChannelIsShifted(words)
  PROVE  F!RssiOffset(words, F!FIELD_ALIGN) = F!RssiOffset(words, F!STANDARD_ALIGN)
<1> DEFINE P == F!FIELD_ALIGN
           S == F!STANDARD_ALIGN
           bare == <<words[1] \ (3..31)>> \o Tail(words)
           o == Walk3(words, S)
<1>1. Walk3(words, P) = o
  BY DEF Walk1, Walk2, Walk3, StepOver, F!FIELD_ALIGN, F!STANDARD_ALIGN
<1>2. o \in Nat
  BY WalkIs
<1>3. Walk4(words, P) = Walk4(words, S)
  <2>1. CASE 3 \notin words[1]
    BY <1>1, <2>1 DEF Walk4, StepOver
  <2>2. CASE 3 \in words[1]
    <3>1. F!RssiOffset(bare, S) = o
      <4>1. Tail(words) \in Seq(SUBSET (0..31)) /\ Len(Tail(words)) = Len(words) - 1
        BY HeadTailProperties DEF IsBitmaps
      <4>2. <<words[1] \ (3..31)>> \in Seq(SUBSET (0..31))
        <5>1. Len(words) \in Nat \ {0}
          BY EmptySeq DEF IsBitmaps
        <5>2. words[1] \in SUBSET (0..31)
          <6> DEFINE B == SUBSET (0..31)
          <6>1. words \in Seq(B)
            BY DEF IsBitmaps
          <6>2. 1 \in 1..Len(words)
            BY <5>1
          <6> HIDE DEF B
          <6>3. words[1] \in B
            BY <6>1, <6>2, ElementOfSeq
          <6> QED
            BY <6>3 DEF B
        <5>3. words[1] \ (3..31) \in SUBSET (0..31)
          BY <5>2
        <5> QED
          BY <5>3, Singleton
      <4>3. bare[1] = words[1] \ (3..31) /\ Len(bare) = Len(words)
        BY <4>1, <4>2, ConcatProperties DEF IsBitmaps
      <4>4. F!FirstField(bare) = F!FirstField(words)
        BY <4>3 DEF F!FirstField
      <4> HIDE DEF bare
      <4>5. /\ 0 \in bare[1] <=> 0 \in words[1]
            /\ 1 \in bare[1] <=> 1 \in words[1]
            /\ 2 \in bare[1] <=> 2 \in words[1]
            /\ 3 \notin bare[1] /\ 4 \notin bare[1]
        BY <4>3
      <4>6. Walk1(bare, S) = Walk1(words, S)
        BY <4>4, <4>5 DEF Walk1, StepOver
      <4>7. Walk2(bare, S) = Walk2(words, S)
        BY <4>5, <4>6 DEF Walk2, StepOver
      <4>8. Walk3(bare, S) = o
        BY <4>5, <4>7 DEF Walk3, StepOver
      <4>9. Walk5(bare, S) = o
        BY <4>5, <4>8 DEF Walk4, Walk5, StepOver
      <4> QED
        BY <4>9, RssiOffsetIs
    <3>2. F!AlignUp(o, 2) % 4 = 0
      BY <2>2, <3>1 DEF F!ChannelIsShifted
    <3> HIDE DEF o
    <3>3. F!AlignUp(o, 4) = F!AlignUp(o, 2)
      BY <1>2, <3>2 DEF F!AlignUp
    <3> QED
      BY <1>1, <2>2, <3>3 DEF Walk4, StepOver, F!FIELD_ALIGN, F!STANDARD_ALIGN, o
  <2> QED
    BY <2>1, <2>2
<1>4. Walk5(words, P) = Walk5(words, S)
  BY <1>3 DEF Walk5, StepOver, F!FIELD_ALIGN, F!STANDARD_ALIGN
<1> QED
  BY <1>4, RssiOffsetIs

-----------------------------------------------------------------------------
(* RxFrames: what arrives.                                                 *)

\* A raw frame, perhaps cut, as the driver hands it over ...
IsRawFrame(f) ==
  /\ f.version = 0 /\ f.hdr_len \in Nat /\ 8 <= f.hdr_len
  /\ f.ieee \in F!Ieee /\ f.llc \in BOOLEAN
  /\ f.sent_at = f.hdr_len + F!StandardLen(f.ieee) + (IF f.llc THEN F!LLC_LEN ELSE 0)
  /\ f.len \in Nat
  /\ f.llc => f.len >= f.sent_at

\* ... and a datagram or TCP frame.
IsIpFrame(f) == f.version = F!MAGIC /\ f.sent_at = 0 /\ f.len \in Nat

IsFrame(f) ==
  /\ IsBitmaps(f.words)
  /\ f.from \in F!Senders /\ f.sent \in F!Sent(f.from)
  /\ IsRawFrame(f) \/ IsIpFrame(f)

\* Every sender sends something.
LEMMA AnyIs ==
  ASSUME NEW s \in F!Senders
  PROVE  F!Any(s) \in F!Sent(s)
<1>1. s \in {"camera", "ground", "other", "stranger"}
  BY DEF F!Senders, F!Sends
<1>2. PICK t : t \in F!Sends[s]
  BY <1>1 DEF F!Sends
<1>3. [magic |-> s # "stranger", mine |-> (s = "camera" \/ s = "ground"), type |-> t, len |-> 40]
        \in F!Sent(s)
  BY <1>2 DEF F!Sent
<1> QED
  BY <1>3 DEF F!Any

\* The standard's header is the parser's.
LEMMA HeaderIs ==
  ASSUME NEW h \in F!Ieee
  PROVE  F!HdrLen(h) = F!StandardLen(h) /\ F!HdrLen(h) \in Nat /\ 24 <= F!HdrLen(h)
<1>1. h.data \in BOOLEAN /\ h.qos \in BOOLEAN /\ h.to_ds \in BOOLEAN /\ h.from_ds \in BOOLEAN
  BY DEF F!Ieee
<1>2. CASE ~h.data
  BY <1>2 DEF F!HdrLen, F!StandardLen, F!base_len
<1>3. CASE h.data /\ h.to_ds /\ h.from_ds
  BY <1>3 DEF F!HdrLen, F!StandardLen, F!base_len
<1>4. CASE h.data /\ ~(h.to_ds /\ h.from_ds)
  BY <1>4 DEF F!HdrLen, F!StandardLen, F!base_len
<1> QED
  BY <1>1, <1>2, <1>3, <1>4

\* A raw frame that was not cut.
LEMMA RawFrameIs ==
  ASSUME NEW s \in F!Senders, NEW p \in F!Sent(s), NEW words, IsBitmaps(words),
         NEW more \in Nat, NEW h \in F!Ieee, NEW llc \in BOOLEAN
  PROVE  /\ IsFrame(F!RawFrame(s, p, words, more, h, llc))
         /\ F!RawFrame(s, p, words, more, h, llc).sent = p
<1> DEFINE rt == F!RssiOffset(words, F!STANDARD_ALIGN)
                   + (IF F!RSSI_BIT \in words[1] THEN 1 ELSE 0) + more
           at == rt + F!StandardLen(h) + (IF llc THEN F!LLC_LEN ELSE 0)
           f == F!RawFrame(s, p, words, more, h, llc)
<1>1. rt \in Nat /\ 8 <= rt
  BY RssiOffsetIs, WalkIs
<1>2. p.len = 40
  BY DEF F!Sent
<1>3. f = [from |-> s, version |-> 0, hdr_len |-> rt, words |-> words, ieee |-> h,
           llc |-> llc, sent |-> p, sent_at |-> at, len |-> at + p.len]
  BY DEF F!RawFrame
<1> HIDE DEF rt
<1>4. at \in Nat
  BY <1>1, HeaderIs DEF F!LLC_LEN
<1>5. /\ f.version = 0 /\ f.hdr_len = rt /\ f.ieee = h /\ f.llc = llc /\ f.sent_at = at
      /\ f.len = at + p.len /\ f.words = words /\ f.from = s /\ f.sent = p
  BY <1>3
<1> HIDE DEF f
<1>6. f.sent_at = f.hdr_len + F!StandardLen(f.ieee) + (IF f.llc THEN F!LLC_LEN ELSE 0)
  BY <1>5
<1> HIDE DEF at
<1>7. IsRawFrame(f)
  BY <1>1, <1>2, <1>4, <1>5, <1>6 DEF IsRawFrame
<1> QED
  BY <1>5, <1>7 DEF IsFrame, f

\* Everything that may arrive is one of the two.
LEMMA FramesAre ==
  ASSUME F!FramesAssumption, NEW f \in F!Frames
  PROVE  IsFrame(f)
<1>1. F!DATA_FRAME_HDR \in F!Ieee
  BY DEF F!DATA_FRAME_HDR, F!Ieee
<1>2. IsBitmaps(<<{F!RSSI_BIT}>>) /\ IsBitmaps(<<{}>>)
  BY DEF IsBitmaps, F!RSSI_BIT
<1>3. PICK s \in F!Senders : f \in F!FramesOf(s)
  BY DEF F!Frames
<1>4. ASSUME NEW w \in Presents, NEW more \in {0, 4},
             f = F!RawFrame(s, F!Any(s), w, more, F!DATA_FRAME_HDR, FALSE)
      PROVE  IsFrame(f)
  <2>1. IsBitmaps(w)
    BY F!FramesAssumption DEF F!FramesAssumption, IsBitmaps
  <2> QED
    BY <1>1, <1>4, <2>1, AnyIs, RawFrameIs
<1>5. ASSUME NEW p \in F!Sent(s), NEW h \in F!Ieee, NEW llc \in BOOLEAN,
             f = F!RawFrame(s, p, <<{F!RSSI_BIT}>>, 0, h, llc)
      PROVE  IsFrame(f)
  BY <1>2, <1>5, RawFrameIs
<1>6. ASSUME NEW p \in F!Sent(s), NEW c \in Cuts,
             f = [F!RawFrame(s, p, <<{F!RSSI_BIT}>>, 0, F!DATA_FRAME_HDR, FALSE) EXCEPT !.len = c]
      PROVE  IsFrame(f)
  <2> DEFINE g == F!RawFrame(s, p, <<{F!RSSI_BIT}>>, 0, F!DATA_FRAME_HDR, FALSE)
  <2>1. IsFrame(g)
    BY <1>1, <1>2, RawFrameIs
  <2>2. g.version = 0 /\ ~g.llc
    BY DEF F!RawFrame
  <2>3. /\ f.version = g.version /\ f.hdr_len = g.hdr_len /\ f.ieee = g.ieee /\ f.llc = g.llc
        /\ f.sent_at = g.sent_at /\ f.words = g.words /\ f.from = g.from /\ f.sent = g.sent
        /\ f.len = c
    BY <1>6 DEF F!RawFrame
  <2>4. c \in Nat
    BY F!FramesAssumption DEF F!FramesAssumption
  <2> HIDE DEF g
  <2>5. IsRawFrame(g)
    BY <2>1, <2>2 DEF IsFrame, IsIpFrame, F!MAGIC
  <2>6. IsRawFrame(f)
    BY <2>2, <2>3, <2>4, <2>5 DEF IsRawFrame
  <2> QED
    BY <2>1, <2>3, <2>6 DEF IsFrame
<1>7. ASSUME NEW p \in F!Sent(s), f = F!IpFrame(s, p) PROVE IsFrame(f)
  <2>1. p.len = 40
    BY DEF F!Sent
  <2> QED
    BY <1>2, <1>7, <2>1 DEF F!IpFrame, IsFrame, IsIpFrame
<1> DEFINE a(w, more) == F!RawFrame(s, F!Any(s), w, more, F!DATA_FRAME_HDR, FALSE)
           b(p, h, llc) == F!RawFrame(s, p, <<{F!RSSI_BIT}>>, 0, h, llc)
           c(p, n) == [F!RawFrame(s, p, <<{F!RSSI_BIT}>>, 0, F!DATA_FRAME_HDR, FALSE) EXCEPT !.len = n]
           A == {a(w, more) : w \in Presents, more \in {0, 4}}
           B == {b(p, h, llc) : p \in F!Sent(s), h \in F!Ieee, llc \in BOOLEAN}
           C == {c(p, n) : p \in F!Sent(s), n \in Cuts}
           D == {F!IpFrame(s, p) : p \in F!Sent(s)}
<1>8. F!FramesOf(s) = A \cup B \cup C \cup D
  BY DEF F!FramesOf
<1>9. ASSUME f \in A PROVE IsFrame(f)
  <2>1. \A w \in Presents, more \in {0, 4} : f = a(w, more) => IsFrame(f)
    BY <1>4
  <2> HIDE DEF a
  <2> QED
    BY <1>9, <2>1
<1>10. ASSUME f \in B PROVE IsFrame(f)
  <2>1. \A p \in F!Sent(s), h \in F!Ieee, llc \in BOOLEAN : f = b(p, h, llc) => IsFrame(f)
    BY <1>5
  <2> HIDE DEF b
  <2> QED
    BY <1>10, <2>1
<1>11. ASSUME f \in C PROVE IsFrame(f)
  <2>1. \A p \in F!Sent(s), n \in Cuts : f = c(p, n) => IsFrame(f)
    BY <1>6
  <2> HIDE DEF c
  <2> QED
    BY <1>11, <2>1
<1>12. ASSUME f \in D PROVE IsFrame(f)
  BY <1>7, <1>12
<1> HIDE DEF A, B, C, D
<1> QED
  BY <1>3, <1>8, <1>9, <1>10, <1>11, <1>12

\* Of a raw frame recv_extract finds what was sent, where it begins, or nothing when
\* nothing of it is left.
LEMMA ExtractRaw ==
  ASSUME NEW f, IsRawFrame(f)
  PROVE  F!recv_extract(f) = IF f.len <= f.sent_at THEN F!NoPayload ELSE F!Found(f, f.sent_at)
<1> DEFINE rt == F!radiotap_hdr_len(f)
           ieee == F!ieee80211_hdr_len(f)
           llc == f.llc /\ f.sent_at = rt + ieee + F!LLC_LEN /\ f.len >= f.sent_at
           start == rt + ieee + (IF llc THEN F!LLC_LEN ELSE 0)
           std == F!StandardLen(f.ieee)
<1>1. /\ f.version = 0 /\ f.hdr_len \in Nat /\ 8 <= f.hdr_len /\ f.llc \in BOOLEAN
      /\ f.len \in Nat
      /\ f.llc => f.len >= f.sent_at
      /\ f.sent_at = f.hdr_len + std + (IF f.llc THEN F!LLC_LEN ELSE 0)
  BY DEF IsRawFrame
<1>2. F!HdrLen(f.ieee) = std /\ std \in Nat /\ 24 <= std
  BY HeaderIs DEF IsRawFrame
<1>3. F!recv_extract(f) = IF rt = 0 \/ ieee = 0 \/ f.len <= start THEN F!NoPayload
                          ELSE F!Found(f, start)
  BY DEF F!recv_extract
<1>4. rt = IF f.hdr_len > f.len THEN 0 ELSE f.hdr_len
  BY <1>1 DEF F!radiotap_hdr_len
<1>5. ieee = IF f.len < f.hdr_len + std THEN 0 ELSE std
  BY <1>2 DEF F!ieee80211_hdr_len
<1> HIDE DEF rt, ieee, std
<1>6. F!LLC_LEN = 8
  BY DEF F!LLC_LEN
<1>7. CASE f.len < f.hdr_len + std
  <2>1. rt = 0 \/ ieee = 0
    BY <1>5, <1>7
  <2>2. f.len <= f.sent_at
    BY <1>1, <1>2, <1>6, <1>7
  <2> QED
    BY <1>3, <2>1, <2>2
<1>8. CASE ~(f.len < f.hdr_len + std)
  <2>1. rt = f.hdr_len /\ ieee = std
    BY <1>1, <1>2, <1>4, <1>5, <1>8
  <2>2. start = f.sent_at
    <3>1. CASE f.llc
      <4>1. f.sent_at = rt + ieee + F!LLC_LEN
        BY <1>1, <2>1, <3>1
      <4> QED
        BY <1>1, <3>1, <4>1
    <3>2. CASE ~f.llc
      <4>1. f.sent_at = rt + ieee
        BY <1>1, <1>2, <2>1, <3>2
      <4> QED
        BY <1>1, <1>2, <2>1, <3>2, <4>1
    <3> QED
      BY <3>1, <3>2
  <2>3. rt # 0 /\ ieee # 0
    BY <1>1, <1>2, <2>1
  <2> HIDE DEF start
  <2> QED
    BY <1>3, <2>2, <2>3
<1> QED
  BY <1>7, <1>8

\* Over UDP and TCP there is no header to be found.
LEMMA ExtractIp ==
  ASSUME NEW f, IsIpFrame(f)
  PROVE  F!recv_extract(f) = F!NoPayload
<1>1. F!radiotap_hdr_len(f) = 0
  BY DEF IsIpFrame, F!MAGIC, F!radiotap_hdr_len
<1> QED
  BY <1>1 DEF F!recv_extract

\* Nothing is accepted of nothing, and of other bytes than those that were sent.
LEMMA NothingAccepted ==
  ASSUME NEW p, ~p.magic, NEW types
  PROVE  F!Accepted(p, types) = "none"
BY DEF F!Accepted, F!matches_magic

\* What the parsers and filters let through: the drone's own frames, of either side.
OfDrone(f, types) ==
  IF f.from \in {"camera", "ground"} /\ F!Whole(f, types) THEN f.sent.type ELSE "none"

\* What was sent is accepted if it is the drone's, whole and of a type handled.
LEMMA AcceptedIsOfDrone ==
  ASSUME NEW f, IsFrame(f), f.sent_at \in Nat, f.len > f.sent_at, NEW types
  PROVE  F!Accepted(F!Found(f, f.sent_at), types) = OfDrone(f, types)
<1> DEFINE p == F!Found(f, f.sent_at)
<1>1. f.sent \in F!Sent(f.from) /\ f.from \in {"camera", "ground", "other", "stranger"}
  BY DEF IsFrame, F!Senders, F!Sends
<1>2. /\ f.sent.magic = (f.from # "stranger")
      /\ f.sent.mine = (f.from = "camera" \/ f.from = "ground")
  BY <1>1 DEF F!Sent
<1>3. p = [f.sent EXCEPT !.len = f.len - f.sent_at]
  BY DEF F!Found
<1>4. p.magic = f.sent.magic /\ p.mine = f.sent.mine /\ p.type = f.sent.type
      /\ p.len = f.len - f.sent_at
  BY <1>1, <1>3 DEF F!Sent
<1>5. f.len \in Nat
  BY DEF IsFrame, IsRawFrame, IsIpFrame
<1> HIDE DEF p
<1>6. F!decode(p) <=> f.from # "stranger" /\ f.len >= f.sent_at + F!HEADER_LEN
  <2>1. p.magic <=> f.from # "stranger"
    BY <1>2, <1>4, Zenon
  <2>2. p.len >= F!HEADER_LEN <=> f.len >= f.sent_at + F!HEADER_LEN
    BY <1>4, <1>5 DEF F!HEADER_LEN
  <2> QED
    BY <2>1, <2>2 DEF F!decode
<1>7. F!decode(p) => F!matches_magic(p)
  BY <1>4, <1>5 DEF F!decode, F!matches_magic, F!HEADER_LEN
<1>8. p.mine <=> f.from \in {"camera", "ground"}
  BY <1>2, <1>4
<1>9. (F!matches_magic(p) /\ F!decode(p) /\ p.mine /\ p.type \in types)
        <=> (/\ f.from \in {"camera", "ground"}
             /\ f.len >= f.sent_at + F!HEADER_LEN
             /\ f.sent.type \in types)
  BY <1>1, <1>4, <1>6, <1>7, <1>8
<1> QED
  BY <1>4, <1>9 DEF p, F!Accepted, OfDrone, F!Whole

\* Nothing is left of a frame that was cut before what was sent.
LEMMA NothingOfDrone ==
  ASSUME NEW f, f.len \in Nat, f.sent_at \in Nat, f.len <= f.sent_at, NEW types
  PROVE  OfDrone(f, types) = "none"
BY DEF OfDrone, F!Whole, F!HEADER_LEN

\* What each dispatcher makes of a frame.
LEMMA CameraTakes ==
  ASSUME NEW f, IsFrame(f)
  PROVE  F!Accepted(F!recv_extract(f), F!CameraTypes)
           = IF F!IsRaw(f) THEN OfDrone(f, F!CameraTypes) ELSE "none"
<1>0. F!Accepted(F!NoPayload, F!CameraTypes) = "none"
  BY NothingAccepted DEF F!NoPayload
<1>1. CASE IsIpFrame(f)
  BY <1>0, <1>1, ExtractIp DEF F!IsRaw, IsIpFrame, F!MAGIC
<1>2. CASE IsRawFrame(f)
  <2>1. f.sent_at \in Nat /\ f.len \in Nat /\ F!IsRaw(f)
    BY <1>2, HeaderIs DEF IsRawFrame, F!LLC_LEN, F!IsRaw
  <2>2. CASE f.len <= f.sent_at
    BY <1>0, <1>2, <2>1, <2>2, ExtractRaw, NothingOfDrone
  <2>3. CASE f.len > f.sent_at
    BY <1>2, <2>1, <2>3, ExtractRaw, AcceptedIsOfDrone
  <2> QED
    BY <2>1, <2>2, <2>3
<1> QED
  BY <1>1, <1>2 DEF IsFrame

LEMMA GroundTakes ==
  ASSUME NEW f, IsFrame(f)
  PROVE  F!Accepted(F!GroundPayload(f), F!GroundTypes) = OfDrone(f, F!GroundTypes)
<1>1. CASE IsIpFrame(f)
  <2>1. F!GroundPayload(f) = F!Found(f, 0) /\ f.sent_at = 0 /\ f.len \in Nat
    BY <1>1, ExtractIp DEF F!GroundPayload, IsIpFrame
  <2>2. CASE f.len > 0
    BY <2>1, <2>2, AcceptedIsOfDrone
  <2>3. CASE f.len = 0
    <3>1. F!Found(f, 0).len = 0
      BY <2>1, <2>3 DEF F!Found, IsFrame, F!Sent
    <3>2. F!Accepted(F!Found(f, 0), F!GroundTypes) = "none"
      BY <3>1 DEF F!Accepted, F!matches_magic
    <3> QED
      BY <2>1, <2>3, <3>2, NothingOfDrone
  <2> QED
    BY <2>1, <2>2, <2>3
<1>2. CASE IsRawFrame(f)
  <2>1. f.sent_at \in Nat /\ f.len \in Nat /\ f.sent_at # 0
    BY <1>2, HeaderIs DEF IsRawFrame, F!LLC_LEN
  <2>2. CASE f.len <= f.sent_at
    <3>1. F!GroundPayload(f) = F!Found(f, 0)
      BY <1>2, <2>2, ExtractRaw DEF F!GroundPayload
    <3>2. ~F!Found(f, 0).magic
      BY <2>1 DEF F!Found, IsFrame, F!Sent
    <3> QED
      BY <2>1, <2>2, <3>1, <3>2, NothingAccepted, NothingOfDrone
  <2>3. CASE f.len > f.sent_at
    <3>1. F!Found(f, f.sent_at).len = f.len - f.sent_at
      BY DEF F!Found, IsFrame, F!Sent
    <3>2. F!Found(f, f.sent_at) # F!NoPayload
      BY <2>1, <2>3, <3>1 DEF F!NoPayload
    <3>3. F!GroundPayload(f) = F!Found(f, f.sent_at)
      BY <1>2, <2>1, <2>3, <3>2, ExtractRaw DEF F!GroundPayload
    <3> QED
      BY <2>1, <2>3, <3>3, AcceptedIsOfDrone
  <2> QED
    BY <2>1, <2>2, <2>3
<1> QED
  BY <1>1, <1>2 DEF IsFrame

\* What the filters let through is due to the side, or its own heard back.
LEMMA DueIsOfDrone ==
  ASSUME NEW side \in F!Sides, NEW f, NEW types, ~F!Echo(f, side, types)
  PROVE  F!Due(f, side, types) = OfDrone(f, types)
BY DEF F!Sides, F!Other, F!Echo, F!Meant, F!Due, OfDrone

-----------------------------------------------------------------------------
(* RxFrames: the theorems.                                                 *)

\* What has arrived is a frame, and at one of the sides.
FrameInv == frame = F!Empty \/ (frame.at \in F!Sides /\ IsFrame(frame.f))

LEMMA FrameInvariant ==
  ASSUME F!FramesAssumption
  PROVE  F!Spec => []FrameInv
<1>1. F!Init => FrameInv
  BY DEF F!Init, FrameInv
<1>2. FrameInv /\ [F!Next]_F!vars => FrameInv'
  <2> SUFFICES ASSUME FrameInv, [F!Next]_F!vars PROVE FrameInv'
    OBVIOUS
  <2>1. ASSUME NEW side \in F!Sides, NEW f \in F!Frames, F!Arrive(side, f) PROVE FrameInv'
    <3>1. frame' = [at |-> side, f |-> f]
      BY <2>1 DEF F!Arrive
    <3>2. IsFrame(f)
      BY FramesAre
    <3>3. frame'.at = side /\ frame'.f = f
      BY <3>1
    <3> QED
      BY <3>2, <3>3 DEF FrameInv
  <2>2. CASE F!GroundRx
    BY <2>2 DEF F!GroundRx, FrameInv
  <2>3. CASE F!CameraRx
    BY <2>3 DEF F!CameraRx, FrameInv
  <2>4. CASE UNCHANGED F!vars
    BY <2>4 DEF F!vars, FrameInv
  <2> QED
    BY <2>1, <2>2, <2>3, <2>4 DEF F!Next
<1> QED
  BY <1>1, <1>2, PTL DEF F!Spec

\* Each side hands on what the other side of its drone sent, to the component it was sent
\* to, and nothing of anybody else but itself, whatever a driver lays into its radiotap
\* header and wherever frames are cut.
THEOREM EachTakesItsOwnTheorem ==
  ASSUME F!FramesAssumption
  PROVE  F!Spec => F!EachTakesItsOwn
<1> DEFINE OfGround == delivered' = F!Due(frame.f, "ground", F!GroundTypes)
           OfCamera == delivered' = IF F!IsRaw(frame.f)
                                      THEN F!Due(frame.f, "camera", F!CameraTypes) ELSE "none"
           Taken == /\ F!GroundRx /\ ~F!Echo(frame.f, "ground", F!GroundTypes) => OfGround
                    /\ F!CameraRx /\ ~F!Echo(frame.f, "camera", F!CameraTypes) => OfCamera
<1>1. FrameInv => Taken
  <2> SUFFICES ASSUME FrameInv PROVE Taken
    OBVIOUS
  <2>1. "ground" \in F!Sides /\ "camera" \in F!Sides
    BY DEF F!Sides
  <2>2. ASSUME F!GroundRx, ~F!Echo(frame.f, "ground", F!GroundTypes)
        PROVE  OfGround
    <3>1. delivered' = OfDrone(frame.f, F!GroundTypes)
      BY <2>2, GroundTakes DEF F!GroundRx, FrameInv, F!Empty
    <3> QED
      BY <2>1, <2>2, <3>1, DueIsOfDrone
  <2>3. ASSUME F!CameraRx, ~F!Echo(frame.f, "camera", F!CameraTypes)
        PROVE  OfCamera
    <3>1. delivered' = IF F!IsRaw(frame.f) THEN OfDrone(frame.f, F!CameraTypes) ELSE "none"
      BY <2>3, CameraTakes DEF F!CameraRx, FrameInv, F!Empty
    <3> QED
      BY <2>1, <2>3, <3>1, DueIsOfDrone
  <2> QED
    BY <2>2, <2>3
<1>2. F!Spec => [][Taken]_F!vars
  <2> HIDE DEF Taken
  <2> QED
    BY <1>1, FrameInvariant, PTL
<1> QED
  BY <1>2 DEF F!EachTakesItsOwn

\* The signal shown is one the driver measured, unless the channel is shifted.
THEOREM SignalTheorem ==
  ASSUME F!FramesAssumption
  PROVE  F!Spec => F!SignalIsReal
<1> DEFINE Real == F!GroundRx /\ ~F!ChannelIsShifted(frame.f.words)
                     => rssi'.real \/ rssi' = rssi
<1>1. FrameInv => Real
  <2> SUFFICES ASSUME FrameInv, F!GroundRx, ~F!ChannelIsShifted(frame.f.words),
                      rssi' # rssi
               PROVE  rssi'.real
    OBVIOUS
  <2>1. IsBitmaps(frame.f.words)
    BY DEF FrameInv, F!Empty, F!GroundRx, IsFrame
  <2>2. /\ rssi' = F!parse_radiotap_rssi(frame.f)
        /\ F!parse_radiotap_rssi(frame.f) # F!NoSignal
    BY DEF F!GroundRx
  <2>3. rssi' = F!ByteAt(frame.f, F!RssiOffset(frame.f.words, F!FIELD_ALIGN))
    BY <2>2 DEF F!parse_radiotap_rssi
  <2>4. F!RssiOffset(frame.f.words, F!FIELD_ALIGN) = F!RssiOffset(frame.f.words, F!STANDARD_ALIGN)
    BY <2>1, SameWalk
  <2> QED
    BY <2>3, <2>4 DEF F!ByteAt
<1>2. F!Spec => [][Real]_F!vars
  <2> HIDE DEF Real
  <2> QED
    BY <1>1, FrameInvariant, PTL
<1> QED
  BY <1>2 DEF F!SignalIsReal

================================================================================
