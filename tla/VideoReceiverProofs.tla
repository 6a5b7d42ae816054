-------------------------- MODULE VideoReceiverProofs --------------------------
(***************************************************************************)
(* What the FEC ring guarantees for every ring size, sequence range, shard *)
(* count, number of blocks and network behaviour.                          *)
(*                                                                         *)
(*   - blocks that share a slot never mix their shards, and the counter    *)
(*     that declares a block complete counts distinct shards (RingInv)     *)
(*   - as long as the receiver neither strayed nor saw a restart, it hands *)
(*     blocks on in the camera's order and keeps what it decoded, although *)
(*     all it sees are numbers that wrap around (OrderInv)                 *)
(*   - no block is handed on twice where no shard comes twice (OnceInv)    *)
(*   - on a network without loss no block is left out (DeliveryInv)        *)
(*   - what it hands on is a BlockStream                                   *)
(*   - after a restart of the camera nothing is shown that lies behind     *)
(*     where the receiver was: its head only moves on, and what it accepts *)
(*     lies ahead of it (DarkInv)                                          *)
(*                                                                         *)
(* The properties speak of the camera's blocks, the code of their numbers: *)
(* At(b) is the number of block b, and most lemmas lead from the one to    *)
(* the other.                                                              *)
(***************************************************************************)
EXTENDS VideoReceiver, FiniteSetTheorems, SequenceTheorems, WellFoundedInduction, TLAPS

-----------------------------------------------------------------------------
\* Division with remainder.
LEMMA Division ==
  ASSUME NEW a \in Int, NEW m \in Nat \ {0}
  PROVE  a = m * (a \div m) + (a % m) /\ a \div m \in Int /\ a % m \in 0..(m - 1)
  OBVIOUS

\* The remainder of a number written as rounds and a rest.
LEMMA Remainder ==
  ASSUME NEW m \in Nat \ {0}, NEW q \in Int, NEW r \in 0..(m - 1)
  PROVE  (m * q + r) % m = r
  OBVIOUS

\* Whole rounds do not change a remainder.
LEMMA ModRounds ==
  ASSUME NEW m \in Nat \ {0}, NEW a \in Int, NEW k \in Int
  PROVE  (a + m * k) % m = a % m
<1> DEFINE q == a \div m
           r == a % m
<1>1. a = m * q + r /\ q \in Int /\ r \in 0..(m - 1)
  BY Division
<1> HIDE DEF q, r
<1>2. a + m * k = m * (q + k) + r
  BY <1>1
<1>3. (m * (q + k) + r) % m = r
  BY <1>1, Remainder
<1>4. QED
  BY <1>2, <1>3 DEF r

\* A remainder may be taken before a sum ...
LEMMA ModAdd ==
  ASSUME NEW m \in Nat \ {0}, NEW a \in Int, NEW b \in Int
  PROVE  ((a % m) + b) % m = (a + b) % m
<1> DEFINE q == a \div m
           r == a % m
<1>1. a = m * q + r /\ q \in Int /\ r \in Int
  BY Division
<1> HIDE DEF q, r
<1>2. a + b = (r + b) + m * q /\ r + b \in Int
  BY <1>1
<1>3. ((r + b) + m * q) % m = (r + b) % m
  BY <1>1, <1>2, ModRounds, Zenon
<1>4. QED
  BY <1>2, <1>3, Zenon DEF r

\* ... and before a difference.
LEMMA ModMinus ==
  ASSUME NEW m \in Nat \ {0}, NEW a \in Int, NEW b \in Int
  PROVE  (b - (a % m)) % m = (b - a) % m
<1> DEFINE q == a \div m
           r == a % m
<1>1. a = m * q + r /\ q \in Int /\ r \in Int
  BY Division
<1> HIDE DEF q, r
<1>2. b - a = (b - r) + m * (-q) /\ b - r \in Int /\ -q \in Int
  BY <1>1
<1>3. ((b - r) + m * (-q)) % m = (b - r) % m
  BY <1>2, ModRounds, Zenon
<1>4. QED
  BY <1>2, <1>3, Zenon DEF r

\* The remainder for a divisor survives the remainder for its multiple.
LEMMA ModMod ==
  ASSUME NEW m \in Nat \ {0}, NEW n \in Nat \ {0}, m % n = 0, NEW a \in Int
  PROVE  (a % m) % n = a % n
<1> DEFINE q == a \div m
           r == a % m
           k == m \div n
<1>1. a = m * q + r /\ q \in Int /\ r \in Int
  BY Division
<1>2. m = n * k /\ k \in Int
  BY Division
<1> HIDE DEF q, r, k
<1>3. a = r + n * (k * q) /\ k * q \in Int
  BY <1>1, <1>2
<1>4. (r + n * (k * q)) % n = r % n
  BY <1>1, <1>3, ModRounds
<1>5. QED
  BY <1>3, <1>4 DEF r

\* The remainder of a number less than a round from 0.
LEMMA ModSmall ==
  ASSUME NEW m \in Nat \ {0}, NEW a \in Int
  PROVE  /\ 0 <= a /\ a < m => a % m = a
         /\ a < 0 /\ -a <= m => a % m = a + m
<1>1. ASSUME 0 <= a, a < m
      PROVE  a % m = a
  BY <1>1
<1>2. ASSUME a < 0, -a <= m
      PROVE  a % m = a + m
  <2>1. 1 \in Int
    OBVIOUS
  <2>2. (a + m * 1) % m = a % m
    BY <2>1, ModRounds, Zenon
  <2>3. a + m * 1 = a + m /\ a + m \in 0..(m - 1)
    BY <1>2
  <2>4. (a + m) % m = a + m
    BY <2>3
  <2>5. QED
    BY <2>2, <2>3, <2>4, Zenon
<1>3. QED
  BY <1>1, <1>2

\* Numbers less than the modulus apart are equal when their remainders are.
LEMMA ModSame ==
  ASSUME NEW m \in Nat \ {0}, NEW a \in Int, NEW b \in Int,
         a - b < m, b - a < m, a % m = b % m
  PROVE  a = b
<1>1. (a - (b % m)) % m = (a - b) % m
  BY ModMinus
<1>2. (a - (a % m)) % m = (a - a) % m
  BY ModMinus
<1>3. (a - b) % m = 0
  BY <1>1, <1>2
<1>4. a - b \in Int
  OBVIOUS
<1>5. CASE a - b >= 0
  BY <1>3, <1>4, <1>5, ModSmall
<1>6. CASE a - b < 0
  <2>1. (a - b) % m = (a - b) + m
    BY <1>4, <1>6, ModSmall
  <2>2. QED
    BY <1>3, <2>1
<1>7. QED
  BY <1>5, <1>6

\* A set of natural numbers has a least element.
LEMMA Least ==
  ASSUME NEW T \in SUBSET Nat, T # {}
  PROVE  \E n \in T : \A k \in T : n <= k
<1>1. PICK n \in T : \A k \in T : ~(<<k, n>> \in OpToRel(<, Nat))
  BY NatLessThanWellFounded, WFMin, Zenon
<1>2. \A k \in T : ~(k < n)
  BY <1>1, Zenon DEF OpToRel
<1>3. QED
  BY <1>2

-----------------------------------------------------------------------------
\* The numbers and the slots wrap around together.
LEMMA Moduli ==
  SeqMod \in Nat \ {0} /\ RingSize \in Nat \ {0} /\ SeqMod % RingSize = 0
  BY RingAssumption

\* The number of the camera's block b, counted from where its numbers are now.
At(b) == (fec_block_seq + (b - sent)) % SeqMod

\* The camera's numbers are what they must be for At to be a number.
Counting == fec_block_seq \in SeqNums /\ sent \in Nat

\* The block's number is in the range of the sequence numbers.
LEMMA AtIsSeqNum ==
  ASSUME Counting, NEW b \in Int
  PROVE  At(b) \in SeqNums
<1>1. fec_block_seq + (b - sent) \in Int
  BY DEF Counting, SeqNums
<1>2. QED
  BY <1>1, RingAssumption, Division DEF At, SeqNums

\* Counting on in sequence numbers is counting on in blocks.
LEMMA AtPlus ==
  ASSUME Counting, NEW b \in Int, NEW k \in Int
  PROVE  (At(b) + k) % SeqMod = At(b + k)
<1> DEFINE a == fec_block_seq + (b - sent)
<1>1. a \in Int /\ fec_block_seq + ((b + k) - sent) = a + k
  BY DEF Counting, SeqNums
<1>2. At(b) = a % SeqMod
  BY DEF At
<1>3. At(b + k) = (a + k) % SeqMod
  BY <1>1 DEF At
<1> HIDE DEF a
<1>4. ((a % SeqMod) + k) % SeqMod = (a + k) % SeqMod
  BY <1>1, Moduli, ModAdd, Zenon
<1>5. QED
  BY <1>2, <1>3, <1>4, Zenon

\* The wrapping distance of two numbers is the distance of their blocks.
LEMMA AtDist ==
  ASSUME Counting, NEW b \in Int, NEW c \in Int
  PROVE  Dist(At(b), At(c)) = (b - c) % SeqMod
<1> DEFINE s == fec_block_seq - sent
<1>1. s \in Int
  BY DEF Counting, SeqNums
<1>2. /\ At(b) = (s + b) % SeqMod
      /\ At(c) = (s + c) % SeqMod
  <2>1. /\ fec_block_seq + (b - sent) = s + b
        /\ fec_block_seq + (c - sent) = s + c
    BY DEF Counting, SeqNums
  <2>2. QED
    BY <2>1 DEF At
<1> HIDE DEF s
<1> DEFINE x == s + b
           y == s + c
           z == x % SeqMod
<1>3. x \in Int /\ y \in Int /\ z \in Int /\ -y \in Int
  <2>1. x \in Int
    BY <1>1
  <2>2. y \in Int /\ -y \in Int
    BY <1>1
  <2>3. z \in Int
    BY <2>1, Moduli, Division
  <2>4. QED
    BY <2>1, <2>2, <2>3
<1>4. x + (-y) = b - c
  BY <1>1
<1>5. z + (-y) = z - y
  BY <1>3
<1> HIDE DEF x, y
<1>6. (z - (y % SeqMod)) % SeqMod = (z - y) % SeqMod
  BY <1>3, Moduli, ModMinus, Zenon
<1>7. (z + (-y)) % SeqMod = (x + (-y)) % SeqMod
  BY <1>3, Moduli, ModAdd, Zenon
<1>8. (z - (y % SeqMod)) % SeqMod = (b - c) % SeqMod
  BY <1>4, <1>5, <1>6, <1>7, Zenon
<1>9. QED
  BY <1>2, <1>8, Zenon DEF Dist, x, y

\* Blocks less than a round of numbers apart have different numbers.
LEMMA AtSame ==
  ASSUME Counting, NEW b \in Int, NEW c \in Int,
         b - c < SeqMod, c - b < SeqMod, At(b) = At(c)
  PROVE  b = c
<1> DEFINE x == fec_block_seq + (b - sent)
           y == fec_block_seq + (c - sent)
<1>1. x \in Int /\ y \in Int /\ x - y = b - c /\ y - x = c - b
  BY DEF Counting, SeqNums
<1>2. x % SeqMod = y % SeqMod
  BY DEF At
<1> HIDE DEF x, y
<1>3. x = y
  BY <1>1, <1>2, RingAssumption, ModSame
<1>4. QED
  BY <1>1, <1>3

\* The slots follow the blocks.
LEMMA AtSlot ==
  ASSUME Counting, NEW b \in Int, NEW k \in Int
  PROVE  Slot(At(b) + k) = Slot(At(b + k))
<1> DEFINE a == fec_block_seq + (b - sent)
<1>1. a \in Int /\ fec_block_seq + ((b + k) - sent) = a + k
  BY DEF Counting, SeqNums
<1>2. At(b) = a % SeqMod
  BY DEF At
<1>3. At(b + k) = (a + k) % SeqMod
  BY <1>1 DEF At
<1> HIDE DEF a
<1>4. ((a % SeqMod) + k) % RingSize = (a + k) % RingSize
  <2>1. a % SeqMod \in Int
    BY <1>1, Moduli, Division
  <2>2. (a % SeqMod) % RingSize = a % RingSize
    BY <1>1, Moduli, ModMod, Zenon
  <2>3. (((a % SeqMod) % RingSize) + k) % RingSize = ((a % SeqMod) + k) % RingSize
    BY <2>1, Moduli, ModAdd, Zenon
  <2>4. ((a % RingSize) + k) % RingSize = (a + k) % RingSize
    BY <1>1, Moduli, ModAdd, Zenon
  <2>5. QED
    BY <2>2, <2>3, <2>4, Zenon
<1>5. a + k \in Int
  BY <1>1
<1>6. ((a + k) % SeqMod) % RingSize = (a + k) % RingSize
  BY <1>5, Moduli, ModMod, Zenon
<1>7. QED
  BY <1>2, <1>3, <1>4, <1>6, Zenon DEF Slot

\* Blocks less than a ring apart have different slots.
LEMMA SlotSame ==
  ASSUME Counting, NEW b \in Int, NEW c \in Int,
         b - c < RingSize, c - b < RingSize, Slot(At(b)) = Slot(At(c))
  PROVE  b = c
<1> DEFINE x == fec_block_seq + (b - sent)
           y == fec_block_seq + (c - sent)
<1>1. x \in Int /\ y \in Int /\ x - y = b - c /\ y - x = c - b
  BY DEF Counting, SeqNums
<1>2. At(b) = x % SeqMod /\ At(c) = y % SeqMod
  BY DEF At
<1> HIDE DEF x, y
<1>3. (x % SeqMod) % RingSize = x % RingSize /\ (y % SeqMod) % RingSize = y % RingSize
  BY <1>1, Moduli, ModMod, Zenon
<1>4. x % RingSize = y % RingSize
  BY <1>2, <1>3, Zenon DEF Slot
<1>5. x = y
  BY <1>1, <1>4, Moduli, ModSame
<1>6. QED
  BY <1>1, <1>5

\* The slots from n on: each comes once in RingSize steps.
LEMMA SlotSteps ==
  ASSUME NEW n \in Int
  PROVE  /\ \A i \in Slots : (i - n) % RingSize \in 0..(RingSize - 1)
                             /\ Slot(n + ((i - n) % RingSize)) = i
         /\ \A j \in 0..(RingSize - 1) : Slot(n + j) \in Slots /\ (Slot(n + j) - n) % RingSize = j
<1>1. ASSUME NEW i \in Slots
      PROVE  /\ (i - n) % RingSize \in 0..(RingSize - 1)
             /\ Slot(n + ((i - n) % RingSize)) = i
  <2>1. i - n \in Int /\ i \in 0..(RingSize - 1) /\ i \in Int
    BY DEF Slots
  <2>2. (i - n) % RingSize \in 0..(RingSize - 1)
    BY <2>1, Moduli, Division
  <2>3. (((i - n) % RingSize) + n) % RingSize = ((i - n) + n) % RingSize
    BY <2>1, Moduli, ModAdd, Zenon
  <2>4. (i - n) + n = i /\ n + ((i - n) % RingSize) = ((i - n) % RingSize) + n
    BY <2>1, <2>2
  <2>5. i % RingSize = i
    BY <2>1, Moduli
  <2>6. QED
    BY <2>2, <2>3, <2>4, <2>5, Zenon DEF Slot
<1>2. ASSUME NEW j \in 0..(RingSize - 1)
      PROVE  Slot(n + j) \in Slots /\ (Slot(n + j) - n) % RingSize = j
  <2>1. n + j \in Int /\ -n \in Int /\ j \in Int
    BY Moduli
  <2>2. (n + j) % RingSize \in 0..(RingSize - 1)
    BY <2>1, Moduli, Division
  <2>3. (((n + j) % RingSize) + (-n)) % RingSize = ((n + j) + (-n)) % RingSize
    BY <2>1, Moduli, ModAdd, Zenon
  <2>4. (n + j) + (-n) = j /\ ((n + j) % RingSize) - n = ((n + j) % RingSize) + (-n)
    BY <2>1, <2>2
  <2>5. j % RingSize = j
    BY Moduli
  <2>6. QED
    BY <2>2, <2>3, <2>4, <2>5, Zenon DEF Slot, Slots
<1>3. QED
  BY <1>1, <1>2

\* drain_completed takes a run of filled slots, the k from n on, and stops at an
\* empty slot or after the whole ring.
LEMMA DrainedRun ==
  ASSUME NEW c, NEW n \in Int
  PROVE  \E k \in 0..RingSize :
           /\ Cardinality(DrainedSlots(c, n)) = k
           /\ DrainedSlots(c, n) = {Slot(n + j) : j \in 0..(k - 1)}
           /\ \A j \in 0..(k - 1) : c[Slot(n + j)] # None
           /\ k < RingSize => c[Slot(n + k)] = None
<1> DEFINE T == {j \in 0..(RingSize - 1) : c[Slot(n + j)] = None} \cup {RingSize}
           D == DrainedSlots(c, n)
<1>1. PICK k \in T : \A j \in T : k <= j
  <2>1. T \in SUBSET Nat /\ T # {}
    BY Moduli
  <2> HIDE DEF T
  <2>2. QED
    BY <2>1, Least
<1>2. /\ k \in 0..RingSize
      /\ \A j \in 0..(k - 1) : c[Slot(n + j)] # None
      /\ k < RingSize => c[Slot(n + k)] = None
  <2>1. k \in 0..RingSize
    BY Moduli
  <2>2. ASSUME NEW j \in 0..(k - 1)
        PROVE  c[Slot(n + j)] # None
    <3>1. j \in 0..(RingSize - 1) /\ ~(k <= j)
      BY <2>1, Moduli
    <3>2. QED
      BY <1>1, <3>1
  <2>3. ASSUME k < RingSize
        PROVE  c[Slot(n + k)] = None
    BY <2>3, Moduli
  <2>4. QED
    BY <2>1, <2>2, <2>3
<1> HIDE DEF T
<1>3. D = {i \in Slots : (i - n) % RingSize < k}
  <2>1. ASSUME NEW i \in Slots
        PROVE  (\A j \in 0..((i - n) % RingSize) : c[Slot(n + j)] # None)
               <=> (i - n) % RingSize < k
    <3> DEFINE m == (i - n) % RingSize
    <3>1. m \in 0..(RingSize - 1)
      BY SlotSteps
    <3> HIDE DEF m
    <3>2. ASSUME m < k
          PROVE  \A j \in 0..m : c[Slot(n + j)] # None
      BY <1>2, <3>1, <3>2
    <3>3. ASSUME ~(m < k)
          PROVE  ~(\A j \in 0..m : c[Slot(n + j)] # None)
      <4>1. k < RingSize /\ k \in 0..m
        BY <1>2, <3>1, <3>3, Moduli
      <4>2. QED
        BY <1>2, <4>1
    <3>4. (\A j \in 0..m : c[Slot(n + j)] # None) <=> m < k
      BY <3>2, <3>3
    <3>5. QED
      BY <3>4, Zenon DEF m
  <2>2. QED
    BY <2>1, Zenon DEF DrainedSlots
<1>4. D = {Slot(n + j) : j \in 0..(k - 1)}
  <2>1. ASSUME NEW j \in 0..(k - 1)
        PROVE  Slot(n + j) \in D
    <3>1. j \in 0..(RingSize - 1) /\ j < k
      BY <1>2, Moduli
    <3>2. Slot(n + j) \in Slots /\ (Slot(n + j) - n) % RingSize = j
      BY <3>1, SlotSteps
    <3>3. (Slot(n + j) - n) % RingSize < k
      BY <3>1, <3>2
    <3> HIDE DEF D
    <3>4. QED
      BY <1>3, <3>2, <3>3
  <2>2. ASSUME NEW i \in D
        PROVE  \E j \in 0..(k - 1) : i = Slot(n + j)
    <3> DEFINE m == (i - n) % RingSize
    <3>1. i \in Slots /\ m < k
      BY <1>3
    <3>2. m \in 0..(RingSize - 1) /\ Slot(n + m) = i
      BY <3>1, SlotSteps
    <3> HIDE DEF m
    <3>3. m \in 0..(k - 1)
      BY <1>2, <3>1, <3>2, Moduli
    <3>4. QED
      BY <3>2, <3>3
  <2> HIDE DEF D
  <2>3. QED
    BY <2>1, <2>2
<1>5. Cardinality(D) = k
  <2> DEFINE f == [j \in 0..(k - 1) |-> Slot(n + j)]
  <2>1. \A i, j \in 0..(k - 1) : Slot(n + i) = Slot(n + j) => i = j
    <3> SUFFICES ASSUME NEW i \in 0..(k - 1), NEW j \in 0..(k - 1), Slot(n + i) = Slot(n + j)
                 PROVE  i = j
      OBVIOUS
    <3>1. i \in 0..(RingSize - 1) /\ j \in 0..(RingSize - 1)
      BY <1>2, Moduli
    <3>2. (Slot(n + i) - n) % RingSize = i /\ (Slot(n + j) - n) % RingSize = j
      BY <3>1, SlotSteps
    <3>3. QED
      BY <3>2, Zenon
  <2> HIDE DEF D
  <2>2. f \in Bijection(0..(k - 1), D)
    <3>1. f \in [0..(k - 1) -> D]
      BY <1>4
    <3>2. \A i, j \in 0..(k - 1) : f[i] = f[j] => i = j
      BY <2>1
    <3>3. \A d \in D : \E j \in 0..(k - 1) : f[j] = d
      BY <1>4
    <3>4. QED
      BY <3>1, <3>2, <3>3 DEF Bijection, Injection, Surjection, IsInjective
  <2>3. ExistsBijection(0..(k - 1), D)
    BY <2>2 DEF ExistsBijection
  <2>4. 0 \in Int /\ k - 1 \in Int /\ k \in Nat
    BY <1>2, Moduli
  <2>5. IsFiniteSet(0..(k - 1)) /\ Cardinality(0..(k - 1)) = IF 0 > k - 1 THEN 0 ELSE (k - 1) - 0 + 1
    BY <2>4, FS_Interval, Zenon
  <2>6. Cardinality(D) = Cardinality(0..(k - 1))
    BY <2>3, <2>5, FS_Bijection, Zenon
  <2>7. QED
    BY <2>4, <2>5, <2>6
<1>6. QED
  BY <1>2, <1>4, <1>5

\* A ring of blocks: each entry lies in its own slot and holds shards of the one
\* block its sequence number names.
RingOf(ring, Entries) ==
  /\ ring \in [Slots -> Entries \cup {None}]
  /\ \A i \in Filled(ring) :
       /\ Slot(ring[i].seq) = i
       /\ \A p \in ring[i].got : p.seq = ring[i].seq

\* The record a packet's effect is computed on.
IsRing(r) ==
  /\ r = [next |-> r.next, completed |-> r.completed, out |-> r.out,
          fresh |-> r.fresh]
  /\ r.next \in SeqNums
  /\ RingOf(r.completed, CompletedBlock)

\* A block of sequence number seq whose counter counts its distinct shards.
IsBlock(b, seq) ==
  /\ b \in PartialBlock
  /\ b.seq = seq
  /\ \A p \in b.got : p.seq = seq
  /\ b.received = Cardinality(Indices(b))

\* The counter of a partial block counts its distinct shards, and lacks some.
CountsAreRight ==
  \A i \in Filled(blocks) :
    /\ blocks[i].received = Cardinality(Indices(blocks[i]))
    /\ blocks[i].received < DataShards

RingInv ==
  /\ net \subseteq Packets
  /\ sent \in Nat
  /\ sent >= 1
  /\ fec_block_seq \in SeqNums
  /\ chan \in Seq(Packets)
  /\ next_block \in SeqNums \cup {None}
  /\ RingOf(blocks, PartialBlock)
  /\ RingOf(completed, CompletedBlock)
  /\ CountsAreRight

-----------------------------------------------------------------------------
\* The range of a remainder.
LEMMA ModRange ==
  ASSUME NEW a \in Int, NEW m \in Nat \ {0}
  PROVE  a % m \in 0..(m - 1)
  OBVIOUS

\* Slot is a slot of the ring.
LEMMA SlotInRing == \A seq \in SeqNums : Slot(seq) \in Slots
  BY RingAssumption, ModRange DEF Slot, Slots, SeqNums

\* Succ stays in the range of the numbers.
LEMMA SuccIsSeqNum == \A seq \in SeqNums : Succ(seq) \in SeqNums
  BY RingAssumption, ModRange DEF Succ, SeqNums

\* A packet bears a sequence number.
LEMMA PacketSeqNum == \A p \in Packets : p.seq \in SeqNums
  BY DEF Packets

\* Emptying slots keeps a ring.
LEMMA EmptyKeepsRing ==
  ASSUME NEW Entries, NEW c, RingOf(c, Entries), NEW S,
         NEW d, d = [i \in Slots |-> IF i \in S THEN None ELSE c[i]]
  PROVE  RingOf(d, Entries)
<1>1. d \in [Slots -> Entries \cup {None}]
  BY DEF RingOf
<1>2. \A i \in Filled(d) : i \in Filled(c) /\ d[i] = c[i]
  BY DEF Filled
<1>3. QED
  BY <1>1, <1>2 DEF RingOf

\* Putting a block into its own slot keeps a ring.
LEMMA PutKeepsRing ==
  ASSUME NEW Entries, NEW c, RingOf(c, Entries),
         NEW seq \in SeqNums, NEW b \in Entries \cup {None},
         b # None => /\ b.seq = seq
                     /\ \A p \in b.got : p.seq = seq
  PROVE  RingOf([c EXCEPT ![Slot(seq)] = b], Entries)
<1> DEFINE d == [c EXCEPT ![Slot(seq)] = b]
<1>1. d \in [Slots -> Entries \cup {None}]
  BY DEF RingOf
<1>2. ASSUME NEW i \in Filled(d)
      PROVE  /\ Slot(d[i].seq) = i
             /\ \A p \in d[i].got : p.seq = d[i].seq
  <2>1. CASE i = Slot(seq)
    <3>1. d[i] = b /\ b # None
      BY <1>2, <2>1, SlotInRing DEF RingOf, Filled
    <3>2. QED
      BY <3>1, <2>1
  <2>2. CASE i # Slot(seq)
    <3>1. d[i] = c[i] /\ i \in Filled(c)
      BY <1>2, <2>2 DEF RingOf, Filled
    <3>2. QED
      BY <3>1 DEF RingOf
  <2>3. QED
    BY <2>1, <2>2
<1>3. QED
  BY <1>1, <1>2 DEF RingOf

\* drain_completed leaves a ring of decoded blocks.
LEMMA DrainIsRing ==
  ASSUME NEW r, IsRing(r)
  PROVE  IsRing(drain_completed(r))
<1> DEFINE taken == DrainedSlots(r.completed, r.next)
           k     == Cardinality(taken)
           d     == drain_completed(r)
<1>1. k \in Nat
  <2>1. taken \subseteq Slots
    BY DEF DrainedSlots
  <2>2. IsFiniteSet(Slots)
    BY FS_Interval, RingAssumption DEF Slots
  <2>3. QED
    BY <2>1, <2>2, FS_Subset, FS_CardinalityType
<1>2. /\ d.next = (r.next + k) % SeqMod
      /\ d.completed = [i \in Slots |-> IF i \in taken THEN None ELSE r.completed[i]]
      /\ d = [next |-> d.next, completed |-> d.completed, out |-> d.out,
              fresh |-> d.fresh]
  BY DEF drain_completed
<1> HIDE DEF taken, k, d
<1>3. d.next \in SeqNums
  <2>1. r.next + k \in Int
    BY <1>1 DEF IsRing, SeqNums
  <2>2. QED
    BY <1>2, <2>1, ModRange, RingAssumption DEF SeqNums
<1>4. RingOf(d.completed, CompletedBlock)
  BY <1>2, EmptyKeepsRing DEF IsRing
<1>5. IsRing(d)
  BY <1>2, <1>3, <1>4 DEF IsRing
<1>6. QED
  BY <1>5 DEF d

\* So does the head-of-line check.
LEMMA HolIsRing ==
  ASSUME NEW n \in SeqNums, RingOf(completed, CompletedBlock)
  PROVE  IsRing(AfterHolCheck(n))
<1> DEFINE from(m) == [next |-> m, completed |-> completed, out |-> <<>>, fresh |-> FALSE]
<1>1. \A m \in SeqNums : IsRing(from(m))
  BY DEF IsRing
<1>2. AfterHolCheck(n) = drain_completed(from(Succ(n))) \/ AfterHolCheck(n) = from(n)
  BY DEF AfterHolCheck
<1> HIDE DEF from
<1>3. QED
  BY <1>1, <1>2, SuccIsSeqNum, DrainIsRing

\* So does making room for another block.
LEMMA EvictIsRing ==
  ASSUME NEW r, IsRing(r), NEW seq \in SeqNums
  PROVE  IsRing(Evict(seq, r))
<1> DEFINE e == [r EXCEPT !.completed[Slot(seq)] = None]
<1>1. /\ e = [next |-> r.next, completed |-> e.completed, out |-> r.out,
              fresh |-> r.fresh]
      /\ e.completed = [r.completed EXCEPT ![Slot(seq)] = None]
  BY DEF IsRing
<1>2. RingOf(e.completed, CompletedBlock)
  BY <1>1, PutKeepsRing DEF IsRing
<1>3. IsRing(e)
  <2>1. e.next = r.next /\ e.out = r.out /\ e.fresh = r.fresh
    BY <1>1
  <2>2. QED
    BY <1>1, <1>2, <2>1 DEF IsRing
<1>4. Evict(seq, r) = e \/ Evict(seq, r) = r
  BY DEF Evict
<1> HIDE DEF e
<1>5. QED
  BY <1>3, <1>4

\* So does storing a decoded block, and handing it on.
LEMMA CompleteIsRing ==
  ASSUME NEW r, IsRing(r), NEW seq \in SeqNums, NEW b, IsBlock(b, seq)
  PROVE  IsRing(Complete(b, r))
<1> DEFINE c == [seq |-> b.seq, got |-> b.got]
           s == [r EXCEPT !.completed[Slot(b.seq)] = c]
<1>1. /\ s = [next |-> r.next, completed |-> s.completed, out |-> r.out,
              fresh |-> r.fresh]
      /\ s.completed = [r.completed EXCEPT ![Slot(b.seq)] = c]
  BY DEF IsRing
<1>2. c \in CompletedBlock /\ c.seq = seq /\ c.got = b.got
  BY DEF IsBlock, PartialBlock, CompletedBlock
<1>3. RingOf(s.completed, CompletedBlock)
  <2>1. b.seq = seq /\ \A p \in b.got : p.seq = seq
    BY DEF IsBlock
  <2> HIDE DEF c
  <2>2. RingOf([r.completed EXCEPT ![Slot(seq)] = c], CompletedBlock)
    BY <1>2, <2>1, PutKeepsRing DEF IsRing
  <2>3. QED
    BY <1>1, <2>1, <2>2
<1>4. IsRing(s)
  <2>1. s.next = r.next /\ s.out = r.out /\ s.fresh = r.fresh
    BY <1>1
  <2>2. QED
    BY <1>1, <1>3, <2>1 DEF IsRing
<1>5. Complete(b, r) = drain_completed(s) \/ Complete(b, r) = s
  BY DEF Complete
<1> HIDE DEF s
<1>6. QED
  BY <1>4, <1>5, DrainIsRing

-----------------------------------------------------------------------------
\* A block has finitely many shards.
LEMMA ShardsFinite == IsFiniteSet(Shards)
  BY FS_Interval, RingAssumption DEF Shards

\* The partial block a shard joins holds shards of the shard's block only.
LEMMA ExistingIsBlock ==
  ASSUME RingInv, NEW seq \in SeqNums
  PROVE  IsBlock(Existing(seq), seq)
<1> DEFINE new == [seq |-> seq, got |-> {}, received |-> 0]
           old == blocks[Slot(seq)]
<1>1. IsBlock(new, seq)
  <2>1. Indices(new) = {}
    BY DEF Indices
  <2>2. Cardinality({}) = 0
    BY FS_EmptySet
  <2>3. new \in PartialBlock
    BY DEF PartialBlock
  <2>4. QED
    BY <2>1, <2>2, <2>3 DEF IsBlock
<1>2. ASSUME old # None, old.seq = seq
      PROVE  IsBlock(old, seq)
  <2>1. Slot(seq) \in Filled(blocks)
    BY <1>2, SlotInRing DEF Filled
  <2>2. QED
    BY <1>2, <2>1 DEF IsBlock, RingInv, RingOf, Filled, CountsAreRight
<1>3. Existing(seq) = new \/ (Existing(seq) = old /\ old # None /\ old.seq = seq)
  BY DEF Existing
<1> HIDE DEF new, old
<1>4. QED
  BY <1>1, <1>2, <1>3

\* Storing a shard keeps the counter equal to the number of distinct shards.
LEMMA WithShardIsBlock ==
  ASSUME NEW seq \in SeqNums, NEW b, IsBlock(b, seq),
         NEW p \in Packets, p.seq = seq
  PROVE  IsBlock(WithShard(b, p), seq)
<1> DEFINE dup == \E q \in b.got : q.idx = p.idx
           got == {q \in b.got : q.idx # p.idx} \cup {p}
           w   == WithShard(b, p)
<1>1. b \in PartialBlock /\ b.seq = seq /\ b.got \subseteq Packets /\ b.received \in Nat
  BY DEF IsBlock, PartialBlock
<1>2. w = [seq |-> seq, got |-> got, received |-> IF dup THEN b.received ELSE b.received + 1]
  BY <1>1 DEF WithShard
<1>3. got \subseteq Packets
  BY <1>1
<1>4. w \in PartialBlock
  BY <1>1, <1>2, <1>3 DEF PartialBlock
<1>5. \A q \in got : q.seq = seq
  BY DEF IsBlock
<1>6. Indices(w) = Indices(b) \cup {p.idx}
  BY <1>2 DEF Indices
<1>7. IsFiniteSet(Indices(b))
  <2>1. Indices(b) \subseteq Shards
    BY <1>1 DEF Indices, Packets
  <2>2. QED
    BY <2>1, ShardsFinite, FS_Subset
<1>8. w.received = Cardinality(Indices(w))
  <2>1. CASE dup
    <3>1. Indices(w) = Indices(b)
      BY <1>6, <2>1 DEF Indices
    <3>2. QED
      BY <1>2, <2>1, <3>1 DEF IsBlock
  <2>2. CASE ~dup
    <3>1. p.idx \notin Indices(b)
      BY <2>2 DEF Indices
    <3>2. Cardinality(Indices(w)) = Cardinality(Indices(b)) + 1
      BY <1>6, <1>7, <3>1, FS_AddElement
    <3>3. QED
      BY <1>2, <2>2, <3>2 DEF IsBlock
  <2>3. QED
    BY <2>1, <2>2
<1>9. w.seq = seq /\ w.got = got
  BY <1>2
<1> HIDE DEF w, got
<1>10. IsBlock(w, seq)
  BY <1>4, <1>5, <1>8, <1>9 DEF IsBlock
<1>11. QED
  BY <1>10 DEF w

\* The counters stay right when a slot gets a block that still lacks shards, or
\* is emptied.
LEMMA PutKeepsCounts ==
  ASSUME RingInv, NEW seq \in SeqNums, NEW b,
         b = None \/ (IsBlock(b, seq) /\ b.received < DataShards),
         PutPartial(seq, b)
  PROVE  RingOf(blocks, PartialBlock)' /\ CountsAreRight'
<1>1. blocks' = [blocks EXCEPT ![Slot(seq)] = b]
  BY DEF PutPartial
<1>2. RingOf(blocks', PartialBlock)
  <2>1. b \in PartialBlock \cup {None}
    BY DEF IsBlock
  <2>2. b # None => b.seq = seq /\ \A p \in b.got : p.seq = seq
    BY DEF IsBlock
  <2>3. QED
    BY <1>1, <2>1, <2>2, PutKeepsRing DEF RingInv
<1>3. ASSUME NEW i \in Slots, blocks'[i] # None
      PROVE  /\ blocks'[i].received = Cardinality(Indices(blocks'[i]))
             /\ blocks'[i].received < DataShards
  <2>1. CASE i = Slot(seq)
    <3>1. blocks'[i] = b
      BY <1>1, <2>1 DEF RingInv, RingOf
    <3>2. QED
      BY <1>3, <3>1 DEF IsBlock
  <2>2. CASE i # Slot(seq)
    <3>1. blocks'[i] = blocks[i]
      BY <1>1, <2>2 DEF RingInv, RingOf
    <3>2. QED
      BY <1>3, <3>1 DEF RingInv, CountsAreRight, Filled
  <2>3. QED
    BY <2>1, <2>2
<1>4. RingOf(blocks, PartialBlock)'
  BY <1>2 DEF RingOf, Filled
<1>5. CountsAreRight'
  BY <1>3 DEF CountsAreRight, Filled, Indices
<1>6. QED
  BY <1>4, <1>5

-----------------------------------------------------------------------------
\* RingInv is inductive: it holds at the start ...
LEMMA InitRing == Init => RingInv
<1> SUFFICES ASSUME Init PROVE RingInv
  OBVIOUS
<1>1. Filled(blocks) = {} /\ Filled(completed) = {}
  BY DEF Init, Filled
<1>2. chan \in Seq(Packets)
  BY DEF Init
<1>3. fec_block_seq \in SeqNums
  BY RingAssumption DEF Init, SeqNums
<1>4. QED
  BY <1>1, <1>2, <1>3 DEF Init, RingInv, RingOf, CountsAreRight

\* What a step that leaves the rings alone has to preserve.
LEMMA RingsUnchanged ==
  ASSUME RingInv, UNCHANGED <<blocks, completed, next_block>>,
         (net \subseteq Packets)', (sent \in Nat /\ sent >= 1)',
         (fec_block_seq \in SeqNums)',
         (chan \in Seq(Packets))'
  PROVE  RingInv'
  BY DEF RingInv, RingOf, Filled, CountsAreRight, Indices

\* The two rings after a packet was handled.
LEMMA HandleKeepsRing ==
  ASSUME RingInv, NEW p \in Packets, NEW r, IsRing(r),
         Handle(p, p.seq, r)
  PROVE  /\ (next_block \in SeqNums \cup {None})'
         /\ RingOf(blocks, PartialBlock)'
         /\ RingOf(completed, CompletedBlock)'
         /\ CountsAreRight'
<1> DEFINE seq == p.seq
           b   == WithShard(Existing(seq), p)
           e   == Evict(seq, r)
<1>1. seq \in SeqNums
  BY PacketSeqNum
<1>2. IsBlock(b, seq)
  BY <1>1, ExistingIsBlock, WithShardIsBlock
<1>3. IsRing(e)
  BY <1>1, EvictIsRing
<1>4. ASSUME NEW s, IsRing(s), Commit(s)
      PROVE  next_block' \in SeqNums /\ RingOf(completed, CompletedBlock)'
  BY <1>4 DEF Commit, MoveHead, IsRing, RingOf, Filled
<1>5. CASE /\ Commit(r)
           /\ UNCHANGED blocks
  <2>1. RingOf(blocks, PartialBlock)' /\ CountsAreRight'
    BY <1>5 DEF RingInv, RingOf, Filled, CountsAreRight, Indices
  <2>2. QED
    BY <1>4, <1>5, <2>1
<1>6. CASE /\ b.received < DataShards
           /\ PutPartial(seq, b)
           /\ Commit(e)
  BY <1>1, <1>2, <1>3, <1>4, <1>6, PutKeepsCounts
<1>7. CASE /\ PutPartial(seq, None)
           /\ Commit(e) \/ Commit(Complete(b, e))
  <2>1. IsRing(Complete(b, e))
    BY <1>1, <1>2, <1>3, CompleteIsRing
  <2>2. QED
    BY <1>1, <1>3, <1>4, <1>7, <2>1, PutKeepsCounts
<1>8. QED
  BY <1>5, <1>6, <1>7 DEF Handle

\* ... and every step keeps it.
LEMMA NextRing == RingInv /\ [Next]_vars => RingInv'
<1> SUFFICES ASSUME RingInv, [Next]_vars PROVE RingInv'
  OBVIOUS
<1> USE DEF env, hist
<1>0. net \subseteq Packets /\ sent \in Nat /\ sent >= 1 /\ chan \in Seq(Packets)
      /\ fec_block_seq \in SeqNums
  BY DEF RingInv
<1>1. CASE SendBlock
  <2>1. (net \subseteq Packets)'
    <3>1. sent \in Blocks
      BY <1>0, <1>1, RingAssumption DEF SendBlock, Blocks
    <3>2. QED
      BY <1>0, <1>1, <3>1 DEF SendBlock, Packets
  <2>2. (sent \in Nat /\ sent >= 1)' /\ (fec_block_seq \in SeqNums)'
    BY <1>0, <1>1, SuccIsSeqNum DEF SendBlock
  <2>3. QED
    BY <1>0, <1>1, <2>1, <2>2, RingsUnchanged DEF SendBlock
<1>7. CASE RestartCamera
  <2>1. (fec_block_seq \in SeqNums)'
    BY <1>7, RingAssumption DEF RestartCamera, SeqNums
  <2>2. QED
    BY <1>0, <1>7, <2>1, RingsUnchanged DEF RestartCamera
<1>2. ASSUME NEW p \in net, Deliver(p) PROVE RingInv'
  <2>1. (chan \in Seq(Packets))'
    BY <1>0, <1>2, AppendProperties DEF Deliver
  <2>2. (net \subseteq Packets)'
    BY <1>0, <1>2 DEF Deliver
  <2>3. QED
    BY <1>0, <1>2, <2>1, <2>2, RingsUnchanged DEF Deliver
<1>3. CASE HolTimerExpires \/ DecodeTimerExpires \/ UNCHANGED vars
  BY <1>0, <1>3, RingsUnchanged DEF HolTimerExpires, DecodeTimerExpires, vars
<1>4. CASE Receive
  <2> DEFINE p   == Head(chan)
             seq == p.seq
             n   == IF next_block = None THEN seq ELSE next_block
  <2>1. p \in Packets /\ (chan \in Seq(Packets))'
    BY <1>0, <1>4, HeadTailProperties DEF Receive
  <2>2. seq \in SeqNums
    BY <2>1, PacketSeqNum
  <2>3. n \in SeqNums
    BY <2>2 DEF RingInv
  <2>4. IsRing(AfterHolCheck(n))
    BY <2>3, HolIsRing DEF RingInv
  <2>5. Handle(p, seq, AfterHolCheck(n))
    BY <1>4 DEF Receive
  <2>6. /\ (next_block \in SeqNums \cup {None})'
        /\ RingOf(blocks, PartialBlock)'
        /\ RingOf(completed, CompletedBlock)'
        /\ CountsAreRight'
    BY <2>1, <2>4, <2>5, HandleKeepsRing
  <2>7. (net \subseteq Packets)' /\ (sent \in Nat)' /\ (sent >= 1)'
        /\ (fec_block_seq \in SeqNums)'
    BY <1>0, <1>4 DEF Receive
  <2>8. QED
    BY <2>1, <2>6, <2>7 DEF RingInv
<1>5. CASE IdleVisit
  <2>1. (net \subseteq Packets)' /\ (sent \in Nat)' /\ (sent >= 1)'
        /\ (fec_block_seq \in SeqNums)'
        /\ (chan \in Seq(Packets))'
    BY <1>0, <1>5 DEF IdleVisit, MoveHead
  <2>2. RingOf(completed, CompletedBlock)'
    BY <1>5 DEF IdleVisit, MoveHead, RingInv, RingOf, Filled
  <2>3. CASE UNCHANGED <<blocks, next_block>>
    <3>1. completed' = completed
      BY <1>5 DEF IdleVisit, MoveHead
    <3>2. QED
      BY <2>1, <2>3, <3>1, RingsUnchanged
  <2>4. CASE /\ next_block # None
             /\ PutPartial(next_block, None)
             /\ next_block' = Succ(next_block)
    <3>1. next_block \in SeqNums
      BY <2>4 DEF RingInv
    <3>2. RingOf(blocks, PartialBlock)' /\ CountsAreRight'
      BY <2>4, <3>1, PutKeepsCounts
    <3>3. next_block' \in SeqNums
      BY <2>4, <3>1, SuccIsSeqNum
    <3>4. QED
      BY <2>1, <2>2, <3>2, <3>3 DEF RingInv
  <2>5. QED
    BY <1>5, <2>3, <2>4 DEF IdleVisit, MoveHead, PutPartial
<1>6. QED
  BY <1>1, <1>2, <1>3, <1>4, <1>5, <1>7 DEF Next, Sender, Timers, Receiver

\* Whatever the network loses, reorders or duplicates, and wherever the sequence
\* numbers start or wrap, no block of the ring mixes shards of two blocks.
THEOREM NotMixedTheorem == Spec => []BlocksAreNotMixed
<1>1. RingInv => BlocksAreNotMixed
  BY DEF RingInv, RingOf, BlocksAreNotMixed
<1>2. QED
  BY InitRing, NextRing, <1>1, PTL DEF Spec

\* A block is declared complete only when it can be reconstructed: the counter
\* always equals the number of distinct shards, whatever is duplicated.
THEOREM DecodableTheorem == Spec => []CompleteIsDecodable
<1>1. RingInv => CompleteIsDecodable
  <2> SUFFICES ASSUME RingInv, NEW j \in DOMAIN chan
               PROVE  LET b == WithShard(Existing(chan[j].seq), chan[j])
                      IN  b.received >= DataShards => CanReconstruct(b)
    BY DEF CompleteIsDecodable
  <2> DEFINE p == chan[j]
             b == WithShard(Existing(p.seq), p)
  <2>1. p \in Packets
    BY DEF RingInv
  <2>2. p.seq \in SeqNums
    BY <2>1, PacketSeqNum
  <2>3. IsBlock(b, p.seq)
    BY <2>1, <2>2, ExistingIsBlock, WithShardIsBlock
  <2>4. QED
    BY <2>3 DEF IsBlock, CanReconstruct
<1>2. QED
  BY InitRing, NextRing, <1>1, PTL DEF Spec

\* The two together: what the decoder is given was sent as one block.
THEOREM RingTheorem == Spec => []RingIsSound
  BY NotMixedTheorem, DecodableTheorem, PTL DEF RingIsSound

-----------------------------------------------------------------------------
\* The packets of blocks that were sent: until a restart they bear the number of
\* their block.
SentPackets ==
  {p \in Packets : /\ p.blk < sent
                   /\ restart = None => p.seq = At(p.blk)}

\* No block of the ring is empty, and their shards were sent.
HoldsSent(ring) ==
  \A i \in Filled(ring) :
    /\ ring[i].got # {}
    /\ ring[i].got \subseteq SentPackets

\* The blocks of a ring of decoded blocks.
Held(c) == {BlkOf(c[i]) : i \in Filled(c)}

\* Nothing was received yet.
Untouched ==
  /\ Filled(blocks) = {} /\ Filled(completed) = {}
  /\ out = <<>> /\ decoded = {} /\ ~strayed
  /\ hol = None

\* How far the camera's count and the bounded counters have come.
CountInv ==
  /\ sent <= LastBlock + 2
  /\ restart = None => sent <= LastBlock + 1
  /\ "restart" \notin network => restart = None
  /\ waits \in 0..MaxWaits
  /\ hol_expired \in BOOLEAN
  /\ hol_expired => hol # None /\ waits > 0
  /\ "stalls" \notin network => waits = 0

\* Only what was sent is received, decoded and handed on.
SentInv ==
  /\ net \subseteq SentPackets
  /\ chan \in Seq(SentPackets)
  /\ HoldsSent(blocks)
  /\ HoldsSent(completed)
  /\ out \in Seq(1..(sent - 1))
  /\ decoded \subseteq 1..(sent - 1)
  /\ next_block = None => Untouched

BaseInv == RingInv /\ CountInv /\ SentInv

-----------------------------------------------------------------------------
\* The bounds are numbers, and less than a round of sequence numbers.
LEMMA Bounds ==
  /\ LastBlock \in Nat /\ MaxWaits \in Nat
  /\ LastBlock + MaxWaits <= SeqMod
  /\ DataShards \in Nat \ {0} /\ TotalShards \in Nat
<1>1. SeqMod \div 2 <= SeqMod /\ SeqMod \div 2 \in Nat
  BY Moduli
<1>2. QED
  BY <1>1, RingAssumption

\* A decoded block holds shards of a block that was sent, and until a restart of
\* that block only, in its slot.
LEMMA BlockIsSent ==
  ASSUME Counting, NEW c, RingOf(c, CompletedBlock), HoldsSent(c), NEW i \in Filled(c)
  PROVE  /\ BlkOf(c[i]) \in 1..(sent - 1)
         /\ restart = None /\ sent <= LastBlock + 1 =>
              /\ c[i].seq = At(BlkOf(c[i]))
              /\ i = Slot(At(BlkOf(c[i])))
              /\ \A p \in c[i].got : p.blk = BlkOf(c[i])
<1> DEFINE q == CHOOSE p \in c[i].got : TRUE
<1>1. c[i] \in CompletedBlock /\ c[i].got # {} /\ Slot(c[i].seq) = i
  BY DEF RingOf, HoldsSent, Filled
<1>2. \A p \in c[i].got : p \in SentPackets /\ p.seq = c[i].seq
  BY <1>1 DEF RingOf, HoldsSent, CompletedBlock
<1>3. q \in c[i].got
  BY <1>1
<1>4. BlkOf(c[i]) = q.blk
  BY DEF BlkOf
<1> HIDE DEF q
<1>5. \A p \in c[i].got : p.blk \in 1..(sent - 1)
  BY <1>2, RingAssumption DEF SentPackets, Packets, Blocks, Counting
<1>6. ASSUME restart = None, sent <= LastBlock + 1
      PROVE  /\ c[i].seq = At(q.blk)
             /\ \A p \in c[i].got : p.blk = q.blk
  <2>1. c[i].seq = At(q.blk)
    BY <1>2, <1>3, <1>6 DEF SentPackets
  <2>2. ASSUME NEW p \in c[i].got
        PROVE  p.blk = q.blk
    <3>1. At(p.blk) = At(q.blk)
      BY <1>2, <1>6, <2>1 DEF SentPackets
    <3>2. p.blk \in 1..(sent - 1) /\ q.blk \in 1..(sent - 1)
      BY <1>3, <1>5
    <3>3. \A x, y \in 1..(sent - 1) : x \in Int /\ y \in Int /\ x - y < SeqMod /\ y - x < SeqMod
      <4>1. sent - 1 <= SeqMod \div 2 /\ SeqMod \div 2 <= SeqMod /\ SeqMod \div 2 \in Nat
        BY <1>6, RingAssumption DEF Counting
      <4>2. QED
        BY <4>1, Moduli DEF Counting
    <3>4. QED
      BY <3>1, <3>2, <3>3, AtSame
  <2>3. QED
    BY <2>1, <2>2
<1>7. q.blk \in 1..(sent - 1)
  BY <1>3, <1>5
<1>8. QED
  BY <1>1, <1>4, <1>6, <1>7

\* The record of a packet's effect holds and hands on what was sent.
IsSentRing(r) ==
  /\ IsRing(r)
  /\ HoldsSent(r.completed)
  /\ r.out \in Seq(1..(sent - 1))

\* Emptying slots keeps what the others hold.
LEMMA EmptyKeepsSent ==
  ASSUME NEW c, HoldsSent(c), NEW d, \A i \in Filled(d) : i \in Filled(c) /\ d[i] = c[i]
  PROVE  HoldsSent(d)
  BY DEF HoldsSent

\* drain_completed takes a run of k decoded blocks from the head on, as many as there are
\* without a gap, and hands them on in that order.
LEMMA DrainEffect ==
  ASSUME Counting, NEW r, IsSentRing(r)
  PROVE  LET c == r.completed
             d == drain_completed(r)
         IN  /\ IsSentRing(d)
             /\ d.fresh = TRUE
             /\ \E k \in 0..RingSize :
                  /\ d.next = (r.next + k) % SeqMod
                  /\ d.out = r.out \o [j \in 1..k |-> BlkOf(c[Slot(r.next + (j - 1))])]
                  /\ d.completed = [i \in Slots |->
                       IF i \in {Slot(r.next + j) : j \in 0..(k - 1)} THEN None ELSE c[i]]
                  /\ \A j \in 0..(k - 1) : Slot(r.next + j) \in Filled(c)
                  /\ k < RingSize => c[Slot(r.next + k)] = None
<1> DEFINE c == r.completed
           n == r.next
           d == drain_completed(r)
<1>1. n \in SeqNums /\ n \in Int
  BY DEF IsSentRing, IsRing, SeqNums
<1>2. PICK k \in 0..RingSize :
        /\ Cardinality(DrainedSlots(c, n)) = k
        /\ DrainedSlots(c, n) = {Slot(n + j) : j \in 0..(k - 1)}
        /\ \A j \in 0..(k - 1) : c[Slot(n + j)] # None
        /\ k < RingSize => c[Slot(n + k)] = None
  BY <1>1, DrainedRun
<1>3. \A j \in 0..(k - 1) : Slot(n + j) \in Filled(c)
  <2>1. ASSUME NEW j \in 0..(k - 1)
        PROVE  Slot(n + j) \in Slots
    <3>1. j \in 0..(RingSize - 1)
      BY <1>2, Moduli
    <3>2. QED
      BY <1>1, <3>1, SlotSteps
  <2>2. QED
    BY <1>2, <2>1 DEF Filled
<1>4. k \in Nat /\ \A j \in 1..k : n + j - 1 = n + (j - 1) /\ j - 1 \in 0..(k - 1)
  BY <1>1, <1>2, Moduli
<1> DEFINE g == [j \in 1..k |-> BlkOf(c[Slot(n + j - 1)])]
           h == [j \in 1..k |-> BlkOf(c[Slot(n + (j - 1))])]
<1>5. /\ d.next = (n + k) % SeqMod
      /\ d.completed = [i \in Slots |-> IF i \in DrainedSlots(c, n) THEN None ELSE c[i]]
      /\ d.out = r.out \o g
      /\ d.fresh = TRUE
  BY <1>2 DEF drain_completed
<1>6. g = h
  BY <1>4
<1>7. h \in Seq(1..(sent - 1))
  <2>1. \A i \in Filled(c) : BlkOf(c[i]) \in 1..(sent - 1)
    BY BlockIsSent DEF IsSentRing, IsRing
  <2>2. h \in [1..k -> 1..(sent - 1)]
    BY <1>3, <1>4, <2>1
  <2> HIDE DEF h
  <2>3. QED
    BY <1>4, <2>2, SeqDef
<1>8. r.out \o h \in Seq(1..(sent - 1))
  <2> HIDE DEF h
  <2>1. QED
    BY <1>7, ConcatProperties DEF IsSentRing
<1>9. HoldsSent(d.completed)
  <2>1. \A i \in Filled(d.completed) : i \in Filled(c) /\ d.completed[i] = c[i]
    BY <1>5 DEF Filled
  <2>2. HoldsSent(c)
    BY DEF IsSentRing
  <2> HIDE DEF d, c
  <2>3. QED
    BY <2>1, <2>2, EmptyKeepsSent
<1>10. IsRing(d)
  BY DrainIsRing DEF IsSentRing
<1> HIDE DEF c, n, d, g, h
<1>11. d.out = r.out \o h
  BY <1>5, <1>6
<1>12. IsSentRing(d)
  BY <1>8, <1>9, <1>10, <1>11 DEF IsSentRing
<1>13. d.completed = [i \in Slots |-> IF i \in {Slot(n + j) : j \in 0..(k - 1)} THEN None ELSE c[i]]
  BY <1>2, <1>5
<1>14. QED
  BY <1>2, <1>3, <1>5, <1>11, <1>12, <1>13 DEF c, n, d, h

-----------------------------------------------------------------------------
\* The next number is the number of the next block.
LEMMA AtNext ==
  ASSUME Counting, NEW n \in SeqNums
  PROVE  \A b \in Int : n = At(b) => Succ(n) = At(b + 1)
  BY AtPlus DEF Succ

\* The head-of-line check leaves blocks that were sent.
LEMMA HolIsSent ==
  ASSUME RingInv, HoldsSent(completed), NEW n \in SeqNums
  PROVE  IsSentRing(AfterHolCheck(n))
<1> DEFINE from(m) == [next |-> m, completed |-> completed, out |-> <<>>, fresh |-> FALSE]
<1>1. Counting
  BY DEF RingInv, Counting
<1>2. ASSUME NEW m \in SeqNums
      PROVE  IsSentRing(from(m))
  <2>1. IsRing(from(m))
    BY DEF RingInv, IsRing
  <2>2. from(m).completed = completed /\ from(m).out = <<>>
    OBVIOUS
  <2> HIDE DEF from
  <2>3. QED
    BY <2>1, <2>2 DEF IsSentRing
<1>3. AfterHolCheck(n) = drain_completed(from(Succ(n))) \/ AfterHolCheck(n) = from(n)
  BY DEF AfterHolCheck
<1> HIDE DEF from
<1>4. QED
  BY <1>1, <1>2, <1>3, SuccIsSeqNum, DrainEffect

\* Making room for another block does not touch the others.
LEMMA EvictIsSent ==
  ASSUME NEW r, IsSentRing(r), NEW seq \in SeqNums
  PROVE  IsSentRing(Evict(seq, r)) /\ Evict(seq, r).next = r.next
         /\ Evict(seq, r).out = r.out
<1> DEFINE e == Evict(seq, r)
<1>1. IsRing(e)
  BY EvictIsRing DEF IsSentRing
<1>2. r = [next |-> r.next, completed |-> r.completed, out |-> r.out, fresh |-> r.fresh]
  BY DEF IsSentRing, IsRing
<1>3. /\ e.out = r.out /\ e.next = r.next
      /\ e.completed = r.completed \/ e.completed = [r.completed EXCEPT ![Slot(seq)] = None]
  BY <1>2 DEF Evict
<1>4. \A i \in Filled(e.completed) : i \in Filled(r.completed) /\ e.completed[i] = r.completed[i]
  <2>1. r.completed \in [Slots -> CompletedBlock \cup {None}] /\ Slot(seq) \in Slots
    BY SlotInRing DEF IsSentRing, IsRing, RingOf
  <2> HIDE DEF e
  <2>2. QED
    BY <1>3, <2>1 DEF Filled
<1> HIDE DEF e
<1>5. HoldsSent(e.completed)
  BY <1>4, EmptyKeepsSent DEF IsSentRing
<1>6. IsSentRing(e)
  BY <1>1, <1>3, <1>5 DEF IsSentRing
<1>7. QED
  BY <1>3, <1>6 DEF e

\* A partial block of sequence number seq holds shards that were sent.
IsSentBlock(b, seq) ==
  /\ IsBlock(b, seq)
  /\ b.got # {}
  /\ b.got \subseteq SentPackets

\* The partial block as stored, with the shard.
JoinedBlock(p) == WithShard(Existing(p.seq), p)

\* The block a shard joins holds that shard, and what its slot held of the same block.
LEMMA JoinedIsSent ==
  ASSUME RingInv, HoldsSent(blocks), NEW p \in SentPackets
  PROVE  /\ IsSentBlock(JoinedBlock(p), p.seq)
         /\ JoinedBlock(p).got = {q \in Existing(p.seq).got : q.idx # p.idx} \cup {p}
         /\ \A q \in Existing(p.seq).got :
              \E i \in Filled(blocks) : i = Slot(p.seq) /\ blocks[i].seq = p.seq /\ q \in blocks[i].got
<1> DEFINE x == Existing(p.seq)
           w == JoinedBlock(p)
<1>1. p \in Packets /\ p.seq \in SeqNums
  BY PacketSeqNum DEF SentPackets
<1>2. IsBlock(w, p.seq)
  BY <1>1, ExistingIsBlock, WithShardIsBlock DEF JoinedBlock
<1>3. w.got = {q \in x.got : q.idx # p.idx} \cup {p}
  BY DEF JoinedBlock, WithShard
<1>4. \A q \in x.got : \E i \in Filled(blocks) :
        i = Slot(p.seq) /\ blocks[i].seq = p.seq /\ q \in blocks[i].got
  <2>1. \/ x = blocks[Slot(p.seq)] /\ blocks[Slot(p.seq)] # None /\ blocks[Slot(p.seq)].seq = p.seq
        \/ x.got = {}
    BY DEF Existing
  <2> HIDE DEF x
  <2>2. QED
    BY <1>1, <2>1, SlotInRing DEF Filled
<1> HIDE DEF x, w
<1>5. w.got # {} /\ w.got \subseteq SentPackets
  BY <1>3, <1>4 DEF HoldsSent
<1>6. IsSentBlock(w, p.seq)
  BY <1>2, <1>5 DEF IsSentBlock
<1>7. QED
  BY <1>3, <1>4, <1>6 DEF x, w

\* The ring with the block put into its slot, before drain_completed.
Stored(b, r) == [r EXCEPT !.completed[Slot(b.seq)] = [seq |-> b.seq, got |-> b.got]]

\* A decoded block goes to the slot of its number, and is handed on if it is the head.
LEMMA StoredIsSent ==
  ASSUME NEW r, IsSentRing(r), NEW seq \in SeqNums, NEW b, IsSentBlock(b, seq)
  PROVE  /\ IsSentRing(Stored(b, r))
         /\ Stored(b, r).next = r.next
         /\ Stored(b, r).out = r.out
         /\ Stored(b, r).completed = [r.completed EXCEPT ![Slot(seq)] = [seq |-> seq, got |-> b.got]]
         /\ Complete(b, r) = IF seq = r.next THEN drain_completed(Stored(b, r)) ELSE Stored(b, r)
<1> DEFINE s == Stored(b, r)
           c == [seq |-> seq, got |-> b.got]
           d == [r.completed EXCEPT ![Slot(seq)] = c]
<1>1. r = [next |-> r.next, completed |-> r.completed, out |-> r.out, fresh |-> r.fresh]
  BY DEF IsSentRing, IsRing
<1>2. b.seq = seq /\ b \in PartialBlock
  BY DEF IsSentBlock, IsBlock
<1>3. /\ s.next = r.next /\ s.out = r.out /\ s.completed = d
      /\ s = [next |-> s.next, completed |-> s.completed, out |-> s.out, fresh |-> s.fresh]
  BY <1>1, <1>2 DEF Stored
<1>4. c \in CompletedBlock /\ c.seq = seq /\ c.got = b.got
  BY <1>2 DEF PartialBlock, CompletedBlock
<1> HIDE DEF c
<1>5. RingOf(d, CompletedBlock)
  <2>1. \A p \in c.got : p.seq = seq
    BY <1>4 DEF IsSentBlock, IsBlock
  <2>2. QED
    BY <1>4, <2>1, PutKeepsRing DEF IsSentRing, IsRing
<1>6. HoldsSent(d)
  <2>1. ASSUME NEW i \in Filled(d)
        PROVE  d[i].got # {} /\ d[i].got \subseteq SentPackets
    <3>1. CASE i = Slot(seq)
      <4>1. d[i] = c
        BY <2>1, <3>1, SlotInRing DEF IsSentRing, IsRing, RingOf
      <4>2. QED
        BY <1>4, <4>1 DEF IsSentBlock
    <3>2. CASE i # Slot(seq)
      <4>1. i \in Filled(r.completed) /\ d[i] = r.completed[i]
        BY <2>1, <3>2 DEF Filled, IsSentRing, IsRing, RingOf
      <4>2. QED
        BY <4>1 DEF IsSentRing, HoldsSent
    <3>3. QED
      BY <3>1, <3>2
  <2> HIDE DEF d
  <2>2. QED
    BY <2>1 DEF HoldsSent
<1>7. Complete(b, r) = IF seq = r.next THEN drain_completed(s) ELSE s
  BY <1>2 DEF Complete, Stored
<1> HIDE DEF s, d
<1>8. IsSentRing(s)
  BY <1>3, <1>5, <1>6 DEF IsSentRing, IsRing
<1>9. QED
  BY <1>3, <1>7, <1>8 DEF s, d, c

\* What Receive does, the undecodable block left out: there is none.
Discards(p, r) ==
  /\ Discarded(p.seq, r)
  /\ Commit(r)
  /\ UNCHANGED <<blocks, decoded, strayed>>

Accepts(p, r) ==
  /\ ~Discarded(p.seq, r)
  /\ strayed' = (strayed \/ (/\ is_future_block(p.seq, r.next)
                             /\ Dist(p.seq, r.next) >= RingSize))

Joins(p, r) ==
  /\ JoinedBlock(p).received < DataShards
  /\ PutPartial(p.seq, JoinedBlock(p))
  /\ Commit(Evict(p.seq, r))
  /\ UNCHANGED decoded

Decodes(p, r) ==
  /\ CanReconstruct(JoinedBlock(p))
  /\ PutPartial(p.seq, None)
  /\ Commit(Complete(JoinedBlock(p), Evict(p.seq, r)))
  /\ decoded' = decoded \cup {p.blk}

\* The head that a packet finds.
HeadFor(p) == IF next_block = None THEN p.seq ELSE next_block

\* What Receive does with a packet: it is discarded, joins a partial block, or completes
\* one.
LEMMA ReceiveCases ==
  ASSUME RingInv, SentInv, Receive
  PROVE  LET p == Head(chan)
             n == HeadFor(p)
             r == AfterHolCheck(n)
         IN  /\ p \in SentPackets /\ p.seq \in SeqNums /\ n \in SeqNums
             /\ Tail(chan) \in Seq(SentPackets)
             /\ IsSentRing(r)
             /\ Discards(p, r) \/ (Accepts(p, r) /\ (Joins(p, r) \/ Decodes(p, r)))
             /\ hol' = HolTimer(n)
             /\ hol_expired' = (hol_expired /\ hol' # None)
             /\ chan' = Tail(chan)
             /\ UNCHANGED <<network, sent, fec_block_seq, restart, net, waits>>
<1> DEFINE p == Head(chan)
           n == HeadFor(p)
           r == AfterHolCheck(n)
<1>1. p \in SentPackets /\ p \in Packets /\ p.seq \in SeqNums /\ Tail(chan) \in Seq(SentPackets)
  <2>1. chan \in Seq(SentPackets) /\ chan # <<>>
    BY DEF Receive, SentInv
  <2>2. p \in SentPackets /\ Tail(chan) \in Seq(SentPackets)
    BY <2>1, HeadTailProperties
  <2>3. QED
    BY <2>2, PacketSeqNum DEF SentPackets
<1>2. n \in SeqNums
  BY <1>1 DEF RingInv, HeadFor
<1>3. IsSentRing(r)
  BY <1>2, HolIsSent DEF SentInv
<1>4. Handle(p, p.seq, r)
  BY DEF Receive, HeadFor
<1>5. IsBlock(JoinedBlock(p), p.seq)
  BY <1>1, ExistingIsBlock, WithShardIsBlock DEF JoinedBlock
<1>6. JoinedBlock(p).received >= DataShards => CanReconstruct(JoinedBlock(p))
  BY <1>5 DEF IsBlock, CanReconstruct
<1>7. /\ hol' = HolTimer(n)
      /\ hol_expired' = (hol_expired /\ hol' # None)
      /\ chan' = Tail(chan)
      /\ UNCHANGED <<network, sent, fec_block_seq, restart, net, waits>>
  BY DEF Receive, HeadFor, env
<1> HIDE DEF p, n, r
<1>8. Discards(p, r) \/ (Accepts(p, r) /\ (Joins(p, r) \/ Decodes(p, r)))
  BY <1>4, <1>6 DEF Handle, Discards, Accepts, Joins, Decodes, JoinedBlock
<1>9. QED
  BY <1>1, <1>2, <1>3, <1>7, <1>8 DEF p, n, r

-----------------------------------------------------------------------------
\* BaseInv is inductive: it holds at the start, and every step keeps it.
LEMMA InitBase == Init => BaseInv
<1> SUFFICES ASSUME Init PROVE BaseInv
  OBVIOUS
<1>1. RingInv
  BY InitRing
<1>2. CountInv
  <2>1. sent <= LastBlock + 2 /\ sent <= LastBlock + 1 /\ waits \in 0..MaxWaits
    BY Bounds DEF Init
  <2>2. restart = None /\ hol_expired = FALSE /\ waits = 0
    BY DEF Init
  <2>3. QED
    BY <2>1, <2>2 DEF CountInv
<1>3. Filled(blocks) = {} /\ Filled(completed) = {}
  BY DEF Init, Filled
<1>4. SentInv
  <2>1. HoldsSent(blocks) /\ HoldsSent(completed)
    BY <1>3 DEF HoldsSent
  <2>2. Untouched
    BY <1>3 DEF Init, Untouched
  <2>3. out \in Seq(1..(sent - 1)) /\ decoded = {} /\ net = {} /\ chan \in Seq(SentPackets)
    BY DEF Init
  <2>4. QED
    BY <2>1, <2>2, <2>3 DEF SentInv
<1>5. QED
  BY <1>1, <1>2, <1>4 DEF BaseInv

\* The number of a block stays the same when the camera counts on.
LEMMA AtStays ==
  ASSUME Counting, fec_block_seq' = Succ(fec_block_seq), sent' = sent + 1
  PROVE  /\ \A b \in Int : At(b)' = At(b)
         /\ At(sent) = fec_block_seq
<1>1. ASSUME NEW b \in Int
      PROVE  At(b)' = At(b)
  <2> DEFINE f == fec_block_seq + 1
             k == b - (sent + 1)
  <2>1. f \in Int /\ k \in Int /\ f + k = fec_block_seq + (b - sent)
    BY DEF Counting, SeqNums
  <2>2. At(b)' = ((f % SeqMod) + k) % SeqMod
    BY DEF At, Succ
  <2> HIDE DEF f, k
  <2>3. ((f % SeqMod) + k) % SeqMod = (f + k) % SeqMod
    BY <2>1, Moduli, ModAdd, Zenon
  <2>4. QED
    BY <2>1, <2>2, <2>3, Zenon DEF At
<1>2. At(sent) = fec_block_seq
  <2>1. fec_block_seq + (sent - sent) = fec_block_seq
    BY DEF Counting, SeqNums
  <2>2. fec_block_seq % SeqMod = fec_block_seq
    BY Moduli DEF Counting, SeqNums
  <2>3. QED
    BY <2>1, <2>2, Zenon DEF At
<1>3. QED
  BY <1>1, <1>2

\* What was sent stays sent, with every step of the camera.
LEMMA SentStays ==
  ASSUME Counting,
         \/ fec_block_seq' = Succ(fec_block_seq) /\ sent' = sent + 1 /\ restart' = restart
         \/ UNCHANGED <<fec_block_seq, sent, restart>>
         \/ sent' = sent /\ restart' # None
  PROVE  SentPackets \subseteq SentPackets'
<1> SUFFICES ASSUME NEW p \in SentPackets
             PROVE  p \in SentPackets'
  OBVIOUS
<1>1. p \in Packets /\ p.blk \in Int /\ p.blk < sent /\ (restart = None => p.seq = At(p.blk))
  BY DEF SentPackets, Packets, Blocks
<1>2. CASE fec_block_seq' = Succ(fec_block_seq) /\ sent' = sent + 1 /\ restart' = restart
  <2>1. At(p.blk)' = At(p.blk)
    BY <1>1, <1>2, AtStays
  <2>2. p.blk < sent'
    BY <1>1, <1>2 DEF Counting
  <2>3. QED
    BY <1>1, <1>2, <2>1, <2>2 DEF SentPackets
<1>3. CASE UNCHANGED <<fec_block_seq, sent, restart>>
  BY <1>3 DEF SentPackets, At
<1>4. CASE sent' = sent /\ restart' # None
  BY <1>1, <1>4 DEF SentPackets
<1>5. QED
  BY <1>2, <1>3, <1>4

\* A step that leaves the receiver's blocks alone.
LEMMA SentKept ==
  ASSUME SentInv, SentPackets \subseteq SentPackets',
         sent \in Nat, sent' \in Nat, sent' >= sent,
         net' \subseteq SentPackets', chan' \in Seq(SentPackets'),
         UNCHANGED <<blocks, completed, next_block, hist, hol>>
  PROVE  SentInv'
<1>1. HoldsSent(blocks)' /\ HoldsSent(completed)'
  BY DEF SentInv, HoldsSent, Filled
<1>2. out' \in Seq(1..(sent' - 1)) /\ decoded' \subseteq 1..(sent' - 1)
  <2>1. 1..(sent - 1) \subseteq 1..(sent' - 1)
    <3>1. \A a, b \in Nat : b >= a => 1..(a - 1) \subseteq 1..(b - 1)
      OBVIOUS
    <3>2. QED
      BY <3>1
  <2>2. out \in Seq(1..(sent' - 1))
    BY <2>1, SeqMonotonic DEF SentInv
  <2>3. QED
    BY <2>1, <2>2 DEF SentInv, hist
<1>3. next_block' = None => Untouched'
  BY DEF SentInv, Untouched, Filled, hist
<1>4. QED
  BY <1>1, <1>2, <1>3 DEF SentInv

\* The parts of BaseInv.
LEMMA BaseFacts ==
  ASSUME BaseInv
  PROVE  Counting /\ RingInv /\ CountInv /\ SentInv /\ sent \in Nat
  BY DEF BaseInv, RingInv, Counting

\* The camera sends shards of a block that now was sent.
LEMMA SendKeepsBase ==
  ASSUME BaseInv, SendBlock
  PROVE  CountInv' /\ SentInv'
<1>1. Counting /\ RingInv /\ CountInv /\ SentInv /\ sent \in Nat
  BY BaseFacts
<1>2. CountInv'
  BY <1>1, Bounds DEF SendBlock, CountInv
<1>3. SentPackets \subseteq SentPackets'
  BY <1>1, SentStays DEF SendBlock
<1>4. ASSUME NEW p \in net'
      PROVE  p \in SentPackets'
  <2>1. CASE p \in net
    BY <1>1, <1>3, <2>1 DEF SentInv
  <2>2. CASE p \notin net
    <3>1. p.blk = sent /\ p.seq = fec_block_seq
      BY <1>4, <2>2 DEF SendBlock
    <3>2. p \in Packets
      <4>1. RingInv'
        BY <1>1, NextRing DEF Next, Sender
      <4>2. QED
        BY <4>1 DEF RingInv
    <3>3. fec_block_seq' = Succ(fec_block_seq) /\ sent' = sent + 1
      BY DEF SendBlock
    <3>4. \A b \in Int : b = sent => At(b)' = fec_block_seq
      BY <1>1, <3>3, AtStays
    <3>5. p.seq = At(p.blk)' /\ p.blk < sent'
      BY <1>1, <3>1, <3>3, <3>4
    <3>6. QED
      BY <3>2, <3>5 DEF SentPackets
  <2>3. QED
    BY <2>1, <2>2
<1>5. chan' \in Seq(SentPackets')
  BY <1>1, <1>3, SeqMonotonic DEF SendBlock, SentInv
<1>6. sent' \in Nat /\ sent' >= sent
  BY <1>1 DEF SendBlock
<1>7. UNCHANGED <<blocks, completed, next_block, hist, hol>>
  BY DEF SendBlock
<1>8. net' \subseteq SentPackets'
  BY <1>4
<1>9. SentInv'
  BY <1>1, <1>3, <1>5, <1>6, <1>7, <1>8, SentKept
<1>10. QED
  BY <1>2, <1>9

\* After a restart nothing is said about the numbers of the blocks.
LEMMA RestartKeepsBase ==
  ASSUME BaseInv, RestartCamera
  PROVE  CountInv' /\ SentInv'
<1>1. Counting /\ RingInv /\ CountInv /\ SentInv /\ sent \in Nat
  BY BaseFacts
<1>2. restart' # None
  <2>1. restart' \in Restarts
    BY <1>1 DEF RestartCamera, Restarts, RingInv
  <2>2. QED
    BY <2>1, NoneAssumption
<1>3. CountInv'
  BY <1>1, <1>2 DEF RestartCamera, CountInv
<1>4. SentPackets \subseteq SentPackets'
  BY <1>1, <1>2, SentStays DEF RestartCamera
<1>5. net' \subseteq SentPackets' /\ chan' \in Seq(SentPackets')
  BY <1>1, <1>4, SeqMonotonic DEF RestartCamera, SentInv
<1>6. UNCHANGED <<blocks, completed, next_block, hist, hol>> /\ sent' \in Nat /\ sent' >= sent
  BY <1>1 DEF RestartCamera
<1>7. SentInv'
  BY <1>1, <1>4, <1>5, <1>6, SentKept
<1>8. QED
  BY <1>3, <1>7

\* What is delivered was in flight.
LEMMA DeliverKeepsBase ==
  ASSUME BaseInv, NEW p \in net, Deliver(p)
  PROVE  CountInv' /\ SentInv'
<1>1. Counting /\ RingInv /\ CountInv /\ SentInv /\ sent \in Nat
  BY BaseFacts
<1>2. CountInv'
  BY <1>1 DEF Deliver, CountInv
<1>3. SentPackets \subseteq SentPackets'
  BY <1>1, SentStays DEF Deliver
<1>4. net' \subseteq SentPackets'
  BY <1>1, <1>3 DEF Deliver, SentInv
<1>5. chan' \in Seq(SentPackets')
  <2>1. chan' \in Seq(SentPackets)
    BY <1>1, AppendProperties DEF Deliver, SentInv
  <2>2. QED
    BY <1>3, <2>1, SeqMonotonic
<1>6. UNCHANGED <<blocks, completed, next_block, hist, hol>> /\ sent' \in Nat /\ sent' >= sent
  BY <1>1 DEF Deliver
<1>7. SentInv'
  BY <1>1, <1>3, <1>4, <1>5, <1>6, SentKept
<1>8. QED
  BY <1>2, <1>7

\* A timer only counts its own expirations.
LEMMA TimersKeepBase ==
  ASSUME BaseInv, HolTimerExpires \/ DecodeTimerExpires \/ UNCHANGED vars
  PROVE  CountInv' /\ SentInv'
<1>1. Counting /\ RingInv /\ CountInv /\ SentInv /\ sent \in Nat
  BY BaseFacts
<1>2. UNCHANGED <<env, chan, blocks, completed, next_block, hist, hol>>
  BY DEF HolTimerExpires, DecodeTimerExpires, vars, hist, env
<1>3. CountInv'
  <2>1. CASE HolTimerExpires
    BY <1>1, <2>1, Bounds DEF HolTimerExpires, CountInv, env
  <2>2. CASE DecodeTimerExpires \/ UNCHANGED vars
    BY <1>1, <2>2 DEF DecodeTimerExpires, vars, CountInv, env
  <2>3. QED
    BY <2>1, <2>2
<1>4. SentPackets \subseteq SentPackets'
  BY <1>1, <1>2, SentStays DEF env
<1>5. net' \subseteq SentPackets' /\ chan' \in Seq(SentPackets')
  BY <1>1, <1>2, <1>4, SeqMonotonic DEF env, SentInv
<1>6. sent' \in Nat /\ sent' >= sent
  BY <1>1, <1>2 DEF env
<1>7. SentInv'
  BY <1>1, <1>2, <1>4, <1>5, <1>6, SentKept
<1>8. QED
  BY <1>3, <1>7

\* Putting a block that was sent, or none, into a slot.
LEMMA PutKeepsSent ==
  ASSUME RingInv, SentInv, NEW seq \in SeqNums, NEW b,
         b = None \/ IsSentBlock(b, seq), PutPartial(seq, b)
  PROVE  HoldsSent(blocks')
<1>1. blocks' = [blocks EXCEPT ![Slot(seq)] = b] /\ DOMAIN blocks = Slots
  BY DEF PutPartial, RingInv, RingOf
<1>2. ASSUME NEW i \in Filled(blocks')
      PROVE  blocks'[i].got # {} /\ blocks'[i].got \subseteq SentPackets
  <2>1. i \in Slots /\ blocks'[i] # None
    BY <1>2 DEF Filled
  <2>2. CASE i = Slot(seq)
    <3>1. blocks'[i] = b
      BY <1>1, <2>1, <2>2
    <3>2. QED
      BY <2>1, <3>1 DEF IsSentBlock
  <2>3. CASE i # Slot(seq)
    <3>1. blocks'[i] = blocks[i]
      BY <1>1, <2>1, <2>3
    <3>2. QED
      BY <2>1, <3>1 DEF SentInv, HoldsSent, Filled
  <2>4. QED
    BY <2>2, <2>3
<1>3. QED
  BY <1>2 DEF HoldsSent

\* The idle visit gives up the head and its partial block.
LEMMA IdleKeepsBase ==
  ASSUME BaseInv, IdleVisit
  PROVE  CountInv' /\ SentInv'
<1>1. Counting /\ RingInv /\ CountInv /\ SentInv /\ sent \in Nat
  BY BaseFacts
<1>2. UNCHANGED <<env, chan, completed, hol, hol_expired, waits, out, decoded>>
  BY DEF IdleVisit, MoveHead
<1>3. CountInv'
  BY <1>1, <1>2 DEF CountInv, env
<1>4. SentPackets' = SentPackets
  BY <1>2 DEF env, SentPackets, At
<1>5. CASE UNCHANGED <<blocks, next_block, strayed, moved>>
  BY <1>1, <1>2, <1>3, <1>4, <1>5, SentKept DEF env, hist, SentInv
<1>6. CASE /\ next_block # None
           /\ PutPartial(next_block, None)
           /\ next_block' = Succ(next_block)
  <2>1. next_block \in SeqNums /\ next_block' \in SeqNums
    BY <1>1, <1>6, SuccIsSeqNum DEF RingInv
  <2>2. HoldsSent(blocks')
    BY <1>1, <1>6, <2>1, PutKeepsSent
  <2>3. HoldsSent(blocks)' /\ HoldsSent(completed)'
    BY <1>1, <1>2, <1>4, <2>2 DEF SentInv, HoldsSent, Filled
  <2>4. next_block' # None
    BY <2>1, NoneAssumption
  <2>5. SentInv'
    BY <1>1, <1>2, <1>4, <2>3, <2>4 DEF SentInv, env
  <2>6. QED
    BY <1>3, <2>5
<1>7. QED
  BY <1>5, <1>6 DEF IdleVisit, MoveHead, PutPartial

\* Completing a block leaves blocks that were sent.
LEMMA CompleteIsSent ==
  ASSUME Counting, NEW r, IsSentRing(r), NEW seq \in SeqNums, NEW b, IsSentBlock(b, seq)
  PROVE  IsSentRing(Complete(b, r))
<1> DEFINE s == Stored(b, r)
<1>1. IsSentRing(s) /\ Complete(b, r) = IF seq = r.next THEN drain_completed(s) ELSE s
  BY StoredIsSent
<1> HIDE DEF s
<1>2. QED
  BY <1>1, DrainEffect

\* A packet that is handled leaves blocks that were sent.
LEMMA ReceiveKeepsBase ==
  ASSUME BaseInv, Receive
  PROVE  CountInv' /\ SentInv'
<1> DEFINE p == Head(chan)
           n == HeadFor(p)
           r == AfterHolCheck(n)
           b == JoinedBlock(p)
           e == Evict(p.seq, r)
<1>1. Counting /\ RingInv /\ CountInv /\ SentInv /\ sent \in Nat
  BY BaseFacts
<1>2. /\ p \in SentPackets /\ p.seq \in SeqNums
      /\ Tail(chan) \in Seq(SentPackets)
      /\ IsSentRing(r)
      /\ Discards(p, r) \/ (Accepts(p, r) /\ (Joins(p, r) \/ Decodes(p, r)))
      /\ hol_expired' = (hol_expired /\ hol' # None)
      /\ chan' = Tail(chan)
      /\ UNCHANGED <<network, sent, fec_block_seq, restart, net, waits>>
  BY <1>1, ReceiveCases
<1> HIDE DEF p, n, r
<1>3. CountInv'
  BY <1>1, <1>2 DEF CountInv
<1>4. SentPackets' = SentPackets
  BY <1>2 DEF SentPackets, At
<1>5. IsSentBlock(b, p.seq)
  BY <1>1, <1>2, JoinedIsSent DEF SentInv
<1>6. IsSentRing(e)
  BY <1>2, EvictIsSent
<1> HIDE DEF b, e
<1>7. IsSentRing(Complete(b, e))
  BY <1>1, <1>2, <1>5, <1>6, CompleteIsSent
<1>8. ASSUME NEW s, IsSentRing(s), Commit(s)
      PROVE  HoldsSent(completed') /\ out' \in Seq(1..(sent - 1)) /\ next_block' # None
  <2>1. out' \in Seq(1..(sent - 1))
    BY <1>1, <1>8, ConcatProperties DEF IsSentRing, Commit, MoveHead, SentInv
  <2>2. QED
    BY <1>8, <2>1, NoneAssumption DEF IsSentRing, IsRing, Commit, MoveHead
<1>9. p.blk \in 1..(sent - 1)
  BY <1>1, <1>2 DEF SentPackets, Packets, Blocks
<1>10. /\ HoldsSent(blocks')
       /\ decoded' \subseteq 1..(sent - 1)
       /\ HoldsSent(completed') /\ out' \in Seq(1..(sent - 1)) /\ next_block' # None
  <2>1. CASE Discards(p, r)
    BY <1>1, <1>2, <1>8, <2>1 DEF Discards, SentInv
  <2>2. CASE Joins(p, r)
    BY <1>1, <1>2, <1>5, <1>6, <1>8, <2>2, PutKeepsSent DEF Joins, SentInv, b, e
  <2>3. CASE Decodes(p, r)
    BY <1>1, <1>2, <1>7, <1>8, <1>9, <2>3, PutKeepsSent DEF Decodes, SentInv, b, e
  <2>4. QED
    BY <1>2, <2>1, <2>2, <2>3
<1>11. HoldsSent(blocks)' /\ HoldsSent(completed)'
  BY <1>4, <1>10 DEF HoldsSent, Filled
<1>12. net' \subseteq SentPackets' /\ chan' \in Seq(SentPackets')
  BY <1>1, <1>2, <1>4 DEF SentInv
<1>13. SentInv'
  BY <1>2, <1>10, <1>11, <1>12 DEF SentInv
<1>14. QED
  BY <1>3, <1>13

LEMMA NextBase == BaseInv /\ [Next]_vars => BaseInv'
<1> SUFFICES ASSUME BaseInv, [Next]_vars PROVE BaseInv'
  OBVIOUS
<1>1. RingInv'
  BY NextRing DEF BaseInv
<1>2. CountInv' /\ SentInv'
  BY SendKeepsBase, RestartKeepsBase, DeliverKeepsBase, TimersKeepBase, ReceiveKeepsBase,
     IdleKeepsBase DEF Next, Sender, Timers, Receiver
<1>3. QED
  BY <1>1, <1>2 DEF BaseInv

-----------------------------------------------------------------------------
\* Blocks are counted and numbered without ambiguity.
Ordinary == Counting /\ restart = None /\ sent <= LastBlock + 1

\* What has been handed on when a packet's effect is r.
Shown(r) == out \o r.out

\* A run of blocks continues a sequence of earlier ones.
LEMMA RunIncreases ==
  ASSUME NEW s \in Seq(Int), NEW b \in Int, NEW k \in Nat,
         \A j \in DOMAIN s : s[j] < b, Stream!Increasing(s),
         NEW h, h = [j \in 1..k |-> b + (j - 1)]
  PROVE  /\ \A j \in DOMAIN (s \o h) : (s \o h)[j] < b + k
         /\ Stream!Increasing(s \o h)
<1>1. h \in Seq(Int) /\ Len(h) = k
  <2>1. h \in [1..k -> Int]
    OBVIOUS
  <2>2. \A f : f \in [1..k -> Int] => f \in Seq(Int) /\ Len(f) = k
    BY SeqDef
  <2>3. QED
    BY <2>1, <2>2
<1>2. /\ DOMAIN (s \o h) = 1..(Len(s) + k)
      /\ DOMAIN s = 1..Len(s) /\ Len(s) \in Nat
      /\ \A j \in 1..(Len(s) + k) : (s \o h)[j] = IF j <= Len(s) THEN s[j] ELSE h[j - Len(s)]
  BY <1>1, ConcatProperties
<1> DEFINE t == s \o h
<1>3. \A j \in DOMAIN t : IF j <= Len(s) THEN t[j] = s[j] /\ j \in DOMAIN s
                                         ELSE t[j] = b + ((j - Len(s)) - 1)
  <2>1. \A j \in DOMAIN t : j > Len(s) => j - Len(s) \in 1..k
    BY <1>2
  <2>2. QED
    BY <1>2, <2>1
<1> HIDE DEF t
<1>4. \A j \in DOMAIN t : t[j] \in Int
  <2>1. \A j \in DOMAIN s : s[j] \in Int
    OBVIOUS
  <2>2. \A j \in DOMAIN t : j \in Int
    BY <1>2 DEF t
  <2>3. QED
    BY <1>2, <1>3, <2>1, <2>2
<1>5. \A j \in DOMAIN t : t[j] < b + k
  <2> SUFFICES ASSUME NEW j \in DOMAIN t PROVE t[j] < b + k
    OBVIOUS
  <2>1. j \in 1..(Len(s) + k)
    BY <1>2 DEF t
  <2>2. CASE j <= Len(s)
    <3>1. t[j] \in Int /\ t[j] < b
      BY <1>3, <1>4, <2>2
    <3>2. QED
      BY <3>1
  <2>3. CASE ~(j <= Len(s))
    BY <1>2, <1>3, <2>1, <2>3
  <2>4. QED
    BY <2>2, <2>3
<1>6. ASSUME NEW i \in DOMAIN t, NEW j \in DOMAIN t, i < j
      PROVE  t[i] < t[j]
  <2>1. i \in 1..(Len(s) + k) /\ j \in 1..(Len(s) + k)
    BY <1>2 DEF t
  <2>2. CASE j <= Len(s)
    <3>1. i <= Len(s)
      BY <1>2, <1>6, <2>1, <2>2
    <3>2. QED
      BY <1>3, <1>6, <2>2, <3>1 DEF Stream!Increasing
  <2>3. CASE i <= Len(s) /\ ~(j <= Len(s))
    <3>1. t[i] < b /\ t[i] \in Int
      BY <1>3, <1>4, <2>3
    <3>2. t[j] = b + ((j - Len(s)) - 1)
      BY <1>3, <2>3
    <3>3. QED
      BY <1>2, <2>1, <2>3, <3>1, <3>2
  <2>4. CASE ~(i <= Len(s))
    <3>1. ~(j <= Len(s))
      BY <1>2, <1>6, <2>1, <2>4
    <3>2. t[i] = b + ((i - Len(s)) - 1) /\ t[j] = b + ((j - Len(s)) - 1)
      BY <1>3, <2>4, <3>1
    <3>3. QED
      BY <1>2, <1>6, <2>1, <3>2
  <2>5. QED
    BY <2>2, <2>3, <2>4
<1>7. Stream!Increasing(t)
  BY <1>6 DEF Stream!Increasing
<1>8. QED
  BY <1>5, <1>7 DEF t

\* The receiver is at block b once the effect r takes place.
AtBlock(r, b) ==
  /\ IsSentRing(r)
  /\ r.next = At(b)
  /\ b <= sent + waits
  /\ \A w \in Held(r.completed) : b < w /\ w < b + RingSize
  /\ \A j \in DOMAIN Shown(r) : Shown(r)[j] < b
  /\ Stream!Increasing(Shown(r))

\* A function on 1..k is a sequence.
LEMMA FunIsSeq ==
  ASSUME NEW S, NEW k \in Nat, NEW f \in [1..k -> S]
  PROVE  f \in Seq(S) /\ Len(f) = k /\ Range(f) = {f[j] : j \in 1..k}
<1>1. f \in Seq(S)
  BY SeqDef
<1>2. QED
  BY <1>1 DEF Range

\* Facts of the library for sequences over blocks.
LEMMA BlockSeqs ==
  \A s, t \in Seq(1..(sent - 1)) :
    /\ s \o t \in Seq(1..(sent - 1))
    /\ Range(s \o t) = Range(s) \cup Range(t)
    /\ \A u \in Seq(1..(sent - 1)) : s \o (t \o u) = (s \o t) \o u
  BY ConcatProperties, RangeConcatenation, ConcatAssociative

\* What drain_completed takes is what it hands on.
LEMMA DrainMoves ==
  ASSUME Counting, NEW r, IsSentRing(r), out \in Seq(1..(sent - 1))
  PROVE  LET d == drain_completed(r)
         IN  /\ Range(Shown(r)) \subseteq Range(Shown(d))
             /\ Range(Shown(d)) \subseteq Range(Shown(r)) \cup Held(r.completed)
             /\ Held(d.completed) \subseteq Held(r.completed)
             /\ Held(r.completed) \subseteq Range(Shown(d)) \cup Held(d.completed)
<1> DEFINE c == r.completed
           d == drain_completed(r)
           S == 1..(sent - 1)
<1>1. PICK k \in 0..RingSize :
        /\ d.out = r.out \o [j \in 1..k |-> BlkOf(c[Slot(r.next + (j - 1))])]
        /\ d.completed = [i \in Slots |->
             IF i \in {Slot(r.next + j) : j \in 0..(k - 1)} THEN None ELSE c[i]]
        /\ \A j \in 0..(k - 1) : Slot(r.next + j) \in Filled(c)
  BY DrainEffect
<1> HIDE DEF d
<1> DEFINE h == [j \in 1..k |-> BlkOf(c[Slot(r.next + (j - 1))])]
<1>2. r.out \in Seq(S) /\ out \in Seq(S)
  BY DEF IsSentRing
<1>3. k \in Nat /\ (\A j \in 1..k : j - 1 \in 0..(k - 1))
      /\ (\A j \in 0..(k - 1) : j + 1 \in 1..k /\ (j + 1) - 1 = j)
  BY <1>1, Moduli
<1>4. \A i \in Filled(c) : BlkOf(c[i]) \in S
  BY BlockIsSent DEF IsSentRing, IsRing
<1>5. h \in [1..k -> S]
  BY <1>1, <1>3, <1>4
<1>6. \A j \in 1..k : h[j] \in Held(c)
  BY <1>1, <1>3 DEF Held
<1>7. \A j \in 0..(k - 1) : h[j + 1] = BlkOf(c[Slot(r.next + j)])
  BY <1>3
<1>8. d.out = r.out \o h
  BY <1>1
<1> HIDE DEF h, S
<1>9. h \in Seq(S) /\ Range(h) = {h[j] : j \in 1..k}
  BY <1>3, <1>5, FunIsSeq
<1>10. r.out \o h \in Seq(S) /\ Shown(r) \in Seq(S)
  BY <1>2, <1>9, BlockSeqs DEF Shown, S
<1>11. out \o (r.out \o h) = (out \o r.out) \o h
  BY <1>2, <1>9, BlockSeqs, Zenon DEF S
<1>12. Shown(d) = Shown(r) \o h
  BY <1>8, <1>11 DEF Shown
<1>13. Range(Shown(d)) = Range(Shown(r)) \cup Range(h)
  BY <1>9, <1>10, <1>12, BlockSeqs, Zenon DEF S
<1>14. Range(h) \subseteq Held(c)
  BY <1>6, <1>9
<1>15. ASSUME NEW i \in Filled(d.completed)
       PROVE  i \in Filled(c) /\ d.completed[i] = c[i]
  BY <1>1 DEF Filled
<1>16. ASSUME NEW i \in Filled(c)
       PROVE  BlkOf(c[i]) \in Range(h) \/ (i \in Filled(d.completed) /\ d.completed[i] = c[i])
  <2>1. CASE i \in {Slot(r.next + j) : j \in 0..(k - 1)}
    BY <1>3, <1>7, <1>9, <2>1
  <2>2. CASE i \notin {Slot(r.next + j) : j \in 0..(k - 1)}
    BY <1>1, <2>2 DEF Filled
  <2>3. QED
    BY <2>1, <2>2
<1> HIDE DEF c
<1>17. Held(d.completed) \subseteq Held(c)
  BY <1>15 DEF Held
<1>18. Held(c) \subseteq Range(h) \cup Held(d.completed)
  BY <1>16 DEF Held
<1>19. QED
  BY <1>13, <1>14, <1>17, <1>18 DEF c, d

\* A block of the receiver's window lies where its distance from the head says.
LEMMA WindowSlot ==
  ASSUME Ordinary, NEW c, RingOf(c, CompletedBlock), HoldsSent(c), NEW b \in Int,
         \A w \in Held(c) : b <= w /\ w < b + RingSize,
         NEW j \in 0..(RingSize - 1), Slot(At(b) + j) \in Filled(c)
  PROVE  BlkOf(c[Slot(At(b) + j)]) = b + j
<1> DEFINE i == Slot(At(b) + j)
           w == BlkOf(c[i])
<1>1. w \in Int /\ i = Slot(At(w))
  BY BlockIsSent DEF Ordinary
<1>2. w \in Held(c)
  BY DEF Held
<1>3. b <= w /\ w < b + RingSize
  BY <1>2
<1>4. j \in Int /\ b + j \in Int /\ i = Slot(At(b + j))
  BY AtSlot DEF Ordinary
<1>5. w - (b + j) < RingSize /\ (b + j) - w < RingSize
  BY <1>1, <1>3, <1>4, Moduli
<1> HIDE DEF i, w
<1>6. w = b + j
  BY <1>1, <1>4, <1>5, SlotSame DEF Ordinary
<1>7. QED
  BY <1>6 DEF i, w

\* From a block on, drain_completed hands on the blocks in order, and stops at the
\* first it does not hold.
LEMMA DrainInOrder ==
  ASSUME Ordinary, out \in Seq(1..(sent - 1)),
         NEW r, IsSentRing(r), NEW b \in Nat \ {0}, r.next = At(b), b <= sent + waits,
         waits \in Nat,
         \A w \in Held(r.completed) : b <= w /\ w < b + RingSize,
         \A j \in DOMAIN Shown(r) : Shown(r)[j] < b,
         Stream!Increasing(Shown(r))
  PROVE  \E k \in 0..RingSize : /\ AtBlock(drain_completed(r), b + k)
                                /\ k > 0 => b + k <= sent
<1> DEFINE c == r.completed
           d == drain_completed(r)
           a == r.next
<1>0. a = At(b)
  OBVIOUS
<1>1. Counting /\ RingOf(c, CompletedBlock) /\ HoldsSent(c) /\ b \in Int /\ sent \in Nat
  BY DEF Ordinary, Counting, IsSentRing, IsRing
<1>2. PICK k \in 0..RingSize :
        /\ d.next = (a + k) % SeqMod
        /\ d.out = r.out \o [j \in 1..k |-> BlkOf(c[Slot(a + (j - 1))])]
        /\ d.completed = [i \in Slots |->
             IF i \in {Slot(a + j) : j \in 0..(k - 1)} THEN None ELSE c[i]]
        /\ \A j \in 0..(k - 1) : Slot(a + j) \in Filled(c)
        /\ k < RingSize => c[Slot(a + k)] = None
  BY <1>1, DrainEffect
<1>3. IsSentRing(d)
  BY <1>1, DrainEffect
<1> HIDE DEF d, a
<1>4. k \in Nat /\ k \in Int /\ \A j \in 0..(k - 1) : j \in 0..(RingSize - 1)
  BY <1>2, Moduli
<1>5. \A j \in 0..(k - 1) : BlkOf(c[Slot(a + j)]) = b + j
  BY <1>0, <1>1, <1>2, <1>4, WindowSlot
<1>6. d.next = At(b + k)
  BY <1>0, <1>1, <1>2, <1>4, AtPlus
<1> DEFINE h == [j \in 1..k |-> b + (j - 1)]
<1>7. d.out = r.out \o h
  <2>1. \A j \in 1..k : BlkOf(c[Slot(a + (j - 1))]) = b + (j - 1)
    <3>1. \A j \in 1..k : j - 1 \in 0..(k - 1)
      BY <1>4
    <3> HIDE DEF c
    <3>2. QED
      BY <1>5, <3>1
  <2> HIDE DEF c
  <2>2. [j \in 1..k |-> BlkOf(c[Slot(a + (j - 1))])] = h
    BY <2>1
  <2>3. QED
    BY <1>2, <2>2
<1>8. k > 0 => b + k <= sent
  <2>1. CASE k > 0
    <3>1. k - 1 \in 0..(k - 1)
      BY <1>4, <2>1
    <3>2. BlkOf(c[Slot(a + (k - 1))]) = b + (k - 1) /\ Slot(a + (k - 1)) \in Filled(c)
      BY <1>2, <1>5, <3>1
    <3>3. BlkOf(c[Slot(a + (k - 1))]) \in 1..(sent - 1)
      BY <1>1, <3>2, BlockIsSent
    <3>4. b + (k - 1) \in 1..(sent - 1)
      BY <3>2, <3>3
    <3>5. QED
      BY <1>1, <1>4, <3>4
  <2>2. QED
    BY <2>1
<1>9. \A j \in 1..k : h[j] \in 1..(sent - 1)
  <2>1. \A j \in 1..k : b + (j - 1) \in 1..(sent - 1)
    BY <1>1, <1>4, <1>8
  <2>2. QED
    BY <2>1
<1>10. h \in Seq(1..(sent - 1))
  <2>1. h \in [1..k -> 1..(sent - 1)]
    BY <1>9
  <2> HIDE DEF h
  <2>2. QED
    BY <1>4, <2>1, FunIsSeq
<1>11. Shown(d) = Shown(r) \o h
  <2> HIDE DEF h
  <2>1. out \o (r.out \o h) = (out \o r.out) \o h
    BY <1>10, BlockSeqs, Zenon DEF IsSentRing
  <2>2. QED
    BY <1>7, <2>1 DEF Shown
<1>12. /\ \A j \in DOMAIN Shown(d) : Shown(d)[j] < b + k
       /\ Stream!Increasing(Shown(d))
  <2>1. Shown(r) \in Seq(Int)
    <3>1. Shown(r) \in Seq(1..(sent - 1))
      BY BlockSeqs DEF IsSentRing, Shown
    <3>2. 1..(sent - 1) \subseteq Int
      OBVIOUS
    <3>3. QED
      BY <3>1, <3>2, SeqMonotonic
  <2>2. /\ \A j \in DOMAIN (Shown(r) \o h) : (Shown(r) \o h)[j] < b + k
        /\ Stream!Increasing(Shown(r) \o h)
    BY <1>1, <1>4, <2>1, RunIncreases
  <2> HIDE DEF h
  <2>3. QED
    BY <1>11, <2>2
<1>13. ASSUME NEW w \in Held(d.completed)
       PROVE  b + k < w /\ w < (b + k) + RingSize
  <2>1. PICK i \in Filled(d.completed) : w = BlkOf(d.completed[i])
    BY DEF Held
  <2>2. i \in Filled(c) /\ d.completed[i] = c[i] /\ i \notin {Slot(a + j) : j \in 0..(k - 1)}
    BY <1>2, <2>1 DEF Filled
  <2>3. w \in 1..(sent - 1) /\ i = Slot(At(w))
    BY <1>1, <2>1, <2>2, BlockIsSent DEF Ordinary
  <2>4. w \in Held(c)
    BY <2>1, <2>2 DEF Held
  <2>5. b <= w /\ w < b + RingSize /\ w \in Int
    BY <2>3, <2>4
  <2> DEFINE m == w - b
  <2>6. m \in Int /\ b + m = w /\ m \in 0..(RingSize - 1)
    BY <1>1, <2>5, Moduli
  <2>7. i = Slot(a + m)
    BY <1>0, <1>1, <2>3, <2>6, AtSlot
  <2>8. ~(m <= k - 1)
    BY <1>4, <2>2, <2>6, <2>7
  <2>9. m # k
    <3>1. CASE k < RingSize
      BY <1>2, <2>2, <2>7, <3>1 DEF Filled
    <3>2. CASE ~(k < RingSize)
      BY <1>4, <2>6, <3>2, Moduli
    <3>3. QED
      BY <3>1, <3>2
  <2>10. m > k
    BY <1>4, <2>6, <2>8, <2>9
  <2>11. QED
    BY <1>1, <1>4, <2>5, <2>10, Moduli
<1>14. b + k <= sent + waits
  BY <1>1, <1>4, <1>8
<1>15. AtBlock(d, b + k)
  BY <1>3, <1>6, <1>12, <1>13, <1>14 DEF AtBlock
<1>16. QED
  BY <1>8, <1>15 DEF d

\* The head and the blocks that were sent are within half the numbers.
LEMMA HalfWay ==
  ASSUME Ordinary, waits \in 0..MaxWaits, NEW r, NEW b \in Nat \ {0}, AtBlock(r, b),
         NEW p \in SentPackets
  PROVE  /\ p.blk \in Int /\ b \in Int
         /\ b - p.blk <= SeqMod \div 2 /\ p.blk - b < SeqMod \div 2
         /\ SeqMod \div 2 \in Nat /\ 2 * (SeqMod \div 2) <= SeqMod
<1> DEFINE w == p.blk
           half == SeqMod \div 2
<1>1. w \in Int /\ 1 <= w /\ w < sent /\ b \in Int /\ sent \in Nat
  BY DEF SentPackets, Packets, Blocks, Ordinary, Counting
<1>2. half \in Nat /\ 2 * half <= SeqMod /\ SeqMod \in Nat \ {0}
  BY Moduli
<1>3. b <= sent + MaxWaits /\ sent <= LastBlock + 1 /\ LastBlock + MaxWaits < half
  BY <1>1, Bounds, RingAssumption DEF AtBlock, Ordinary
<1> HIDE DEF w, half
<1>4. b - w <= half /\ w - b < half
  BY <1>1, <1>2, <1>3, Bounds
<1>5. QED
  BY <1>1, <1>2, <1>4 DEF w, half

\* A shard that is accepted without straying belongs to a block of the window.
LEMMA AcceptedIsNear ==
  ASSUME Ordinary, waits \in 0..MaxWaits, NEW r, NEW b \in Nat \ {0}, AtBlock(r, b),
         NEW p \in SentPackets, ~Discarded(p.seq, r),
         ~(is_future_block(p.seq, r.next) /\ Dist(p.seq, r.next) >= RingSize)
  PROVE  /\ b <= p.blk /\ p.blk < b + RingSize
         /\ p.seq = r.next <=> p.blk = b
<1> DEFINE w == p.blk
<1>1. w \in Int /\ 1 <= w /\ w < sent /\ p.seq = At(w) /\ r.next = At(b) /\ Counting
      /\ b \in Int /\ sent \in Nat
  BY DEF SentPackets, Packets, Blocks, Ordinary, Counting, AtBlock
<1> HIDE DEF w
<1> DEFINE half == SeqMod \div 2
<1>2. half \in Nat /\ 2 * half <= SeqMod /\ SeqMod \in Nat \ {0}
  BY Moduli
<1>3. b - w <= half /\ w - b < half
  BY HalfWay DEF w
<1>4. p.seq = r.next <=> w = b
  <2> HIDE DEF half
  <2>1. b - w < SeqMod /\ w - b < SeqMod
    BY <1>1, <1>3, <1>2
  <2>2. QED
    BY <1>1, <2>1, AtSame
<1>5. CASE p.seq = r.next
  BY <1>1, <1>4, <1>5, Moduli DEF w
<1>6. CASE p.seq # r.next
  <2> DEFINE z == (w - b) % SeqMod
  <2>1. Dist(p.seq, r.next) = z
    BY <1>1, AtDist
  <2>2. z < half /\ ~(z >= RingSize)
    BY <1>6, <2>1 DEF Discarded, is_future_block
  <2>3. w - b \in Int /\ (0 <= w - b /\ w - b < SeqMod => z = w - b)
        /\ (w - b < 0 /\ -(w - b) <= SeqMod => z = (w - b) + SeqMod)
    <3>1. \A v \in Int : /\ 0 <= v /\ v < SeqMod => v % SeqMod = v
                         /\ v < 0 /\ -v <= SeqMod => v % SeqMod = v + SeqMod
      BY Moduli, ModSmall
    <3>2. w - b \in Int
      BY <1>1
    <3>3. QED
      BY <3>1, <3>2
  <2> HIDE DEF z, half
  <2>4. ~(w - b < 0)
    BY <1>1, <1>3, <1>2, <2>2, <2>3
  <2>5. z = w - b
    BY <1>1, <1>3, <1>2, <2>3, <2>4
  <2>6. b <= w /\ w < b + RingSize
    BY <1>1, <2>2, <2>4, <2>5, Moduli
  <2>7. QED
    BY <1>4, <2>6 DEF w
<1>7. QED
  BY <1>5, <1>6

\* A block the window holds is not evicted for a shard of the window.
LEMMA NothingEvicted ==
  ASSUME Ordinary, NEW r, IsSentRing(r), NEW b \in Int,
         \A w \in Held(r.completed) : b <= w /\ w < b + RingSize,
         NEW p \in SentPackets, b <= p.blk, p.blk < b + RingSize
  PROVE  /\ Evict(p.seq, r) = r
         /\ \A i \in Filled(r.completed) : i = Slot(p.seq) => BlkOf(r.completed[i]) = p.blk
<1> DEFINE c == r.completed
<1>1. p.seq = At(p.blk) /\ p.blk \in Int /\ p.seq \in SeqNums /\ Counting
  BY PacketSeqNum DEF Ordinary, SentPackets, Packets, Blocks
<1>2. ASSUME NEW i \in Filled(c), i = Slot(p.seq)
      PROVE  BlkOf(c[i]) = p.blk /\ c[i].seq = p.seq
  <2> DEFINE w == BlkOf(c[i])
  <2>1. w \in 1..(sent - 1) /\ c[i].seq = At(w) /\ i = Slot(At(w))
    BY <1>1, <1>2, BlockIsSent DEF Ordinary, IsSentRing, IsRing
  <2>2. w \in Held(c)
    BY <1>2 DEF Held
  <2>3. b <= w /\ w < b + RingSize /\ w \in Int
    BY <2>1, <2>2
  <2> HIDE DEF w
  <2>4. w - p.blk < RingSize /\ p.blk - w < RingSize
    BY <1>1, <2>3, Moduli
  <2>5. w = p.blk
    BY <1>1, <1>2, <2>1, <2>3, <2>4, SlotSame
  <2>6. QED
    BY <1>1, <2>1, <2>5 DEF w
<1>3. c[Slot(p.seq)] # None => c[Slot(p.seq)].seq = p.seq
  BY <1>1, <1>2, SlotInRing DEF Filled
<1>4. Evict(p.seq, r) = r
  BY <1>3 DEF Evict
<1>5. QED
  BY <1>2, <1>4

\* Storing the block a shard completes adds that block.
LEMMA StoredHolds ==
  ASSUME Ordinary, NEW r, IsSentRing(r), NEW p \in SentPackets, NEW b,
         IsSentBlock(b, p.seq), p \in b.got,
         \A i \in Filled(r.completed) : i = Slot(p.seq) => BlkOf(r.completed[i]) = p.blk
  PROVE  Held(Stored(b, r).completed) = Held(r.completed) \cup {p.blk}
<1> DEFINE c == r.completed
           d == Stored(b, r).completed
           x == Slot(p.seq)
           v == [seq |-> p.seq, got |-> b.got]
<1>1. p.seq \in SeqNums /\ x \in Slots /\ Counting
  BY PacketSeqNum, SlotInRing DEF SentPackets, Ordinary
<1>2. d = [c EXCEPT ![x] = v] /\ IsSentRing(Stored(b, r)) /\ DOMAIN c = Slots
  BY <1>1, StoredIsSent DEF IsSentRing, IsRing, RingOf
<1>3. v \in CompletedBlock /\ v.got = b.got
  BY <1>1 DEF CompletedBlock, IsSentBlock, IsBlock, PartialBlock
<1>4. v # None
  BY <1>3, NoneAssumption
<1>5. RingOf(d, CompletedBlock) /\ HoldsSent(d)
  BY <1>2 DEF IsSentRing, IsRing
<1> HIDE DEF c, d, x, v
<1>6. d[x] = v /\ x \in Filled(d)
  BY <1>1, <1>2, <1>4 DEF Filled
<1>7. BlkOf(d[x]) = p.blk
  <2>1. \A q \in d[x].got : q.blk = BlkOf(d[x])
    BY <1>1, <1>5, <1>6, BlockIsSent DEF Ordinary
  <2>2. QED
    BY <1>3, <1>6, <2>1
<1>8. \A i \in Slots : i # x => d[i] = c[i]
  BY <1>2
<1>9. \A i \in Filled(c) : i = x => BlkOf(c[i]) = p.blk
  BY DEF c, x
<1>10. ASSUME NEW i \in Filled(d)
       PROVE  BlkOf(d[i]) \in Held(c) \cup {p.blk}
  BY <1>7, <1>8, <1>10 DEF Filled, Held
<1>11. ASSUME NEW i \in Filled(c)
       PROVE  BlkOf(c[i]) \in Held(d)
  <2>1. CASE i = x
    <3>1. BlkOf(c[i]) = BlkOf(d[x])
      BY <1>7, <1>9, <2>1
    <3>2. QED
      BY <1>6, <3>1 DEF Held
  <2>2. CASE i # x
    <3>1. i \in Filled(d) /\ d[i] = c[i]
      BY <1>8, <2>2 DEF Filled
    <3>2. QED
      BY <3>1 DEF Held
  <2>3. QED
    BY <2>1, <2>2
<1>12. p.blk \in Held(d)
  BY <1>6, <1>7 DEF Held
<1>13. Held(d) = Held(c) \cup {p.blk}
  <2>1. Held(d) \subseteq Held(c) \cup {p.blk}
    BY <1>10 DEF Held
  <2>2. Held(c) \subseteq Held(d)
    BY <1>11 DEF Held
  <2>3. QED
    BY <1>12, <2>1, <2>2
<1>14. QED
  BY <1>13 DEF c, d

\* The receiver waits for the camera's block b, which it does not hold, holds later
\* blocks of the window, and has handed on earlier blocks only.
Reached(b) ==
  /\ next_block = At(b)
  /\ b + (IF hol_expired THEN 1 ELSE 0) <= sent + waits
  /\ \A w \in Held(completed) : b < w /\ w < b + RingSize
  /\ \A i \in Filled(blocks) : \A p \in blocks[i].got : p.blk < b + RingSize
  /\ \A j \in DOMAIN out : out[j] < b
  /\ Stream!Increasing(out)

\* As long as the receiver has its place in the stream, it is at some block, and
\* what it decoded was handed on or is held.
OrderInv ==
  ~strayed /\ restart = None =>
    /\ next_block # None => \E b \in Nat \ {0} : Reached(b)
    /\ decoded \subseteq Range(out) \cup Held(completed)

\* The head-of-line check keeps the receiver at a block, at most one further than
\* what it skips.
LEMMA HolInOrder ==
  ASSUME BaseInv, Ordinary, NEW n \in SeqNums, NEW b \in Nat \ {0}, n = At(b),
         b + (IF hol_expired THEN 1 ELSE 0) <= sent + waits,
         \A w \in Held(completed) : b < w /\ w < b + RingSize,
         \A j \in DOMAIN out : out[j] < b, Stream!Increasing(out),
         hol' = HolTimer(n), hol_expired' = (hol_expired /\ hol' # None)
  PROVE  /\ \E m \in Nat \ {0} : m >= b /\ AtBlock(AfterHolCheck(n), m)
         /\ ~hol_expired'
         /\ Range(Shown(AfterHolCheck(n))) \cup Held(AfterHolCheck(n).completed)
              = Range(out) \cup Held(completed)
<1> DEFINE from(m) == [next |-> m, completed |-> completed, out |-> <<>>, fresh |-> FALSE]
           r == AfterHolCheck(n)
<1>1. /\ Counting /\ RingInv /\ CountInv /\ SentInv /\ sent \in Nat
      /\ RingOf(completed, CompletedBlock) /\ HoldsSent(completed)
      /\ out \in Seq(1..(sent - 1)) /\ waits \in Nat /\ b \in Int
      /\ hol_expired \in BOOLEAN
  BY BaseFacts DEF RingInv, SentInv, CountInv
<1>2. HeadMissing(n)
  <2>1. CASE completed[Slot(n)] # None
    <3>1. n + 0 = n /\ 0 \in 0..(RingSize - 1) /\ At(b) + 0 = n
      BY Moduli DEF SeqNums
    <3>2. Slot(At(b) + 0) \in Filled(completed)
      BY <2>1, <3>1, SlotInRing DEF Filled
    <3>3. \A w \in Held(completed) : b <= w /\ w < b + RingSize
      <4>1. \A w \in Held(completed) : w \in Int
        BY <1>1, BlockIsSent DEF Held
      <4>2. QED
        BY <1>1, <4>1
    <3>4. BlkOf(completed[Slot(At(b) + 0)]) = b + 0
      BY <1>1, <3>1, <3>2, <3>3, WindowSlot
    <3>5. b + 0 \in Held(completed) /\ b + 0 = b
      BY <1>1, <3>2, <3>4 DEF Held
    <3>6. QED
      BY <1>1, <3>5
  <2>2. QED
    BY <2>1 DEF HeadMissing
<1>3. \A m \in SeqNums : IsSentRing(from(m)) /\ Shown(from(m)) = out
        /\ from(m).next = m /\ from(m).completed = completed
  <2>1. \A m \in SeqNums : IsRing(from(m))
    BY <1>1 DEF IsRing
  <2>2. \A m : from(m).completed = completed /\ from(m).out = <<>> /\ from(m).next = m
    OBVIOUS
  <2> HIDE DEF from
  <2>3. out \o <<>> = out
    BY <1>1, ConcatEmptySeq
  <2>4. <<>> \in Seq(1..(sent - 1))
    OBVIOUS
  <2>5. \A m \in SeqNums : IsSentRing(from(m))
    BY <1>1, <2>1, <2>2, <2>4 DEF IsSentRing
  <2>6. \A m : Shown(from(m)) = out
    BY <2>2, <2>3, Zenon DEF Shown
  <2>7. QED
    BY <2>2, <2>5, <2>6
<1>4. r = IF HolSkips(n) THEN drain_completed(from(Succ(n))) ELSE from(n)
  BY DEF AfterHolCheck
<1> HIDE DEF from, r
<1>5. CASE HolSkips(n)
  <2>1. hol_expired /\ hol' = None /\ r = drain_completed(from(Succ(n)))
    BY <1>4, <1>5 DEF HolSkips, HolTimer
  <2>2. Succ(n) \in SeqNums /\ Succ(n) = At(b + 1) /\ b + 1 \in Nat \ {0}
    BY <1>1, AtNext, SuccIsSeqNum
  <2> DEFINE f == from(Succ(n))
  <2>3. IsSentRing(f) /\ Shown(f) = out /\ f.next = At(b + 1) /\ f.completed = completed
    BY <1>3, <2>2
  <2> HIDE DEF f
  <2>4. \A w \in Held(f.completed) : b + 1 <= w /\ w < (b + 1) + RingSize
    <3>1. \A w \in Held(completed) : w \in Int
      BY <1>1, BlockIsSent DEF Held
    <3>2. QED
      BY <1>1, <2>3, <3>1, Moduli
  <2>5. b + 1 <= sent + waits
    BY <2>1
  <2>6. \A j \in DOMAIN Shown(f) : Shown(f)[j] < b + 1
    <3>1. \A j \in DOMAIN out : out[j] \in Int
      BY <1>1
    <3>2. QED
      BY <1>1, <2>3, <3>1
  <2>7. PICK k \in 0..RingSize : AtBlock(drain_completed(f), (b + 1) + k)
    BY <1>1, <2>2, <2>3, <2>4, <2>5, <2>6, DrainInOrder
  <2>8. (b + 1) + k \in Nat \ {0} /\ (b + 1) + k >= b
    BY <1>1, <2>7, Moduli
  <2>9. Range(Shown(r)) \cup Held(r.completed) = Range(out) \cup Held(completed)
    BY <1>1, <2>1, <2>3, DrainMoves DEF f
  <2>10. QED
    BY <2>1, <2>7, <2>8, <2>9 DEF f, r
<1>6. CASE ~HolSkips(n)
  <2>1. r = from(n)
    BY <1>4, <1>6
  <2>2. ~hol_expired
    BY <1>1, <1>2, <1>6 DEF HolSkips, CountInv
  <2>3. b <= sent + waits
    BY <1>1, <2>2
  <2>4. AtBlock(r, b)
    BY <1>3, <2>1, <2>3 DEF AtBlock
  <2>5. QED
    BY <1>1, <1>3, <2>1, <2>2, <2>4 DEF r
<1>7. QED
  BY <1>5, <1>6

\* The receiver is at the block its effect puts it at.
LEMMA Lands ==
  ASSUME NEW s, NEW m \in Nat \ {0}, AtBlock(s, m), Commit(s), ~hol_expired', sent \in Nat,
         waits \in Nat,
         UNCHANGED <<sent, fec_block_seq, waits>>,
         \A i \in Filled(blocks') : \A q \in blocks'[i].got : q.blk < m + RingSize
  PROVE  Reached(m)'
<1>1. next_block' = s.next /\ completed' = s.completed /\ out' = Shown(s)
  BY DEF Commit, MoveHead, Shown
<1>2. At(m)' = At(m)
  BY DEF At
<1>3. (next_block = At(m))'
  BY <1>1, <1>2 DEF AtBlock
<1>4. (m + (IF hol_expired THEN 1 ELSE 0) <= sent + waits)'
  BY DEF AtBlock
<1>5. \A w \in Held(s.completed) : m < w /\ w < m + RingSize
  BY DEF AtBlock
<1>6. Held(completed)' = Held(s.completed)
  BY <1>1 DEF Held, Filled
<1>7. (\A w \in Held(completed) : m < w /\ w < m + RingSize)'
  BY <1>5, <1>6
<1>8. (\A i \in Filled(blocks) : \A p \in blocks[i].got : p.blk < m + RingSize)'
  BY DEF Filled
<1>9. \A j \in DOMAIN Shown(s) : Shown(s)[j] < m
  BY DEF AtBlock
<1>10. (\A j \in DOMAIN out : out[j] < m)'
  BY <1>1, <1>9
<1>11. Stream!Increasing(Shown(s))
  BY DEF AtBlock
<1>12. Stream!Increasing(out)'
  BY <1>1, <1>11 DEF Stream!Increasing
<1>13. QED
  BY <1>3, <1>4, <1>7, <1>8, <1>10, <1>12 DEF Reached

\* The head n is the camera's block b, as in Reached(b).
HeadAt(n, b) ==
  /\ n = At(b)
  /\ b + (IF hol_expired THEN 1 ELSE 0) <= sent + waits
  /\ \A w \in Held(completed) : b < w /\ w < b + RingSize
  /\ \A i \in Filled(blocks) : \A q \in blocks[i].got : q.blk < b + RingSize
  /\ \A j \in DOMAIN out : out[j] < b
  /\ Stream!Increasing(out)

\* Where the receiver is when a packet is looked at: at that packet's block if it is
\* the first.
LEMMA StartsInOrder ==
  ASSUME BaseInv, OrderInv, ~strayed, restart = None, NEW p \in SentPackets
  PROVE  /\ next_block = None => HeadAt(HeadFor(p), p.blk)
         /\ \A b : next_block # None /\ Reached(b) => HeadAt(HeadFor(p), b)
         /\ \E b \in Nat \ {0} : HeadAt(HeadFor(p), b)
<1>1. ASSUME next_block = None
      PROVE  HeadAt(HeadFor(p), p.blk) /\ p.blk \in Nat \ {0}
  <2>1. Untouched /\ waits \in Nat /\ hol_expired \in BOOLEAN /\ (hol_expired => hol # None)
        /\ sent \in Nat
    BY <1>1, BaseFacts, Bounds DEF SentInv, CountInv
  <2>2. p.blk \in Nat \ {0} /\ p.blk < sent /\ p.seq = At(p.blk)
    BY DEF SentPackets, Packets, Blocks
  <2>3. Held(completed) = {} /\ DOMAIN out = {} /\ Filled(blocks) = {} /\ ~hol_expired
    BY <2>1 DEF Untouched, Held
  <2>4. p.blk + (IF hol_expired THEN 1 ELSE 0) <= sent + waits
    BY <2>1, <2>2, <2>3
  <2>5. HeadFor(p) = At(p.blk)
    BY <1>1, <2>2 DEF HeadFor
  <2>6. Stream!Increasing(out)
    BY <2>3 DEF Stream!Increasing
  <2>7. QED
    BY <2>2, <2>3, <2>4, <2>5, <2>6 DEF HeadAt
<1>2. ASSUME next_block # None, NEW b, Reached(b)
      PROVE  HeadAt(HeadFor(p), b)
  <2>1. HeadFor(p) = At(b)
    BY <1>2 DEF HeadFor, Reached
  <2>2. QED
    BY <1>2, <2>1 DEF Reached, HeadAt
<1>3. next_block # None => \E b \in Nat \ {0} : Reached(b)
  BY DEF OrderInv
<1>4. QED
  BY <1>1, <1>2, <1>3

\* The partial blocks stay within a ring of the head when one is replaced.
LEMMA PutKeepsWindow ==
  ASSUME RingInv, NEW b \in Int, NEW m \in Int, m >= b, NEW seq \in SeqNums, NEW x, PutPartial(seq, x),
         HoldsSent(blocks),
         \A i \in Filled(blocks) : \A q \in blocks[i].got : q.blk < b + RingSize,
         x = None \/ \A q \in x.got : q.blk < m + RingSize
  PROVE  \A i \in Filled(blocks') : \A q \in blocks'[i].got : q.blk < m + RingSize
<1>1. blocks' = [blocks EXCEPT ![Slot(seq)] = x] /\ DOMAIN blocks = Slots
  BY DEF PutPartial, RingInv, RingOf
<1>2. \A i \in Filled(blocks) : \A q \in blocks[i].got : q.blk \in Int
  BY DEF HoldsSent, SentPackets, Packets, Blocks
<1>3. ASSUME NEW i \in Filled(blocks'), NEW q \in blocks'[i].got
      PROVE  q.blk < m + RingSize
  <2>1. CASE i = Slot(seq)
    <3>1. blocks'[i] = x /\ x # None
      BY <1>1, <1>3, <2>1 DEF Filled
    <3>2. QED
      BY <1>3, <3>1
  <2>2. CASE i # Slot(seq)
    <3>1. blocks'[i] = blocks[i] /\ i \in Filled(blocks)
      BY <1>1, <1>3, <2>2 DEF Filled
    <3>2. q.blk \in Int /\ q.blk < b + RingSize
      BY <1>2, <1>3, <3>1
    <3>3. QED
      BY <3>2, Moduli
  <2>3. QED
    BY <2>1, <2>2
<1>4. QED
  BY <1>3

\* A packet moves the receiver on: past what the head-of-line check skips to block m,
\* and to block k when the head is decoded.
LEMMA ReceiveMovesOn ==
  ASSUME BaseInv, OrderInv, Receive, ~strayed', restart' = None,
         NEW b \in Nat \ {0}, HeadAt(HeadFor(Head(chan)), b)
  PROVE  /\ \E m \in Nat \ {0} :
              /\ m >= b /\ AtBlock(AfterHolCheck(HeadFor(Head(chan))), m)
              /\ \E k \in Nat \ {0} : k >= m /\ Reached(k)'
         /\ (decoded \subseteq Range(out) \cup Held(completed))'
<1> DEFINE p == Head(chan)
           n == HeadFor(p)
           r == AfterHolCheck(n)
           x == JoinedBlock(p)
<1>1. /\ Counting /\ RingInv /\ CountInv /\ SentInv /\ sent \in Nat
      /\ HoldsSent(blocks) /\ out \in Seq(1..(sent - 1)) /\ waits \in 0..MaxWaits /\ waits \in Nat
  BY BaseFacts, Bounds DEF SentInv, CountInv
<1>2. /\ p \in SentPackets /\ p.seq \in SeqNums /\ n \in SeqNums
      /\ IsSentRing(r)
      /\ Discards(p, r) \/ (Accepts(p, r) /\ (Joins(p, r) \/ Decodes(p, r)))
      /\ hol' = HolTimer(n)
      /\ hol_expired' = (hol_expired /\ hol' # None)
      /\ UNCHANGED <<network, sent, fec_block_seq, restart, net, waits>>
  BY <1>1, ReceiveCases
<1> HIDE DEF p, n
<1>3. restart = None /\ ~strayed
  <2>1. restart = None
    BY <1>2
  <2>2. ~strayed
    BY <1>2, Zenon DEF Discards, Accepts
  <2>3. QED
    BY <2>1, <2>2
<1>4. Ordinary
  BY <1>1, <1>3 DEF Ordinary, CountInv
<1>5. decoded \subseteq Range(out) \cup Held(completed)
  BY <1>3 DEF OrderInv
<1>6. /\ n = At(b)
      /\ b + (IF hol_expired THEN 1 ELSE 0) <= sent + waits
      /\ \A w \in Held(completed) : b < w /\ w < b + RingSize
      /\ \A i \in Filled(blocks) : \A q \in blocks[i].got : q.blk < b + RingSize
      /\ \A j \in DOMAIN out : out[j] < b
      /\ Stream!Increasing(out)
  BY DEF HeadAt, n, p
<1>7. /\ \E m \in Nat \ {0} : m >= b /\ AtBlock(r, m)
      /\ ~hol_expired'
      /\ Range(Shown(r)) \cup Held(r.completed) = Range(out) \cup Held(completed)
  BY <1>2, <1>4, <1>6, HolInOrder
<1>8. PICK m \in Nat \ {0} : m >= b /\ AtBlock(r, m)
  BY <1>7
<1>9. p.blk \in Int /\ b \in Int /\ m \in Int /\ p.seq = At(p.blk) /\ r.next = At(m)
  BY <1>2, <1>3, <1>8 DEF SentPackets, Packets, Blocks, AtBlock
<1>r. r = AfterHolCheck(HeadFor(Head(chan)))
  BY DEF n, p
<1> HIDE DEF r, x
\* It is enough to find the block the receiver lands at.
<1>10. ASSUME NEW s, NEW k \in Nat \ {0}, k >= m, AtBlock(s, k), Commit(s),
              \A i \in Filled(blocks') : \A q \in blocks'[i].got : q.blk < k + RingSize,
              decoded' \subseteq Range(Shown(s)) \cup Held(s.completed)
       PROVE  /\ \E i \in Nat \ {0} : i >= m /\ Reached(i)'
              /\ (decoded \subseteq Range(out) \cup Held(completed))'
  <2>1. Reached(k)'
    BY <1>1, <1>2, <1>7, <1>10, Lands
  <2>2. out' = Shown(s) /\ completed' = s.completed
    BY <1>10 DEF Commit, MoveHead, Shown
  <2>3. (decoded \subseteq Range(out) \cup Held(completed))'
    BY <1>10, <2>2 DEF Range, Held, Filled
  <2>4. QED
    BY <1>10, <2>1, <2>3
<1>m. m >= m
  BY <1>9
<1>13. SUFFICES /\ \E k \in Nat \ {0} : k >= m /\ Reached(k)'
                /\ (decoded \subseteq Range(out) \cup Held(completed))'
  BY <1>8, <1>r
<1>11. CASE Discards(p, r)
  <2>1. blocks' = blocks /\ decoded' = decoded /\ Commit(r)
    BY <1>11 DEF Discards
  <2>2. \A i \in Filled(blocks') : \A q \in blocks'[i].got : q.blk < m + RingSize
    <3>1. \A i \in Filled(blocks) : \A q \in blocks[i].got : q.blk \in Int
      BY <1>1 DEF HoldsSent, SentPackets, Packets, Blocks
    <3>2. QED
      BY <1>6, <1>8, <1>9, <2>1, <3>1, Moduli
  <2>3. QED
    BY <1>5, <1>7, <1>8, <1>10, <1>m, <2>1, <2>2
<1>12. CASE Accepts(p, r) /\ (Joins(p, r) \/ Decodes(p, r))
  <2>1. /\ m <= p.blk /\ p.blk < m + RingSize
        /\ p.seq = r.next <=> p.blk = m
    BY <1>1, <1>2, <1>4, <1>8, <1>12, AcceptedIsNear DEF Accepts
  <2>2. \A w \in Held(r.completed) : m < w /\ w < m + RingSize
    BY <1>8 DEF AtBlock
  <2>3. \A w \in Held(r.completed) : m <= w /\ w < m + RingSize
    <3>1. \A w \in Held(r.completed) : w \in Int
      BY <1>1, <1>2, BlockIsSent DEF Held, IsSentRing, IsRing
    <3>2. QED
      BY <1>9, <2>2, <3>1
  <2>4. /\ Evict(p.seq, r) = r
        /\ \A i \in Filled(r.completed) : i = Slot(p.seq) => BlkOf(r.completed[i]) = p.blk
    BY <1>2, <1>4, <1>9, <2>1, <2>3, NothingEvicted
  <2>5. IsSentBlock(x, p.seq)
        /\ x.got = {q \in Existing(p.seq).got : q.idx # p.idx} \cup {p}
        /\ \A q \in Existing(p.seq).got :
             \E i \in Filled(blocks) : i = Slot(p.seq) /\ blocks[i].seq = p.seq /\ q \in blocks[i].got
    BY <1>1, <1>2, JoinedIsSent DEF x
  <2>6. \A q \in x.got : q.blk < m + RingSize
    <3>1. \A i \in Filled(blocks) : \A q \in blocks[i].got : q.blk \in Int
      BY <1>1 DEF HoldsSent, SentPackets, Packets, Blocks
    <3>2. \A q \in x.got : q = p \/ \E i \in Filled(blocks) : q \in blocks[i].got
      BY <2>5
    <3>3. QED
      BY <1>6, <1>8, <1>9, <2>1, <3>1, <3>2, Moduli
  <2>7. ASSUME NEW y, PutPartial(p.seq, y), y = None \/ y = x
        PROVE  \A i \in Filled(blocks') : \A q \in blocks'[i].got : q.blk < m + RingSize
    BY <1>1, <1>2, <1>6, <1>8, <1>9, <2>6, <2>7, PutKeepsWindow
  <2>8. CASE Joins(p, r)
    <3>1. Commit(r) /\ PutPartial(p.seq, x) /\ decoded' = decoded
      BY <2>4, <2>8 DEF Joins, x
    <3>2. QED
      BY <1>5, <1>7, <1>8, <1>10, <1>m, <2>7, <3>1
  <2>9. CASE Decodes(p, r)
    <3> DEFINE s == Stored(x, r)
    <3>1. /\ IsSentRing(s) /\ s.next = r.next /\ s.out = r.out
          /\ Complete(x, r) = IF p.seq = r.next THEN drain_completed(s) ELSE s
      <4>1. IsSentBlock(x, p.seq) /\ IsSentRing(r) /\ p.seq \in SeqNums
        BY <1>2, <2>5
      <4>2. QED
        <5> DEFINE v == p.seq
        <5>1. IsSentBlock(x, v) /\ IsSentRing(r) /\ v \in SeqNums
          BY <4>1
        <5> HIDE DEF v, s
        <5>2. /\ IsSentRing(Stored(x, r)) /\ Stored(x, r).next = r.next /\ Stored(x, r).out = r.out
              /\ Complete(x, r) = IF v = r.next THEN drain_completed(Stored(x, r)) ELSE Stored(x, r)
          BY <5>1, StoredIsSent
        <5>3. QED
          BY <5>2 DEF v, s
    <3>2. p \in x.got
      BY <2>5
    <3>3. Held(s.completed) = Held(r.completed) \cup {p.blk}
      BY <1>2, <1>4, <2>4, <2>5, <3>2, StoredHolds
    <3> HIDE DEF s
    <3>4. Shown(s) = Shown(r)
      BY <3>1 DEF Shown
    <3>5. Commit(Complete(x, r)) /\ PutPartial(p.seq, None) /\ decoded' = decoded \cup {p.blk}
      BY <2>4, <2>9 DEF Decodes, x
    <3>6. \A i \in Filled(blocks') : \A q \in blocks'[i].got : q.blk < m + RingSize
      BY <2>7, <3>5
    <3>7. decoded' \subseteq Range(Shown(s)) \cup Held(s.completed)
      BY <1>5, <1>7, <3>3, <3>4, <3>5
    <3>8. \A w \in Held(s.completed) : m <= w /\ w < m + RingSize
      BY <2>1, <2>3, <3>3
    <3>9. s.next = At(m) /\ m <= sent + waits /\ Stream!Increasing(Shown(s))
          /\ \A j \in DOMAIN Shown(s) : Shown(s)[j] < m
      BY <1>8, <3>1, <3>4 DEF AtBlock
    <3>10. CASE p.seq = r.next
      <4> DEFINE d == drain_completed(s)
      <4>1. PICK k \in 0..RingSize : AtBlock(d, m + k)
        BY <1>1, <1>4, <3>1, <3>8, <3>9, DrainInOrder
      <4>2. Held(s.completed) \subseteq Range(Shown(d)) \cup Held(d.completed)
            /\ Range(Shown(s)) \subseteq Range(Shown(d))
        BY <1>1, <3>1, DrainMoves
      <4>3. Complete(x, r) = d
        BY <3>1, <3>10
      <4> HIDE DEF d
      <4>4. m + k \in Nat \ {0} /\ m + k >= m
        BY <4>1, Moduli
      <4>5. \A i \in Filled(blocks') : \A q \in blocks'[i].got : q.blk < (m + k) + RingSize
        <5>1. HoldsSent(blocks')
          BY <1>1, <1>2, <3>5, PutKeepsSent
        <5>2. \A i \in Filled(blocks') : \A q \in blocks'[i].got : q.blk \in Int
          BY <5>1 DEF HoldsSent, SentPackets, Packets, Blocks
        <5>3. QED
          BY <1>9, <3>6, <4>1, <4>4, <5>2, Moduli
      <4>6. decoded' \subseteq Range(Shown(d)) \cup Held(d.completed)
        BY <3>7, <4>2
      <4>7. QED
        BY <1>10, <3>5, <4>1, <4>3, <4>4, <4>5, <4>6
    <3>11. CASE p.seq # r.next
      <4>1. Complete(x, r) = s
        BY <3>1, <3>11
      <4>2. \A w \in Held(s.completed) : m < w /\ w < m + RingSize
        BY <1>9, <2>1, <2>2, <3>3, <3>11
      <4>3. AtBlock(s, m)
        BY <3>1, <3>9, <4>2 DEF AtBlock
      <4>4. QED
        BY <1>8, <1>10, <1>m, <3>5, <3>6, <3>7, <4>1, <4>3
    <3>12. QED
      BY <3>10, <3>11
  <2>10. QED
    BY <1>12, <2>8, <2>9
<1>14. QED
  BY <1>2, <1>11, <1>12

\* A packet that is handled leaves the receiver at a block, or strayed.
LEMMA ReceiveInOrder ==
  ASSUME BaseInv, OrderInv, Receive, ~strayed', restart' = None
  PROVE  OrderInv'
<1> DEFINE p == Head(chan)
           r == AfterHolCheck(HeadFor(p))
<1>1. /\ p \in SentPackets
      /\ Discards(p, r) \/ (Accepts(p, r) /\ (Joins(p, r) \/ Decodes(p, r)))
      /\ UNCHANGED <<network, sent, fec_block_seq, restart, net, waits>>
  BY BaseFacts, ReceiveCases
<1>2. restart = None /\ ~strayed
  <2> HIDE DEF p, r
  <2>1. restart = None
    BY <1>1
  <2>2. ~strayed
    BY <1>1, Zenon DEF Discards, Accepts
  <2>3. QED
    BY <2>1, <2>2
<1>3. PICK b \in Nat \ {0} : HeadAt(HeadFor(p), b)
  BY <1>1, <1>2, StartsInOrder
<1>4. /\ \E k \in Nat \ {0} : Reached(k)'
      /\ (decoded \subseteq Range(out) \cup Held(completed))'
  BY <1>3, ReceiveMovesOn
<1>5. QED
  BY <1>4 DEF OrderInv

\* The head stays within the blocks sent and the waits, when both move on.
LEMMA Further ==
  ASSUME NEW b \in Int, NEW e \in Int, NEW f \in Int, NEW s \in Int, NEW t \in Int,
         NEW w \in Int, NEW v \in Int, s <= t, f + w <= e + v, b + e <= s + w
  PROVE  b + f <= t + v
  OBVIOUS

\* A step that leaves the receiver's blocks alone.
LEMMA ReachedKept ==
  ASSUME BaseInv, sent' \in Nat, sent' >= sent, \A b \in Int : At(b)' = At(b),
         UNCHANGED <<blocks, completed, next_block, hist>>,
         \/ UNCHANGED <<hol_expired, waits>>
         \/ ~hol_expired /\ hol_expired' /\ waits' = waits + 1,
         NEW b \in Nat \ {0}, Reached(b)
  PROVE  Reached(b)'
<1>1. sent \in Nat /\ waits \in Nat
  BY BaseFacts, Bounds DEF CountInv
<1>2. (next_block = At(b))'
  BY DEF Reached
<1>3. (b + (IF hol_expired THEN 1 ELSE 0) <= sent + waits)'
  <2> DEFINE e == IF hol_expired THEN 1 ELSE 0
  <2>1. e \in Int /\ b + e <= sent + waits
    BY DEF Reached
  <2>2. e' \in Int /\ waits' \in Int /\ e' + waits <= e + waits'
    <3>1. CASE UNCHANGED <<hol_expired, waits>>
      BY <1>1, <3>1
    <3>2. CASE ~hol_expired /\ hol_expired' /\ waits' = waits + 1
      BY <1>1, <3>2
    <3>3. QED
      BY <3>1, <3>2
  <2> HIDE DEF e
  <2>3. b + e' <= sent' + waits'
    <3>1. b \in Int /\ sent \in Int /\ sent' \in Int /\ waits \in Int /\ sent <= sent'
      BY <1>1
    <3>2. QED
      BY <2>1, <2>2, <3>1, Further, Zenon
  <2>4. QED
    BY <2>3 DEF e
<1>4. (\A w \in Held(completed) : b < w /\ w < b + RingSize)'
  BY DEF Reached, Held, Filled
<1>5. (\A i \in Filled(blocks) : \A p \in blocks[i].got : p.blk < b + RingSize)'
  BY DEF Reached, Filled
<1>6. (\A j \in DOMAIN out : out[j] < b)' /\ Stream!Increasing(out)'
  BY DEF Reached, hist, Stream!Increasing
<1>7. QED
  BY <1>2, <1>3, <1>4, <1>5, <1>6 DEF Reached

\* Nor is the order of the blocks disturbed.
LEMMA OrderKept ==
  ASSUME BaseInv, OrderInv, restart' = None => restart = None,
         sent' \in Nat, sent' >= sent, \A b \in Int : At(b)' = At(b),
         UNCHANGED <<blocks, completed, next_block, hist>>,
         \/ UNCHANGED <<hol_expired, waits>>
         \/ ~hol_expired /\ hol_expired' /\ waits' = waits + 1
  PROVE  OrderInv'
<1>1. UNCHANGED <<Held(completed), Range(out), decoded, strayed>>
  BY DEF Held, Filled, Range, hist
<1>2. \A b \in Nat \ {0} : Reached(b) => Reached(b)'
  BY ReachedKept
<1>3. QED
  BY <1>1, <1>2 DEF OrderInv

\* OrderInv is inductive, given BaseInv: it holds at the start, and every step keeps it.
LEMMA InitOrder == Init => OrderInv
<1> SUFFICES ASSUME Init PROVE OrderInv
  OBVIOUS
<1>1. next_block = None /\ decoded = {}
  BY DEF Init
<1>2. QED
  BY <1>1 DEF OrderInv

\* The numbers of the blocks stay when the camera sends another.
LEMMA SendInOrder ==
  ASSUME BaseInv, OrderInv, SendBlock
  PROVE  OrderInv'
<1>1. Counting /\ fec_block_seq' = Succ(fec_block_seq) /\ sent' = sent + 1 /\ sent \in Nat
  BY BaseFacts DEF SendBlock
<1>2. \A b \in Int : At(b)' = At(b)
  BY <1>1, AtStays
<1>3. UNCHANGED <<restart, blocks, completed, next_block, hist, hol_expired, waits>>
  BY DEF SendBlock
<1>4. QED
  BY <1>1, <1>2, <1>3, OrderKept

\* Only the idle visit moves the head, and it counts as straying.
LEMMA OthersInOrder ==
  ASSUME BaseInv, OrderInv,
         \/ \E p \in net : Deliver(p)
         \/ HolTimerExpires \/ DecodeTimerExpires
         \/ IdleVisit
         \/ UNCHANGED vars
  PROVE  OrderInv'
<1>1. sent \in Nat
  BY BaseFacts
<1>2. UNCHANGED <<sent, fec_block_seq, restart>>
  BY DEF Deliver, HolTimerExpires, DecodeTimerExpires, IdleVisit, MoveHead, vars, env
<1>3. \A b \in Int : At(b)' = At(b)
  BY <1>2 DEF At
<1>4. \/ strayed'
      \/ /\ UNCHANGED <<blocks, completed, next_block, hist>>
         /\ \/ UNCHANGED <<hol_expired, waits>>
            \/ ~hol_expired /\ hol_expired' /\ waits' = waits + 1
  <2>1. CASE IdleVisit
    BY <2>1 DEF IdleVisit, MoveHead, hist
  <2>2. CASE ~IdleVisit
    BY <2>2 DEF Deliver, HolTimerExpires, DecodeTimerExpires, vars, hist
  <2>3. QED
    BY <2>1, <2>2
<1>5. CASE strayed'
  BY <1>5 DEF OrderInv
<1>6. CASE ~strayed'
  BY <1>1, <1>2, <1>3, <1>4, <1>6, OrderKept
<1>7. QED
  BY <1>5, <1>6

\* After a restart OrderInv says nothing, before it every step keeps it.
LEMMA NextOrder == BaseInv /\ OrderInv /\ [Next]_vars => OrderInv'
<1> SUFFICES ASSUME BaseInv, OrderInv, [Next]_vars PROVE OrderInv'
  OBVIOUS
<1>1. CASE SendBlock
  BY <1>1, SendInOrder
<1>2. CASE RestartCamera
  <2>1. restart' # None
    <3>1. restart' \in Restarts
      BY <1>2, BaseFacts DEF RestartCamera, Restarts, RingInv
    <3>2. QED
      BY <3>1, NoneAssumption
  <2>2. QED
    BY <2>1 DEF OrderInv
<1>3. CASE Receive
  <2>1. CASE ~strayed' /\ restart' = None
    BY <1>3, <2>1, ReceiveInOrder
  <2>2. CASE ~(~strayed' /\ restart' = None)
    BY <2>2 DEF OrderInv
  <2>3. QED
    BY <2>1, <2>2
<1>4. CASE (\E p \in net : Deliver(p)) \/ Timers \/ IdleVisit \/ UNCHANGED vars
  BY <1>4, OthersInOrder DEF Timers
<1>5. QED
  BY <1>1, <1>2, <1>3, <1>4 DEF Next, Sender, Receiver

\* The inductive invariant: what the receiver holds was sent, and as long as it neither
\* strayed nor saw a restart, next_block stands for a block of the camera, at most the
\* expired waits ahead of it, with all that was handed on before it and all that is held
\* behind it and within one ring.
THEOREM OrderInvariant == Spec => [](BaseInv /\ OrderInv)
<1>1. Init => BaseInv /\ OrderInv
  BY InitBase, InitOrder
<1>2. (BaseInv /\ OrderInv) /\ [Next]_vars => (BaseInv /\ OrderInv)'
  BY NextBase, NextOrder
<1>3. QED
  BY <1>1, <1>2, PTL DEF Spec

\* The eviction of a decoded block from its slot never hits one that still waits for its
\* turn: every decoded block was handed to emit_block or is still in completed, unless the
\* receiver strayed or the camera was restarted.
THEOREM DecodedIsKeptTheorem == Spec => []DecodedIsKeptUnlessStrayed
<1>1. BaseInv /\ OrderInv => DecodedIsKeptUnlessStrayed
  <2> SUFFICES ASSUME BaseInv, OrderInv, ~strayed, restart = None, NEW b \in decoded
               PROVE  \/ \E j \in DOMAIN out : out[j] = b
                      \/ \E i \in Filled(completed) : BlkOf(completed[i]) = b
    BY DEF DecodedIsKeptUnlessStrayed
  <2>1. b \in Range(out) \cup Held(completed)
    BY DEF OrderInv
  <2>2. QED
    BY <2>1 DEF Range, Held
<1>2. QED
  BY <1>1, OrderInvariant, PTL

-----------------------------------------------------------------------------
\* The types of what BaseInv does not speak of.
TypeInv ==
  /\ network \in Networks
  /\ restart \in Restarts \cup {None}
  /\ Len(chan) <= ChanCap
  /\ blocked \in BOOLEAN
  /\ hol \in SeqNums \cup {None}
  /\ decode_stale \in BOOLEAN
  /\ strayed \in BOOLEAN
  /\ moved \in 0..SeqMod

\* How far the receiver moved is a number, and it never moves back.
LEMMA MovedType ==
  ASSUME moved \in 0..SeqMod, next_block \in SeqNums \cup {None}, NEW n \in SeqNums
  PROVE  MovedTo(n) \in 0..SeqMod /\ MovedTo(n) >= moved
<1> DEFINE d == Dist(n, next_block)
<1>1. ASSUME next_block # None
      PROVE  d \in Nat
  <2>1. next_block \in Int /\ n \in Int
    BY <1>1 DEF SeqNums
  <2>2. QED
    BY <2>1, Moduli DEF Dist
<1>2. \/ MovedTo(n) = moved
      \/ next_block # None /\ MovedTo(n) = IF moved + d < SeqMod THEN moved + d ELSE SeqMod
  BY DEF MovedTo
<1> HIDE DEF d
<1>3. QED
  BY <1>1, <1>2, Moduli

\* The types are inductive, given BaseInv.
\* A packet leaves the head at a sequence number.
LEMMA ReceiveMovesHead ==
  ASSUME BaseInv, Receive
  PROVE  next_block' \in SeqNums
<1> DEFINE p == Head(chan)
           r == AfterHolCheck(HeadFor(p))
           b == JoinedBlock(p)
           e == Evict(p.seq, r)
<1>1. Counting /\ RingInv /\ SentInv
  BY BaseFacts
<1>2. /\ p \in SentPackets /\ p.seq \in SeqNums /\ IsSentRing(r)
      /\ Discards(p, r) \/ (Accepts(p, r) /\ (Joins(p, r) \/ Decodes(p, r)))
  BY <1>1, ReceiveCases
<1> HIDE DEF p, r
<1>3. IsSentRing(e)
  BY <1>2, EvictIsSent
<1>4. IsSentBlock(b, p.seq)
  BY <1>1, <1>2, JoinedIsSent DEF SentInv
<1> HIDE DEF b, e
<1>5. IsSentRing(Complete(b, e))
  BY <1>1, <1>2, <1>3, <1>4, CompleteIsSent
<1>6. \E t : Commit(t) /\ (t = r \/ t = e \/ t = Complete(b, e))
  BY <1>2 DEF Discards, Joins, Decodes, b, e
<1>7. PICK t : Commit(t) /\ IsSentRing(t)
  BY <1>2, <1>3, <1>5, <1>6
<1>8. QED
  BY <1>7 DEF Commit, MoveHead, IsSentRing, IsRing

LEMMA NextType == BaseInv /\ TypeInv /\ [Next]_vars => TypeInv'
<1> SUFFICES ASSUME BaseInv, TypeInv, [Next]_vars PROVE TypeInv'
  OBVIOUS
<1>1. RingInv /\ SentInv /\ sent \in Nat /\ chan \in Seq(Packets)
  BY BaseFacts DEF RingInv
<1>2. CASE SendBlock \/ HolTimerExpires \/ DecodeTimerExpires \/ UNCHANGED vars
  BY <1>2 DEF SendBlock, HolTimerExpires, DecodeTimerExpires, vars, env, hist, TypeInv
<1>3. CASE RestartCamera
  <2>1. restart' \in Restarts
    BY <1>1, <1>3 DEF RestartCamera, Restarts, RingInv
  <2>2. QED
    BY <1>3, <2>1 DEF RestartCamera, hist, TypeInv
<1>4. ASSUME NEW p \in net, Deliver(p)
      PROVE  TypeInv'
  <2>1. Len(chan') <= ChanCap
    <3>1. CASE Len(chan) < ChanCap
      <4>1. chan' = Append(chan, p)
        BY <1>4, <3>1 DEF Deliver
      <4>2. Len(chan') = Len(chan) + 1 /\ Len(chan) \in Nat
        BY <1>1, <4>1, AppendProperties DEF RingInv
      <4>3. QED
        BY <3>1, <4>2, RingAssumption
    <3>2. CASE ~(Len(chan) < ChanCap)
      BY <1>4, <3>2 DEF Deliver, TypeInv
    <3>3. QED
      BY <3>1, <3>2
  <2>2. UNCHANGED <<network, restart, blocked, hol, decode_stale, strayed, moved>>
    BY <1>4 DEF Deliver, hist
  <2>3. QED
    BY <2>1, <2>2 DEF TypeInv
<1>5. CASE Receive
  <2> DEFINE p == Head(chan)
             n == HeadFor(p)
             r == AfterHolCheck(n)
  <2>1. /\ n \in SeqNums
        /\ Discards(p, r) \/ (Accepts(p, r) /\ (Joins(p, r) \/ Decodes(p, r)))
        /\ hol' = HolTimer(n)
        /\ chan' = Tail(chan)
        /\ UNCHANGED <<network, sent, fec_block_seq, restart, net, waits>>
    BY <1>1, <1>5, ReceiveCases
  <2>2. Len(chan') <= ChanCap
    <3>1. chan # <<>>
      BY <1>5 DEF Receive
    <3>2. Len(chan') = Len(chan) - 1 /\ Len(chan) \in Nat
      BY <1>1, <2>1, <3>1, HeadTailProperties
    <3>3. QED
      BY <3>2, RingAssumption DEF TypeInv
  <2>3. hol' \in SeqNums \cup {None}
    BY <2>1 DEF HolTimer, TypeInv
  <2> HIDE DEF p, n, r
  <2>4. ASSUME NEW s, Commit(s)
        PROVE  decode_stale' \in BOOLEAN
    BY <2>4 DEF Commit, MoveHead
  <2>5. decode_stale' \in BOOLEAN
    BY <2>1, <2>4 DEF Discards, Joins, Decodes
  <2>6. strayed' \in BOOLEAN
    BY <2>1 DEF Discards, Accepts, TypeInv
  <2>7. blocked' = FALSE
    BY <1>5 DEF Receive
  <2>8. moved' \in 0..SeqMod
    <3>1. next_block' \in SeqNums
      BY <1>1, <1>5, ReceiveMovesHead
    <3>2. moved' = MovedTo(next_block')
      BY <2>1 DEF Discards, Joins, Decodes, Commit, MoveHead
    <3>3. QED
      BY <1>1, <3>1, <3>2, MovedType DEF TypeInv, RingInv
  <2>9. QED
    BY <2>1, <2>2, <2>3, <2>5, <2>6, <2>7, <2>8 DEF TypeInv
<1>6. CASE IdleVisit
  <2>1. moved' \in 0..SeqMod
    <3>1. CASE next_block # None /\ decode_stale
      <4>1. next_block \in SeqNums /\ Succ(next_block) \in SeqNums
        BY <1>1, <3>1, SuccIsSeqNum DEF RingInv
      <4>2. moved' = MovedTo(Succ(next_block))
        BY <1>6, <3>1 DEF IdleVisit, MoveHead
      <4>3. QED
        BY <4>1, <4>2, MovedType DEF TypeInv
    <3>2. CASE ~(next_block # None /\ decode_stale)
      BY <1>6, <3>2 DEF IdleVisit, TypeInv
    <3>3. QED
      BY <3>1, <3>2
  <2>2. QED
    BY <1>6, <2>1 DEF IdleVisit, env, TypeInv
<1>7. QED
  BY <1>2, <1>3, <1>4, <1>5, <1>6 DEF Next, Sender, Timers, Receiver

\* Every variable of the receiver keeps its type: the channel never exceeds its capacity,
\* and the sequence numbers and slots never leave their range.
THEOREM TypeCorrect == Spec => []TypeOK
<1>1. Init => BaseInv /\ TypeInv
  <2>1. Init => TypeInv
    <3> SUFFICES ASSUME Init PROVE TypeInv
      OBVIOUS
    <3>1. Len(chan) <= ChanCap
      BY RingAssumption DEF Init
    <3>2. 0 \in 0..SeqMod
      BY Moduli
    <3>3. QED
      BY <3>1, <3>2 DEF Init, TypeInv
  <2>2. QED
    BY <2>1, InitBase
<1>2. (BaseInv /\ TypeInv) /\ [Next]_vars => (BaseInv /\ TypeInv)'
  BY NextBase, NextType
<1>3. BaseInv /\ TypeInv => TypeOK
  <2> SUFFICES ASSUME BaseInv, TypeInv PROVE TypeOK
    OBVIOUS
  <2>1. RingInv /\ CountInv /\ SentInv /\ sent \in Nat
    BY BaseFacts
  <2>2. 1..(sent - 1) \subseteq Blocks
    <3>1. sent - 1 <= LastBlock + 1
      BY <2>1, Bounds DEF CountInv
    <3>2. QED
      BY <2>1, <3>1, Bounds DEF Blocks
  <2>3. out \in Seq(Blocks) /\ decoded \subseteq Blocks
    BY <2>1, <2>2, SeqMonotonic DEF SentInv
  <2>4. /\ blocks \in [Slots -> PartialBlock \cup {None}]
        /\ completed \in [Slots -> CompletedBlock \cup {None}]
    BY <2>1 DEF RingInv, RingOf
  <2>5. QED
    BY <2>1, <2>3, <2>4 DEF TypeOK, TypeInv, CountInv, RingInv
<1>4. QED
  BY <1>1, <1>2, <1>3, PTL DEF Spec

-----------------------------------------------------------------------------
\* Two sequences without repetitions and without a common element.
LEMMA DistinctRun ==
  ASSUME NEW S, NEW s \in Seq(S), NEW t \in Seq(S),
         Stream!Distinct(s), Stream!Distinct(t), Range(s) \cap Range(t) = {}
  PROVE  Stream!Distinct(s \o t)
<1>1. /\ DOMAIN (s \o t) = 1..(Len(s) + Len(t))
      /\ DOMAIN s = 1..Len(s) /\ Len(s) \in Nat
      /\ DOMAIN t = 1..Len(t) /\ Len(t) \in Nat
      /\ \A j \in 1..(Len(s) + Len(t)) : (s \o t)[j] = IF j <= Len(s) THEN s[j] ELSE t[j - Len(s)]
  BY ConcatProperties
<1> DEFINE u == s \o t
           m == Len(s)
<1>2. \A j \in DOMAIN u :
        \/ j \in DOMAIN s /\ u[j] = s[j]
        \/ j - m \in DOMAIN t /\ u[j] = t[j - m]
  BY <1>1
<1>3. \A j \in DOMAIN u : j \in Int /\ m \in Int
  BY <1>1
<1> HIDE DEF u, m
<1>4. \A i, j \in DOMAIN u : u[i] = u[j] => i = j
  <2> SUFFICES ASSUME NEW i \in DOMAIN u, NEW j \in DOMAIN u, u[i] = u[j]
               PROVE  i = j
    OBVIOUS
  <2>1. \A x \in DOMAIN s, y \in DOMAIN t : s[x] # t[y]
    BY DEF Range
  <2>2. CASE i \in DOMAIN s /\ u[i] = s[i] /\ j \in DOMAIN s /\ u[j] = s[j]
    BY <2>2 DEF Stream!Distinct
  <2>3. CASE i - m \in DOMAIN t /\ u[i] = t[i - m] /\ j - m \in DOMAIN t /\ u[j] = t[j - m]
    <3>1. i - m = j - m
      BY <2>3 DEF Stream!Distinct
    <3>2. QED
      BY <1>3, <3>1
  <2>4. QED
    BY <1>2, <2>1, <2>2, <2>3
<1>5. QED
  BY <1>4 DEF Stream!Distinct, u

\* With the effect r nothing is handed on twice, and only blocks of D are held or
\* handed on.
Once(r, D) ==
  /\ IsSentRing(r)
  /\ Stream!Distinct(Shown(r))
  /\ Range(Shown(r)) \cap Held(r.completed) = {}
  /\ Range(Shown(r)) \cup Held(r.completed) \subseteq D

\* drain_completed hands on what it takes from the ring, and nothing twice.
LEMMA DrainOnce ==
  ASSUME Ordinary, out \in Seq(1..(sent - 1)), NEW r, NEW D, Once(r, D)
  PROVE  Once(drain_completed(r), D)
<1> DEFINE c == r.completed
           n == r.next
           d == drain_completed(r)
           S == 1..(sent - 1)
<1>0. Counting /\ IsSentRing(r) /\ n \in SeqNums /\ n \in Int /\ RingOf(c, CompletedBlock)
      /\ HoldsSent(c)
  BY DEF Ordinary, Once, IsSentRing, IsRing, SeqNums
<1>1. PICK k \in 0..RingSize :
        /\ d.out = r.out \o [j \in 1..k |-> BlkOf(c[Slot(n + (j - 1))])]
        /\ d.completed = [i \in Slots |->
             IF i \in {Slot(n + j) : j \in 0..(k - 1)} THEN None ELSE c[i]]
        /\ \A j \in 0..(k - 1) : Slot(n + j) \in Filled(c)
  BY <1>0, DrainEffect
<1>2. IsSentRing(d)
  BY <1>0, DrainEffect
<1> HIDE DEF d
<1> DEFINE h == [j \in 1..k |-> BlkOf(c[Slot(n + (j - 1))])]
<1>3. k \in Nat /\ (\A j \in 1..k : j - 1 \in 0..(k - 1) /\ j - 1 \in 0..(RingSize - 1))
  BY <1>1, Moduli
<1>4. \A i \in Filled(c) : BlkOf(c[i]) \in S /\ i = Slot(At(BlkOf(c[i])))
  BY <1>0, BlockIsSent DEF Ordinary
<1>5. h \in [1..k -> S]
  BY <1>1, <1>3, <1>4
<1>6. \A j \in 1..k : /\ Slot(n + (j - 1)) \in Filled(c)
                      /\ h[j] = BlkOf(c[Slot(n + (j - 1))])
                      /\ Slot(n + (j - 1)) \in {Slot(n + i) : i \in 0..(k - 1)}
  BY <1>1, <1>3
<1>7. \A i, j \in 1..k : Slot(n + (i - 1)) = Slot(n + (j - 1)) => i = j
  <2> SUFFICES ASSUME NEW i \in 1..k, NEW j \in 1..k, Slot(n + (i - 1)) = Slot(n + (j - 1))
               PROVE  i = j
    OBVIOUS
  <2>1. (Slot(n + (i - 1)) - n) % RingSize = i - 1 /\ (Slot(n + (j - 1)) - n) % RingSize = j - 1
    BY <1>0, <1>3, SlotSteps
  <2>2. i - 1 = j - 1
    BY <2>1, Zenon
  <2>3. QED
    BY <1>3, <2>2
<1>8. d.out = r.out \o h
  BY <1>1
<1> HIDE DEF h, S
<1>9. h \in Seq(S) /\ Range(h) = {h[j] : j \in 1..k} /\ DOMAIN h = 1..k
  BY <1>3, <1>5, FunIsSeq
<1>10. r.out \in Seq(S) /\ out \in Seq(S)
  BY <1>0 DEF IsSentRing, S
<1>11. r.out \o h \in Seq(S) /\ Shown(r) \in Seq(S)
  BY <1>9, <1>10, BlockSeqs DEF Shown, S
<1>12. Shown(d) = Shown(r) \o h
  <2>1. out \o (r.out \o h) = (out \o r.out) \o h
    BY <1>9, <1>10, BlockSeqs, Zenon DEF S
  <2>2. QED
    BY <1>8, <2>1 DEF Shown
<1>13. Range(Shown(d)) = Range(Shown(r)) \cup Range(h)
  BY <1>9, <1>11, <1>12, BlockSeqs, Zenon DEF S
<1>14. Range(h) \subseteq Held(c)
  BY <1>6, <1>9 DEF Held
<1>15. Stream!Distinct(h)
  <2>1. \A i, j \in 1..k : h[i] = h[j] => i = j
    BY <1>4, <1>6, <1>7
  <2>2. QED
    BY <1>9, <2>1 DEF Stream!Distinct
<1>16. ASSUME NEW i \in Filled(d.completed)
       PROVE  /\ i \in Filled(c) /\ d.completed[i] = c[i]
              /\ i \notin {Slot(n + j) : j \in 0..(k - 1)}
  BY <1>1 DEF Filled
<1>17. Held(d.completed) \subseteq Held(c)
  BY <1>16 DEF Held
<1>18. ASSUME NEW w, w \in Range(h), w \in Held(d.completed)
       PROVE  FALSE
  <2>1. PICK j \in 1..k : w = h[j]
    BY <1>9, <1>18
  <2>2. PICK i \in Filled(d.completed) : w = BlkOf(d.completed[i])
    BY <1>18 DEF Held
  <2>3. i = Slot(n + (j - 1))
    <3> DEFINE y == Slot(n + (j - 1))
    <3>1. y \in Filled(c) /\ w = BlkOf(c[y])
      BY <1>6, <2>1
    <3>2. i \in Filled(c) /\ w = BlkOf(c[i])
      BY <1>16, <2>2
    <3> HIDE DEF y, c
    <3>3. y = Slot(At(w)) /\ i = Slot(At(w))
      BY <1>4, <3>1, <3>2
    <3>4. QED
      BY <3>3 DEF y
  <2>4. QED
    BY <1>6, <1>16, <2>3
<1>19. Stream!Distinct(Shown(r)) /\ Range(Shown(r)) \cap Held(c) = {}
       /\ Range(Shown(r)) \cup Held(c) \subseteq D
  BY DEF Once
<1> HIDE DEF c, n
<1>20. Stream!Distinct(Shown(d))
  <2>1. Range(Shown(r)) \cap Range(h) = {}
    BY <1>14, <1>19
  <2>2. QED
    BY <1>9, <1>11, <1>12, <1>15, <1>19, <2>1, DistinctRun
<1>21. QED
  BY <1>2, <1>13, <1>14, <1>17, <1>18, <1>19, <1>20 DEF Once, d

\* Emptying a slot, and filling one with a block that was not decoded before.
LEMMA EvictOnce ==
  ASSUME NEW r, NEW D, Once(r, D), NEW seq \in SeqNums
  PROVE  Once(Evict(seq, r), D)
<1> DEFINE e == Evict(seq, r)
<1>1. IsSentRing(r) /\ IsSentRing(e) /\ e.out = r.out
  BY EvictIsSent DEF Once
<1>2. r = [next |-> r.next, completed |-> r.completed, out |-> r.out, fresh |-> r.fresh]
      /\ r.completed \in [Slots -> CompletedBlock \cup {None}] /\ Slot(seq) \in Slots
  BY <1>1, SlotInRing DEF IsSentRing, IsRing, RingOf
<1>3. e.completed = r.completed \/ e.completed = [r.completed EXCEPT ![Slot(seq)] = None]
  BY <1>2 DEF Evict
<1> HIDE DEF e
<1>4. \A i \in Filled(e.completed) : i \in Filled(r.completed) /\ e.completed[i] = r.completed[i]
  BY <1>2, <1>3 DEF Filled
<1>5. Held(e.completed) \subseteq Held(r.completed)
  BY <1>4 DEF Held
<1>6. Shown(e) = Shown(r)
  BY <1>1 DEF Shown
<1>7. QED
  BY <1>1, <1>5, <1>6 DEF Once, e

\* A block that was not decoded before is stored once.
LEMMA StoredOnce ==
  ASSUME Ordinary, NEW r, NEW D, Once(r, D), NEW p \in SentPackets, NEW b,
         IsSentBlock(b, p.seq), p \in b.got, p.blk \notin D
  PROVE  Once(Stored(b, r), D \cup {p.blk})
<1> DEFINE s == Stored(b, r)
           x == Slot(p.seq)
           v == [seq |-> p.seq, got |-> b.got]
<1>1. p.seq \in SeqNums /\ IsSentRing(r) /\ IsSentBlock(b, p.seq) /\ x \in Slots
  BY PacketSeqNum, SlotInRing DEF SentPackets, Once
<1>2. /\ IsSentRing(s) /\ s.out = r.out
      /\ s.completed = [r.completed EXCEPT ![x] = v]
  BY <1>1, StoredIsSent
<1>3. DOMAIN r.completed = Slots /\ RingOf(s.completed, CompletedBlock) /\ HoldsSent(s.completed)
  BY <1>1, <1>2 DEF IsSentRing, IsRing, RingOf
<1>4. p \in v.got
  OBVIOUS
<1> HIDE DEF s, v, x
<1>5. \A i \in Filled(s.completed) :
        \/ i = x /\ s.completed[i] = v
        \/ i \in Filled(r.completed) /\ s.completed[i] = r.completed[i]
  BY <1>1, <1>2, <1>3 DEF Filled
<1>6. \A i \in Filled(s.completed) : s.completed[i] = v => BlkOf(s.completed[i]) = p.blk
  <2> SUFFICES ASSUME NEW i \in Filled(s.completed), s.completed[i] = v
               PROVE  BlkOf(s.completed[i]) = p.blk
    OBVIOUS
  <2>1. \A q \in s.completed[i].got : q.blk = BlkOf(s.completed[i])
    BY <1>3, BlockIsSent DEF Ordinary
  <2>2. QED
    BY <1>4, <2>1
<1>7. Held(s.completed) \subseteq Held(r.completed) \cup {p.blk}
  BY <1>5, <1>6 DEF Held
<1>8. Shown(s) = Shown(r)
  BY <1>2 DEF Shown
<1>9. QED
  BY <1>2, <1>7, <1>8 DEF Once, s

-----------------------------------------------------------------------------
\* Shards that can still be received, or are kept in partial blocks.
InBlocks == UNION {blocks[i].got : i \in Filled(blocks)}
Live     == net \cup Range(chan) \cup InBlocks

\* A shard is in one place.
Apart ==
  /\ Stream!Distinct(chan)
  /\ net \cap Range(chan) = {}
  /\ (net \cup Range(chan)) \cap InBlocks = {}

\* DataShards of block b are gone: too few remain to decode it again.
Gone(b) ==
  \E G \in SUBSET Shards :
    /\ Cardinality(G) >= DataShards
    /\ \A p \in Live : p.blk = b => p.idx \notin G

\* What was decoded is held or was handed on, once.
OnceOut ==
  /\ Stream!Distinct(out)
  /\ Range(out) \cap Held(completed) = {}
  /\ Range(out) \cup Held(completed) \subseteq decoded

\* Where no shard comes twice, no block does.
Single == {"duplication", "restart"} \cap network = {}
OnceInv == Single => Apart /\ OnceOut /\ \A b \in decoded : Gone(b)

\* Taking the head of a sequence without repetitions ...
LEMMA HeadOnce ==
  ASSUME NEW S, NEW s \in Seq(S), s # <<>>, Stream!Distinct(s)
  PROVE  /\ Stream!Distinct(Tail(s))
         /\ Head(s) \in Range(s) /\ Head(s) \notin Range(Tail(s))
         /\ Range(Tail(s)) \subseteq Range(s)
<1> DEFINE t == Tail(s)
           m == Len(s)
<1>1. /\ t \in Seq(S) /\ Len(t) = m - 1 /\ m \in Nat /\ m > 0
      /\ DOMAIN t = 1..(m - 1) /\ DOMAIN s = 1..m
      /\ Head(s) = s[1]
      /\ \A j \in 1..(m - 1) : t[j] = s[j + 1]
  BY HeadTailProperties, EmptySeq
<1> HIDE DEF t, m
<1>2. \A j \in DOMAIN t : j \in Int /\ j + 1 \in DOMAIN s /\ t[j] = s[j + 1] /\ 1 # j + 1
  BY <1>1
<1>3. 1 \in DOMAIN s
  BY <1>1
<1>4. Stream!Distinct(t)
  <2> SUFFICES ASSUME NEW i \in DOMAIN t, NEW j \in DOMAIN t, t[i] = t[j]
               PROVE  i = j
    BY DEF Stream!Distinct
  <2>1. i + 1 = j + 1
    BY <1>2 DEF Stream!Distinct
  <2>2. QED
    BY <1>2, <2>1
<1>5. Head(s) \notin Range(t)
  <2> SUFFICES ASSUME NEW j \in DOMAIN t, t[j] = s[1]
               PROVE  FALSE
    BY <1>1 DEF Range
  <2>1. 1 = j + 1
    BY <1>2, <1>3 DEF Stream!Distinct
  <2>2. QED
    BY <1>2, <2>1
<1>6. QED
  BY <1>1, <1>2, <1>3, <1>4, <1>5 DEF Range, t

\* ... and appending a new element to it.
LEMMA AppendOnce ==
  ASSUME NEW S, NEW s \in Seq(S), NEW p \in S, Stream!Distinct(s), p \notin Range(s)
  PROVE  /\ Stream!Distinct(Append(s, p))
         /\ Range(Append(s, p)) = Range(s) \cup {p}
<1> DEFINE t == Append(s, p)
           m == Len(s)
<1>1. /\ m \in Nat /\ DOMAIN s = 1..m /\ DOMAIN t = 1..(m + 1)
      /\ \A j \in 1..m : t[j] = s[j]
      /\ t[m + 1] = p
  BY AppendProperties
<1> HIDE DEF t, m
<1>2. \A j \in DOMAIN t : (j \in DOMAIN s /\ t[j] = s[j]) \/ (j = m + 1 /\ t[j] = p)
  BY <1>1
<1>3. \A j \in DOMAIN s : s[j] # p
  BY DEF Range
<1>4. Stream!Distinct(t)
  BY <1>2, <1>3 DEF Stream!Distinct
<1>5. Range(t) = Range(s) \cup {p}
  <2>1. m + 1 \in DOMAIN t /\ \A j \in DOMAIN s : j \in DOMAIN t
    BY <1>1
  <2>2. QED
    BY <1>1, <1>2, <2>1 DEF Range
<1>6. QED
  BY <1>4, <1>5 DEF t

\* Until a restart the sequence number names the block.
LEMMA SameBlock ==
  ASSUME Ordinary, NEW p \in SentPackets, NEW q \in SentPackets, p.seq = q.seq
  PROVE  p.blk = q.blk
<1>1. p.blk \in 1..(sent - 1) /\ q.blk \in 1..(sent - 1) /\ sent \in Nat
      /\ At(p.blk) = At(q.blk) /\ Counting /\ sent <= LastBlock + 1
  BY DEF Ordinary, Counting, SentPackets, Packets, Blocks
<1>2. sent <= SeqMod + 1
  BY <1>1, Bounds, Moduli
<1>3. p.blk \in Int /\ q.blk \in Int /\ p.blk - q.blk < SeqMod /\ q.blk - p.blk < SeqMod
  <2> DEFINE x == p.blk
             y == q.blk
  <2>1. x \in 1..(sent - 1) /\ y \in 1..(sent - 1) /\ sent \in Nat
    BY <1>1
  <2> HIDE DEF x, y
  <2>2. x \in Int /\ y \in Int /\ x - y < SeqMod /\ y - x < SeqMod
    BY <1>2, <2>1, Moduli
  <2>3. QED
    BY <2>2 DEF x, y
<1>4. QED
  BY <1>1, <1>3, AtSame

\* A block that is gone is not decoded again.
LEMMA GoneIsNotDecoded ==
  ASSUME Ordinary, RingInv, HoldsSent(blocks), NEW p \in SentPackets, p \in Range(chan),
         CanReconstruct(JoinedBlock(p))
  PROVE  ~Gone(p.blk)
<1> DEFINE b == JoinedBlock(p)
           I == Indices(b)
<1>1. SUFFICES ASSUME NEW G \in SUBSET Shards, Cardinality(G) >= DataShards,
                      \A q \in Live : q.blk = p.blk => q.idx \notin G
               PROVE  FALSE
  BY DEF Gone
<1>2. /\ IsSentBlock(b, p.seq)
      /\ b.got = {q \in Existing(p.seq).got : q.idx # p.idx} \cup {p}
      /\ \A q \in Existing(p.seq).got : \E i \in Filled(blocks) : q \in blocks[i].got
  BY JoinedIsSent
<1>3. \A q \in b.got : q \in SentPackets /\ q \in Packets /\ q.seq = p.seq /\ q \in Live
  BY <1>2 DEF IsSentBlock, IsBlock, SentPackets, Live, InBlocks
<1>4. \A q \in b.got : q.blk = p.blk /\ q.idx \in Shards /\ q.idx \notin G
  BY <1>1, <1>3, SameBlock DEF Packets
<1>5. I \subseteq Shards /\ I \cap G = {} /\ Cardinality(I) >= DataShards
  BY <1>4 DEF Indices, CanReconstruct
<1> HIDE DEF b, I
<1>6. IsFiniteSet(Shards) /\ Cardinality(Shards) = TotalShards
  <2>1. TotalShards \in Nat /\ TotalShards - 1 \in Int /\ 0 \in Int
    BY Bounds
  <2>2. IsFiniteSet(0..(TotalShards - 1))
        /\ Cardinality(0..(TotalShards - 1))
             = IF 0 > TotalShards - 1 THEN 0 ELSE (TotalShards - 1) - 0 + 1
    BY <2>1, FS_Interval, Zenon
  <2>3. QED
    BY <2>1, <2>2 DEF Shards
<1>7. IsFiniteSet(I) /\ IsFiniteSet(G)
  BY <1>5, <1>6, FS_Subset
<1>8. /\ Cardinality(I \cup G) = Cardinality(I) + Cardinality(G) - Cardinality(I \cap G)
      /\ Cardinality(I \cap G) = 0
      /\ Cardinality(I) \in Nat /\ Cardinality(G) \in Nat
  BY <1>5, <1>7, FS_Union, FS_EmptySet, FS_CardinalityType
<1>9. Cardinality(I \cup G) <= Cardinality(Shards)
  <2>1. I \cup G \subseteq Shards
    BY <1>5
  <2>2. QED
    BY <1>6, <2>1, FS_Subset
<1>10. QED
  BY <1>1, <1>5, <1>6, <1>8, <1>9, RingAssumption

\* Blocks stay gone when no shard of them appears.
LEMMA GoneStays ==
  ASSUME NEW b, Gone(b), \A p \in Live' : p \in Live \/ p.blk # b
  PROVE  Gone(b)'
<1>1. PICK G \in SUBSET Shards :
        /\ Cardinality(G) >= DataShards
        /\ \A p \in Live : p.blk = b => p.idx \notin G
  BY DEF Gone
<1>2. \A p \in Live' : p.blk = b => p.idx \notin G
  BY <1>1
<1>3. QED
  BY <1>1, <1>2 DEF Gone

\* The shards of a slot are replaced.
LEMMA PutMoves ==
  ASSUME RingInv, NEW seq \in SeqNums, NEW b, PutPartial(seq, b)
  PROVE  \A q \in InBlocks' : \/ b # None /\ q \in b.got
                              \/ q \in InBlocks /\ q.seq # seq
<1>1. blocks' = [blocks EXCEPT ![Slot(seq)] = b] /\ DOMAIN blocks = Slots
  BY DEF PutPartial, RingInv, RingOf
<1> SUFFICES ASSUME NEW q \in InBlocks'
             PROVE  \/ b # None /\ q \in b.got
                    \/ q \in InBlocks /\ q.seq # seq
  OBVIOUS
<1>2. PICK i \in Slots : blocks'[i] # None /\ q \in blocks'[i].got
  BY DEF InBlocks, Filled
<1>3. CASE i = Slot(seq)
  BY <1>1, <1>2, <1>3
<1>4. CASE i # Slot(seq)
  <2>1. i \in Filled(blocks) /\ q \in blocks[i].got
    BY <1>1, <1>2, <1>4 DEF Filled
  <2>2. q.seq = blocks[i].seq /\ Slot(blocks[i].seq) = i
    BY <2>1 DEF RingInv, RingOf
  <2>3. q \in InBlocks
    BY <2>1 DEF InBlocks
  <2>4. QED
    BY <1>4, <2>2, <2>3
<1>5. QED
  BY <1>3, <1>4

-----------------------------------------------------------------------------
\* OnceInv is inductive, given BaseInv: it holds at the start, and every step keeps it.
LEMMA InitOnce == Init => OnceInv
<1> SUFFICES ASSUME Init PROVE OnceInv
  OBVIOUS
<1>1. chan = <<>> /\ out = <<>> /\ net = {} /\ decoded = {}
  BY DEF Init
<1>2. Filled(completed) = {} /\ Filled(blocks) = {}
  BY DEF Init, Filled
<1>3. Held(completed) = {} /\ InBlocks = {} /\ Range(chan) = {} /\ Range(out) = {}
  BY <1>1, <1>2 DEF Held, InBlocks, Range
<1>4. Apart /\ OnceOut
  BY <1>1, <1>3 DEF Apart, OnceOut, Stream!Distinct
<1>5. QED
  BY <1>1, <1>4 DEF OnceInv

\* A step that leaves the receiver's blocks alone, and its effect on the shards.
LEMMA OnceKept ==
  ASSUME OnceInv, network' = network, UNCHANGED <<completed, hist>>,
         Single => Apart', \A b \in decoded : \A p \in Live' : p \in Live \/ p.blk # b
  PROVE  OnceInv'
<1> SUFFICES ASSUME Single
             PROVE  Apart' /\ OnceOut' /\ \A b \in decoded' : Gone(b)'
  BY DEF OnceInv, Single
<1>1. OnceOut'
  BY DEF OnceInv, OnceOut, Held, Filled, Range, hist, Stream!Distinct
<1>2. \A b \in decoded' : Gone(b)'
  BY GoneStays DEF OnceInv, hist
<1>3. QED
  BY <1>1, <1>2

\* What is in partial blocks was sent.
LEMMA InBlocksIsSent ==
  ASSUME HoldsSent(blocks)
  PROVE  InBlocks \subseteq SentPackets
  BY DEF InBlocks, HoldsSent

\* The camera sends each shard once.
LEMMA SendOnce ==
  ASSUME BaseInv, OnceInv, SendBlock
  PROVE  OnceInv'
<1>1. Counting /\ RingInv /\ CountInv /\ SentInv /\ sent \in Nat
  BY BaseFacts
<1>2. UNCHANGED <<network, chan, blocks, completed, hist>>
      /\ \A p \in net' : p \in net \/ p.blk = sent
  BY DEF SendBlock
<1>3. UNCHANGED <<InBlocks, Range(chan)>>
  BY <1>2 DEF InBlocks, Filled, Range
<1>4. \A p \in net \cup Range(chan) \cup InBlocks : p.blk # sent
  <2>1. \A p \in SentPackets : p.blk # sent
    BY <1>1 DEF SentPackets, Packets, Blocks
  <2>2. net \cup Range(chan) \cup InBlocks \subseteq SentPackets
    BY <1>1, InBlocksIsSent DEF SentInv, Range
  <2>3. QED
    BY <2>1, <2>2
<1>5. Single => Apart'
  BY <1>2, <1>3, <1>4 DEF OnceInv, Apart, Stream!Distinct
<1>6. \A b \in decoded : \A p \in Live' : p \in Live \/ p.blk # b
  <2>1. \A p \in Live' : p \in Live \/ p.blk = sent
    BY <1>2, <1>3 DEF Live
  <2>2. \A b \in decoded : b # sent
    BY <1>1 DEF SentInv
  <2>3. QED
    BY <2>1, <2>2
<1>7. QED
  BY <1>2, <1>5, <1>6, OnceKept

\* A shard that is delivered is no longer in flight.
LEMMA DeliverOnce ==
  ASSUME BaseInv, OnceInv, NEW p \in net, Deliver(p)
  PROVE  OnceInv'
<1>1. Counting /\ RingInv /\ CountInv /\ SentInv /\ sent \in Nat
  BY BaseFacts
<1>2. UNCHANGED <<network, blocks, completed, hist>>
      /\ (chan' = chan \/ chan' = Append(chan, p))
  BY DEF Deliver
<1>3. InBlocks' = InBlocks
  BY <1>2 DEF InBlocks, Filled
<1>4. net' \subseteq net /\ (Single => net' = net \ {p})
  BY DEF Deliver, Single
<1>5. Range(chan') \subseteq Range(chan) \cup {p}
  <2>1. CASE chan' = Append(chan, p)
    <3>1. \A j \in DOMAIN chan' : (j \in DOMAIN chan /\ chan'[j] = chan[j]) \/ chan'[j] = p
      BY <1>1, <2>1, AppendProperties DEF RingInv
    <3>2. QED
      BY <3>1 DEF Range
  <2>2. QED
    BY <1>2, <2>1
<1>6. Single => Apart'
  <2> SUFFICES ASSUME Single PROVE Apart'
    OBVIOUS
  <2>1. Apart
    BY DEF OnceInv
  <2>2. p \notin Range(chan) /\ p \notin InBlocks
    BY <2>1 DEF Apart
  <2>3. Stream!Distinct(chan')
    <3>1. chan \in Seq(Packets) /\ p \in Packets /\ Stream!Distinct(chan)
      BY <1>1, <2>1 DEF Apart, RingInv
    <3>2. Stream!Distinct(Append(chan, p))
      BY <2>2, <3>1, AppendOnce, Zenon
    <3>3. CASE chan' = chan
      BY <3>1, <3>3
    <3>4. CASE chan' = Append(chan, p)
      BY <3>2, <3>4
    <3>5. QED
      BY <1>2, <3>3, <3>4
  <2>4. net' \cap Range(chan') = {} /\ (net' \cup Range(chan')) \cap InBlocks = {}
    <3>1. net' = net \ {p} /\ net \cap Range(chan) = {} /\ (net \cup Range(chan)) \cap InBlocks = {}
      BY <1>4, <2>1 DEF Apart
    <3>2. QED
      BY <1>5, <2>2, <3>1
  <2>5. Stream!Distinct(chan)' /\ Range(chan)' = Range(chan')
    BY <2>3 DEF Range, Stream!Distinct
  <2>6. QED
    BY <1>3, <2>4, <2>5 DEF Apart
<1>7. \A b \in decoded : \A q \in Live' : q \in Live \/ q.blk # b
  <2>1. Range(chan)' = Range(chan')
    BY DEF Range
  <2>2. QED
    BY <1>3, <1>4, <1>5, <2>1 DEF Live
<1>8. QED
  BY <1>2, <1>6, <1>7, OnceKept

\* A timer moves no shard, and the idle visit only drops some.
LEMMA OthersOnce ==
  ASSUME BaseInv, OnceInv,
         \/ RestartCamera
         \/ HolTimerExpires \/ DecodeTimerExpires
         \/ IdleVisit
         \/ UNCHANGED vars
  PROVE  OnceInv'
<1>1. RingInv
  BY BaseFacts
<1>2. UNCHANGED <<network, net, chan, completed, out, decoded>>
  BY DEF RestartCamera, HolTimerExpires, DecodeTimerExpires, IdleVisit, MoveHead, vars, env, hist
<1>3. InBlocks' \subseteq InBlocks
  <2>1. CASE UNCHANGED blocks
    BY <2>1 DEF InBlocks, Filled
  <2>2. CASE next_block # None /\ PutPartial(next_block, None)
    <3>1. next_block \in SeqNums
      BY <1>1, <2>2 DEF RingInv
    <3>2. QED
      BY <1>1, <2>2, <3>1, PutMoves
  <2>3. QED
    BY <2>1, <2>2 DEF RestartCamera, HolTimerExpires, DecodeTimerExpires, IdleVisit, MoveHead, vars,
                      PutPartial
<1>4. Range(chan)' = Range(chan) /\ Range(out)' = Range(out) /\ Held(completed)' = Held(completed)
  BY <1>2 DEF Range, Held, Filled
<1>5. Live' \subseteq Live
  BY <1>2, <1>3, <1>4 DEF Live
<1> SUFFICES ASSUME Single
             PROVE  Apart' /\ OnceOut' /\ \A b \in decoded' : Gone(b)'
  BY <1>2 DEF OnceInv, Single
<1>6. Apart'
  BY <1>2, <1>3, <1>4 DEF OnceInv, Apart, Stream!Distinct
<1>7. OnceOut'
  BY <1>2, <1>4 DEF OnceInv, OnceOut, Stream!Distinct
<1>8. \A b \in decoded' : Gone(b)'
  BY <1>2, <1>5, GoneStays DEF OnceInv
<1>9. QED
  BY <1>6, <1>7, <1>8

\* The head-of-line check hands nothing on twice.
LEMMA HolOnce ==
  ASSUME BaseInv, Ordinary, OnceOut, NEW n \in SeqNums
  PROVE  Once(AfterHolCheck(n), decoded)
<1> DEFINE from(m) == [next |-> m, completed |-> completed, out |-> <<>>, fresh |-> FALSE]
<1>1. Counting /\ RingInv /\ SentInv /\ out \in Seq(1..(sent - 1))
  BY BaseFacts DEF SentInv
<1>2. ASSUME NEW m \in SeqNums
      PROVE  Once(from(m), decoded)
  <2>1. IsRing(from(m))
    BY <1>1 DEF RingInv, IsRing
  <2>2. from(m).completed = completed /\ from(m).out = <<>>
    OBVIOUS
  <2> HIDE DEF from
  <2>3. out \o <<>> = out
    BY <1>1, ConcatEmptySeq
  <2>4. Shown(from(m)) = out
    BY <2>2, <2>3 DEF Shown
  <2>5. IsSentRing(from(m))
    BY <1>1, <2>1, <2>2 DEF IsSentRing, SentInv
  <2>6. QED
    BY <2>2, <2>4, <2>5 DEF Once, OnceOut
<1>3. AfterHolCheck(n) = drain_completed(from(Succ(n))) \/ AfterHolCheck(n) = from(n)
  BY DEF AfterHolCheck
<1> HIDE DEF from
<1>4. Once(from(n), decoded) /\ Once(from(Succ(n)), decoded)
  BY <1>2, SuccIsSeqNum
<1>5. Once(drain_completed(from(Succ(n))), decoded)
  BY <1>1, <1>4, DrainOnce
<1>6. QED
  BY <1>3, <1>4, <1>5

\* Where a shard of every kind is after a packet was looked at.
LEMMA ReceiveMoves ==
  ASSUME RingInv, SentInv, Receive
  PROVE  LET p == Head(chan)
         IN  /\ InBlocks' \subseteq InBlocks \cup {p}
             /\ PutPartial(p.seq, None) => \A q \in InBlocks' : q \in InBlocks /\ q.seq # p.seq
<1> DEFINE p == Head(chan)
           n == HeadFor(p)
           r == AfterHolCheck(n)
           x == JoinedBlock(p)
<1>1. /\ p \in SentPackets /\ p.seq \in SeqNums
      /\ Discards(p, r) \/ (Accepts(p, r) /\ (Joins(p, r) \/ Decodes(p, r)))
  BY ReceiveCases
<1>2. HoldsSent(blocks)
  BY DEF SentInv
<1> HIDE DEF p, r
<1>3. /\ x.got = {q \in Existing(p.seq).got : q.idx # p.idx} \cup {p}
      /\ \A q \in Existing(p.seq).got : \E i \in Filled(blocks) : q \in blocks[i].got
  BY <1>1, <1>2, JoinedIsSent
<1> HIDE DEF x
<1>4. x.got \subseteq InBlocks \cup {p}
  BY <1>3 DEF InBlocks
<1>5. PutPartial(p.seq, None) => \A q \in InBlocks' : q \in InBlocks /\ q.seq # p.seq
  BY <1>1, PutMoves
<1>6. PutPartial(p.seq, x) => InBlocks' \subseteq InBlocks \cup {p}
  BY <1>1, <1>4, PutMoves
<1>7. blocks' = blocks => InBlocks' = InBlocks
  BY DEF InBlocks, Filled
<1>8. QED
  BY <1>1, <1>5, <1>6, <1>7 DEF Discards, Joins, Decodes, p, x

\* The shards a block was decoded from are gone.
LEMMA DecodedIsGone ==
  ASSUME BaseInv, Ordinary, Apart, chan # <<>>, NEW p, p = Head(chan),
         CanReconstruct(JoinedBlock(p)), PutPartial(p.seq, None),
         net' = net, chan' = Tail(chan), UNCHANGED <<sent, fec_block_seq, restart>>
  PROVE  \A w : w = p.blk => Gone(w)'
<1> DEFINE b == JoinedBlock(p)
           G == Indices(b)
<1>1. Counting /\ RingInv /\ SentInv /\ HoldsSent(blocks) /\ chan \in Seq(SentPackets)
  BY BaseFacts DEF SentInv
<1>2. /\ p \in Range(chan) /\ p \notin Range(Tail(chan))
      /\ Range(Tail(chan)) \subseteq Range(chan)
  BY <1>1, HeadOnce DEF Apart
<1>3. p \in SentPackets /\ p.seq \in SeqNums
  <2>1. p \in SentPackets
    BY <1>1, <1>2 DEF Range
  <2>2. QED
    BY <2>1, PacketSeqNum DEF SentPackets
<1>4. /\ IsSentBlock(b, p.seq)
      /\ b.got = {q \in Existing(p.seq).got : q.idx # p.idx} \cup {p}
      /\ \A q \in Existing(p.seq).got : \E i \in Filled(blocks) : q \in blocks[i].got
  BY <1>1, <1>3, JoinedIsSent
<1>5. \A g \in b.got : /\ g \in SentPackets /\ g \in Packets /\ g.seq = p.seq /\ g.idx \in Shards
                       /\ g = p \/ g \in InBlocks
  BY <1>4 DEF IsSentBlock, IsBlock, SentPackets, Packets, InBlocks
<1>6. G \subseteq Shards /\ Cardinality(G) >= DataShards
  BY <1>5 DEF Indices, CanReconstruct
<1> HIDE DEF b
<1>7. ASSUME NEW q \in Live', q.blk = p.blk, NEW g \in b.got, g.idx = q.idx
      PROVE  FALSE
  <2>1. \/ q \in net \cup Range(Tail(chan))
        \/ q \in InBlocks /\ q.seq # p.seq
    <3>1. Range(chan)' = Range(Tail(chan))
      BY DEF Range
    <3>2. \A y \in InBlocks' : y \in InBlocks /\ y.seq # p.seq
      BY <1>1, <1>3, PutMoves
    <3>3. QED
      BY <1>7, <3>1, <3>2 DEF Live
  <2>2. q \in SentPackets
    BY <1>1, <1>2, <2>1, InBlocksIsSent DEF SentInv, Range
  <2>3. q.seq = p.seq
    BY <1>3, <1>7, <2>2 DEF SentPackets, Ordinary
  <2>4. g.blk = p.blk
    BY <1>3, <1>5, SameBlock
  <2>5. q = g
    <3>1. q \in Packets /\ g \in Packets /\ g.seq = p.seq
      BY <1>5, <2>2 DEF SentPackets
    <3>2. q.blk = g.blk /\ q.idx = g.idx /\ q.seq = g.seq
      BY <1>7, <2>3, <2>4, <3>1
    <3>3. QED
      BY <3>1, <3>2 DEF Packets
  <2>6. q \in net \cup Range(chan)
    BY <1>2, <2>1, <2>3
  <2>7. g = p
    BY <1>5, <2>5, <2>6 DEF Apart
  <2>8. QED
    BY <1>2, <2>1, <2>3, <2>5, <2>7 DEF Apart
<1>8. \A q \in Live' : q.blk = p.blk => q.idx \notin G
  BY <1>7 DEF Indices
<1> HIDE DEF G
<1>9. QED
  BY <1>6, <1>8 DEF Gone

\* A packet that is handled decodes a block that was not decoded before.
LEMMA ReceiveOnce ==
  ASSUME BaseInv, OnceInv, Receive
  PROVE  OnceInv'
<1> DEFINE p == Head(chan)
           n == HeadFor(p)
           r == AfterHolCheck(n)
           x == JoinedBlock(p)
           e == Evict(p.seq, r)
<1>1. Counting /\ RingInv /\ CountInv /\ SentInv /\ HoldsSent(blocks)
      /\ chan \in Seq(SentPackets) /\ out \in Seq(1..(sent - 1))
  BY BaseFacts DEF SentInv
<1>2. /\ p \in SentPackets /\ p.seq \in SeqNums /\ n \in SeqNums
      /\ Discards(p, r) \/ (Accepts(p, r) /\ (Joins(p, r) \/ Decodes(p, r)))
      /\ chan' = Tail(chan)
      /\ UNCHANGED <<network, sent, fec_block_seq, restart, net>>
  BY <1>1, ReceiveCases
<1>3. SUFFICES ASSUME Single
               PROVE  Apart' /\ OnceOut' /\ \A b \in decoded' : Gone(b)'
  BY <1>2 DEF OnceInv, Single
<1>4. Ordinary
  BY <1>1, <1>3 DEF Ordinary, CountInv, Single
<1>5. Apart /\ OnceOut /\ \A b \in decoded : Gone(b)
  BY <1>3 DEF OnceInv
<1>6. Once(r, decoded)
  BY <1>2, <1>4, <1>5, HolOnce
<1>7. chan # <<>> /\ p \in Range(chan) /\ p \notin Range(Tail(chan))
      /\ Range(Tail(chan)) \subseteq Range(chan) /\ Stream!Distinct(Tail(chan))
  <2>1. chan # <<>>
    BY DEF Receive
  <2>2. QED
    BY <1>1, <1>5, <2>1, HeadOnce DEF Apart
<1>8. InBlocks' \subseteq InBlocks \cup {p}
  BY <1>1, ReceiveMoves
<1> HIDE DEF n, r
<1>9. Once(e, decoded)
  BY <1>2, <1>6, EvictOnce
<1>10. IsSentBlock(x, p.seq) /\ p \in x.got
  BY <1>1, <1>2, JoinedIsSent
<1>11. p = Head(chan)
  OBVIOUS
<1> HIDE DEF p, x, e
<1>12. ASSUME NEW s, Once(s, decoded'), Commit(s)
       PROVE  OnceOut'
  <2>1. out' = Shown(s) /\ completed' = s.completed
    BY <1>12 DEF Commit, MoveHead, Shown
  <2>2. Range(out)' = Range(Shown(s)) /\ Held(completed)' = Held(s.completed)
        /\ (Stream!Distinct(out)' <=> Stream!Distinct(Shown(s)))
    BY <2>1 DEF Range, Held, Filled, Stream!Distinct
  <2>3. QED
    BY <1>12, <2>2 DEF OnceOut, Once
<1>13. Apart'
  <2>1. Range(chan)' = Range(Tail(chan)) /\ Stream!Distinct(chan)'
    BY <1>2, <1>7 DEF Range, Stream!Distinct
  <2>2. net' = net /\ net \cap Range(chan) = {} /\ (net \cup Range(chan)) \cap InBlocks = {}
    BY <1>2, <1>5 DEF Apart
  <2>3. net' \cap Range(chan)' = {}
    BY <1>7, <2>1, <2>2
  <2>4. (net' \cup Range(chan)') \cap InBlocks' = {}
    BY <1>7, <1>8, <2>1, <2>2
  <2>5. QED
    BY <2>1, <2>3, <2>4 DEF Apart
<1>14. \A b \in decoded : Gone(b)'
  <2>1. Range(chan)' = Range(Tail(chan))
    BY <1>2 DEF Range
  <2>2. Live' \subseteq Live
    BY <1>2, <1>7, <1>8, <2>1 DEF Live
  <2>3. QED
    BY <1>5, <2>2, GoneStays
<1>15. CASE Discards(p, r)
  <2>1. Commit(r) /\ decoded' = decoded
    BY <1>15 DEF Discards
  <2>2. OnceOut'
    BY <1>6, <1>12, <2>1
  <2>3. QED
    BY <1>13, <1>14, <2>1, <2>2
<1>16. CASE Joins(p, r)
  <2>1. Commit(e) /\ decoded' = decoded
    BY <1>16 DEF Joins, e
  <2>2. OnceOut'
    BY <1>9, <1>12, <2>1
  <2>3. QED
    BY <1>13, <1>14, <2>1, <2>2
<1>17. CASE Decodes(p, r)
  <2>1. /\ CanReconstruct(JoinedBlock(p)) /\ PutPartial(p.seq, None)
        /\ Commit(Complete(x, e)) /\ decoded' = decoded \cup {p.blk}
    BY <1>17 DEF Decodes, e, x
  <2>2. p.blk \notin decoded
    BY <1>1, <1>2, <1>4, <1>5, <1>7, <2>1, GoneIsNotDecoded
  <2>3. Once(Stored(x, e), decoded')
    BY <1>2, <1>4, <1>9, <1>10, <2>1, <2>2, StoredOnce
  <2>4. Once(drain_completed(Stored(x, e)), decoded')
    BY <1>1, <1>4, <2>3, DrainOnce
  <2>5. Complete(x, e) = drain_completed(Stored(x, e)) \/ Complete(x, e) = Stored(x, e)
    <3>1. IsSentRing(e)
      BY <1>9 DEF Once
    <3>2. QED
      BY <1>2, <1>10, <3>1, StoredIsSent
  <2>6. OnceOut'
    BY <1>12, <2>1, <2>3, <2>4, <2>5
  <2>7. \A w : w = p.blk => Gone(w)'
    BY <1>2, <1>4, <1>5, <1>7, <1>11, <2>1, DecodedIsGone
  <2>8. QED
    BY <1>13, <1>14, <2>1, <2>6, <2>7
<1>18. QED
  BY <1>2, <1>15, <1>16, <1>17

\* The environments that duplicate or restart are left out by Single.
LEMMA NextOnce == BaseInv /\ OnceInv /\ [Next]_vars => OnceInv'
<1> SUFFICES ASSUME BaseInv, OnceInv, [Next]_vars PROVE OnceInv'
  OBVIOUS
<1>1. CASE SendBlock
  BY <1>1, SendOnce
<1>2. ASSUME NEW p \in net, Deliver(p)
      PROVE  OnceInv'
  BY <1>2, DeliverOnce
<1>3. CASE Receive
  BY <1>3, ReceiveOnce
<1>4. CASE RestartCamera \/ Timers \/ IdleVisit \/ UNCHANGED vars
  BY <1>4, OthersOnce DEF Timers
<1>5. QED
  BY <1>1, <1>2, <1>3, <1>4 DEF Next, Sender, Receiver

-----------------------------------------------------------------------------
\* The elements of a sequence.
LEMMA SeqElements == \A S : \A s \in Seq(S) : \A j \in DOMAIN s : s[j] \in S
  OBVIOUS

\* A sequence is a prefix of itself and of its continuations.
LEMMA PrefixOfConcat ==
  ASSUME NEW S, NEW s \in Seq(S), NEW t \in Seq(S)
  PROVE  Stream!IsPrefix(s, s) /\ Stream!IsPrefix(s, s \o t)
<1>1. s \o t \in Seq(S) /\ Len(s \o t) = Len(s) + Len(t) /\ Len(s) \in Nat /\ Len(t) \in Nat
  BY ConcatProperties
<1>2. SubSeq(s, 1, Len(s)) = s
  BY SubSeqFull
<1>3. SubSeq(s \o t, 1, Len(s)) = s
  <2> DEFINE u == SubSeq(s \o t, 1, Len(s))
             m == Len(s)
  <2>1. \A j \in 1..m : (s \o t)[j] = s[j] /\ s[j] \in S
    BY ConcatProperties
  <2>2. \A j \in 1..m : (s \o t)[j] \in S
    BY <2>1
  <2>3. /\ u \in Seq(S)
        /\ Len(u) = IF 1 <= m THEN m - 1 + 1 ELSE 0
        /\ \A j \in 1..(m - 1 + 1) : u[j] = (s \o t)[1 + j - 1]
    <3>1. 1 \in Int /\ m \in Int
      BY <1>1
    <3> DEFINE w == s \o t
    <3>2. \A j \in 1..m : w[j] \in S
      BY <2>2
    <3> HIDE DEF w, m
    <3>3. /\ SubSeq(w, 1, m) \in Seq(S)
          /\ Len(SubSeq(w, 1, m)) = IF 1 <= m THEN m - 1 + 1 ELSE 0
          /\ \A j \in 1..(m - 1 + 1) : SubSeq(w, 1, m)[j] = w[1 + j - 1]
      BY <3>1, <3>2, SubSeqProperties
    <3>4. QED
      BY <3>3 DEF w, m
  <2>4. Len(u) = m /\ \A j \in 1..m : u[j] = s[j]
    <3>1. m - 1 + 1 = m /\ \A j \in 1..m : 1 + j - 1 = j
      BY <1>1
    <3>2. Len(u) = m
      BY <1>1, <2>3
    <3>3. QED
      BY <2>1, <2>3, <3>1, <3>2
  <2> HIDE DEF u
  <2>5. u = s
    BY <1>1, <2>3, <2>4, SeqEqual
  <2>6. QED
    BY <2>5 DEF u
<1>4. QED
  BY <1>1, <1>2, <1>3 DEF Stream!IsPrefix

\* What a step may do to what was handed on.
LEMMA Grows ==
  ASSUME BaseInv, [Next]_vars
  PROVE  \/ SendBlock
         \/ /\ Stream!IsPrefix(out, out')
            /\ sent' = sent /\ network' = network
            /\ ~strayed' /\ restart' = None => ~strayed /\ restart = None
<1>1. RingInv /\ SentInv /\ out \in Seq(1..(sent - 1))
  BY BaseFacts DEF SentInv
<1>2. Stream!IsPrefix(out, out)
  BY <1>1, PrefixOfConcat
<1>3. CASE RestartCamera
  <2>1. restart' # None
    <3>1. restart' \in Restarts
      BY <1>1, <1>3 DEF RestartCamera, Restarts, RingInv
    <3>2. QED
      BY <3>1, NoneAssumption
  <2>2. QED
    BY <1>2, <1>3, <2>1 DEF RestartCamera, hist
<1>4. CASE Timers \/ UNCHANGED vars \/ \E p \in net : Deliver(p)
  BY <1>2, <1>4 DEF Timers, HolTimerExpires, DecodeTimerExpires, vars, env, hist, Deliver
<1>5. CASE IdleVisit
  BY <1>2, <1>5 DEF IdleVisit, MoveHead, env
<1>6. CASE Receive
  <2> DEFINE p == Head(chan)
             r == AfterHolCheck(HeadFor(p))
             x == JoinedBlock(p)
             e == Evict(p.seq, r)
  <2>1. /\ p \in SentPackets /\ p.seq \in SeqNums
        /\ IsSentRing(r)
        /\ Discards(p, r) \/ (Accepts(p, r) /\ (Joins(p, r) \/ Decodes(p, r)))
        /\ UNCHANGED <<network, sent, fec_block_seq, restart, net, waits>>
    BY <1>1, <1>6, ReceiveCases
  <2>2. IsSentBlock(x, p.seq)
    BY <1>1, <2>1, JoinedIsSent DEF SentInv
  <2> HIDE DEF p, r
  <2>3. IsSentRing(e)
    BY <2>1, EvictIsSent
  <2> HIDE DEF x, e
  <2>4. IsSentRing(Complete(x, e))
    BY <2>1, <2>2, <2>3, BaseFacts, CompleteIsSent
  <2>5. ASSUME NEW s, IsSentRing(s), Commit(s)
        PROVE  Stream!IsPrefix(out, out')
    BY <1>1, <2>5, PrefixOfConcat DEF Commit, MoveHead, IsSentRing
  <2>6. Stream!IsPrefix(out, out')
    <3>1. Commit(r) \/ Commit(e) \/ Commit(Complete(x, e))
      BY <2>1 DEF Discards, Joins, Decodes, e, x
    <3>2. QED
      BY <2>1, <2>3, <2>4, <2>5, <3>1
  <2>7. ~strayed' => ~strayed
    BY <2>1, Zenon DEF Discards, Accepts
  <2>8. QED
    BY <2>1, <2>6, <2>7
<1>7. QED
  BY <1>3, <1>4, <1>5, <1>6 DEF Next, Sender, Receiver

\* Every step sends a block, or hands some on, or none.
LEMMA StepImplements ==
  ASSUME BaseInv, BaseInv', OrderInv', OnceInv', [Next]_vars
  PROVE  [Stream!Next]_(Stream!vars)
<1>1. CASE SendBlock
  <2>1. Stream!Send
    BY <1>1 DEF SendBlock, hist, Stream!Send
  <2>2. QED
    BY <2>1 DEF Stream!Next
<1>2. CASE /\ Stream!IsPrefix(out, out')
           /\ sent' = sent /\ network' = network
           /\ ~strayed' /\ restart' = None => ~strayed /\ restart = None
  <2>1. \A j \in DOMAIN out' : out'[j] \in 1..(sent - 1)
    <3>1. SentInv'
      BY DEF BaseInv
    <3>2. out' \in Seq(1..(sent - 1))
      BY <1>2, <3>1 DEF SentInv
    <3>3. QED
      BY <3>2, SeqElements, Zenon
  <2>2. ~strayed' /\ restart' = None => Stream!Increasing(out')
    <3> SUFFICES ASSUME ~strayed', restart' = None
                 PROVE  Stream!Increasing(out')
      OBVIOUS
    <3>1. CASE next_block' = None
      <4>1. SentInv'
        BY DEF BaseInv
      <4>2. out' = <<>>
        BY <3>1, <4>1 DEF SentInv, Untouched
      <4>3. QED
        BY <4>2 DEF Stream!Increasing
    <3>2. CASE next_block' # None
      <4>1. PICK b \in Nat \ {0} : Reached(b)'
        BY <3>2 DEF OrderInv
      <4>2. QED
        BY <4>1 DEF Reached, Stream!Increasing
    <3>3. QED
      BY <3>1, <3>2
  <2>3. Single => Stream!Distinct(out')
    BY <1>2 DEF OnceInv, Single, OnceOut, Stream!Distinct
  <2>4. Stream!HandOn
    BY <1>2, <2>1, <2>2, <2>3 DEF Stream!HandOn, Single
  <2>5. QED
    BY <2>4 DEF Stream!Next
<1>3. QED
  BY <1>1, <1>2, Grows

\* The receiver implements BlockStream: what it hands to emit_block only grows, in the
\* camera's order as long as it neither strayed nor saw a restart, and without repetitions
\* on a network that does not duplicate.
THEOREM RefinementTheorem == Spec => ImplementsStream
<1>1. Init => BaseInv /\ OrderInv /\ OnceInv
  BY InitBase, InitOrder, InitOnce
<1>2. (BaseInv /\ OrderInv /\ OnceInv) /\ [Next]_vars => (BaseInv /\ OrderInv /\ OnceInv)'
  BY NextBase, NextOrder, NextOnce
<1>3. Init => Stream!Init
  BY DEF Init, Stream!Init
<1>4. BaseInv /\ (BaseInv /\ OrderInv /\ OnceInv)' /\ [Next]_vars => [Stream!Next]_(Stream!vars)
  BY StepImplements
<1>5. QED
  BY <1>1, <1>2, <1>3, <1>4, PTL DEF Spec, ImplementsStream, Stream!Spec

-----------------------------------------------------------------------------
\* All shards of block b are among the packets.
Whole(b, packets) == \A x \in Shards : \E p \in packets : p.blk = b /\ p.idx = x

\* From block b on, every block was decoded or can be.
Kept(b) == \A k \in Int : b <= k /\ k < sent => k \in decoded \/ Whole(k, Live)

\* On a network that loses nothing the blocks before the one the receiver waits for
\* were all it cannot decode.
DeliveryInv ==
  ~strayed /\ restart = None /\ "loss" \notin network =>
    /\ next_block = None => \A b \in 1..(sent - 1) : Whole(b, net \cup Range(chan))
    /\ next_block # None => \E b \in Nat \ {0} : Reached(b) /\ Kept(b)

\* A shard that is discarded belongs to an earlier block.
LEMMA DiscardedIsBehind ==
  ASSUME Ordinary, waits \in 0..MaxWaits, NEW r, NEW b \in Nat \ {0}, AtBlock(r, b),
         NEW p \in SentPackets, Discarded(p.seq, r)
  PROVE  p.blk < b
<1> DEFINE w == p.blk
           half == SeqMod \div 2
<1>1. w \in Int /\ p.seq = At(w) /\ r.next = At(b) /\ Counting /\ b \in Int
  BY DEF SentPackets, Packets, Blocks, Ordinary, AtBlock
<1>2. half \in Nat /\ 2 * half <= SeqMod /\ w - b < half
  BY HalfWay
<1>3. p.seq # r.next /\ ~(Dist(p.seq, r.next) < half)
  BY DEF Discarded, is_future_block
<1>4. Dist(p.seq, r.next) = (w - b) % SeqMod
  BY <1>1, AtDist
<1> HIDE DEF w, half
<1>5. ASSUME b <= w
      PROVE  FALSE
  <2>1. w - b \in Int /\ 0 <= w - b /\ w - b < SeqMod
    BY <1>1, <1>2, <1>5, Moduli
  <2>2. (w - b) % SeqMod = w - b
    BY <2>1, Moduli, ModSmall
  <2>3. QED
    BY <1>2, <1>3, <1>4, <2>2
<1>6. w < b
  BY <1>1, <1>5
<1>7. QED
  BY <1>6 DEF w

\* The elements of a sequence are its head and those of its tail.
LEMMA HeadOrTail ==
  ASSUME NEW S, NEW s \in Seq(S), s # <<>>
  PROVE  Range(s) \subseteq Range(Tail(s)) \cup {Head(s)}
<1> DEFINE t == Tail(s)
           m == Len(s)
<1>1. /\ m \in Nat /\ m > 0 /\ DOMAIN s = 1..m /\ DOMAIN t = 1..(m - 1) /\ Head(s) = s[1]
      /\ \A j \in 1..(m - 1) : t[j] = s[j + 1]
  BY HeadTailProperties, EmptySeq
<1> HIDE DEF t, m
<1>2. \A j \in DOMAIN s : j = 1 \/ (j - 1 \in DOMAIN t /\ t[j - 1] = s[j])
  <2>1. \A j \in 2..m : j - 1 \in 1..(m - 1) /\ (j - 1) + 1 = j
    BY <1>1
  <2>2. \A j \in 2..m : t[j - 1] = s[j]
    BY <1>1, <2>1
  <2>3. \A j \in 1..m : j = 1 \/ j \in 2..m
    BY <1>1
  <2>4. QED
    BY <1>1, <2>1, <2>2, <2>3
<1>3. ASSUME NEW j \in DOMAIN s
      PROVE  s[j] = Head(s) \/ s[j] \in Range(t)
  BY <1>1, <1>2 DEF Range
<1>4. Range(s) \subseteq Range(t) \cup {Head(s)}
  BY <1>3 DEF Range
<1>5. QED
  BY <1>4 DEF t

\* A packet takes no block from the head on that could be decoded.
LEMMA ReceiveKeepsWhole ==
  ASSUME BaseInv, Ordinary, Receive, ~strayed', NEW m \in Nat \ {0},
         AtBlock(AfterHolCheck(HeadFor(Head(chan))), m),
         \A i \in Filled(blocks) : \A q \in blocks[i].got : q.blk < m + RingSize,
         NEW w \in Int, m <= w, w \in decoded \/ Whole(w, Live)
  PROVE  w \in decoded' \/ Whole(w, Live')
<1> DEFINE p == Head(chan)
           n == HeadFor(p)
           r == AfterHolCheck(n)
           b == JoinedBlock(p)
<1>1. Counting /\ RingInv /\ SentInv /\ HoldsSent(blocks) /\ chan \in Seq(SentPackets)
      /\ waits \in 0..MaxWaits
  BY BaseFacts DEF SentInv, CountInv
<1>2. /\ p \in SentPackets /\ p.seq \in SeqNums
      /\ Discards(p, r) \/ (Accepts(p, r) /\ (Joins(p, r) \/ Decodes(p, r)))
      /\ chan' = Tail(chan)
      /\ UNCHANGED <<network, sent, fec_block_seq, restart, net, waits>>
  BY <1>1, ReceiveCases
<1>3. Range(chan) \subseteq Range(chan') \cup {p}
  <2>1. chan # <<>>
    BY DEF Receive
  <2>2. QED
    BY <1>1, <1>2, <2>1, HeadOrTail
<1>4. AtBlock(r, m)
  OBVIOUS
<1> HIDE DEF p, n, r
<1>5. /\ b.got = {q \in Existing(p.seq).got : q.idx # p.idx} \cup {p}
  BY <1>1, <1>2, JoinedIsSent
<1> HIDE DEF b
<1>6. decoded \subseteq decoded' /\ (Decodes(p, r) => p.blk \in decoded')
  BY <1>2 DEF Discards, Joins, Decodes
<1>7. SUFFICES ASSUME w \notin decoded', NEW x \in Shards
               PROVE  \E q \in Live' : q.blk = w /\ q.idx = x
  BY DEF Whole
<1>8. PICK q \in Live : q.blk = w /\ q.idx = x
  BY <1>6, <1>7 DEF Whole
<1>9. Range(chan)' = Range(chan')
  BY DEF Range
<1>10. DOMAIN blocks = Slots /\ Slot(p.seq) \in Slots
  BY <1>1, <1>2, SlotInRing DEF RingInv, RingOf
<1>11. ASSUME Joins(p, r)
       PROVE  \A y \in b.got : y \in InBlocks'
  <2>1. blocks' = [blocks EXCEPT ![Slot(p.seq)] = b] /\ b # None
    <3>1. IsSentBlock(JoinedBlock(p), p.seq)
      BY <1>1, <1>2, JoinedIsSent
    <3>2. b \in PartialBlock
      BY <3>1 DEF IsSentBlock, IsBlock, b
    <3>3. QED
      BY <1>11, <3>2, NoneAssumption DEF Joins, PutPartial, b
  <2>2. Slot(p.seq) \in Filled(blocks)' /\ blocks'[Slot(p.seq)] = b
    BY <1>10, <2>1 DEF Filled
  <2>3. QED
    BY <2>2 DEF InBlocks
<1>12. CASE q \in net
  BY <1>2, <1>8, <1>12 DEF Live
<1>13. CASE q \in Range(chan)
  <2>1. CASE q = p
    <3>1. ~Discards(p, r)
      <4>1. p.blk \in Int /\ m \in Int /\ ~(p.blk < m)
        BY <1>8, <2>1
      <4>2. QED
        BY <1>1, <1>2, <1>4, <4>1, DiscardedIsBehind DEF Discards
    <3>2. Joins(p, r)
      BY <1>2, <1>6, <1>7, <1>8, <2>1, <3>1
    <3>3. p \in InBlocks'
      BY <1>5, <1>11, <3>2
    <3>4. QED
      BY <1>8, <2>1, <3>3 DEF Live
  <2>2. CASE q \in Range(chan')
    BY <1>8, <1>9, <2>2 DEF Live
  <2>3. QED
    BY <1>3, <1>13, <2>1, <2>2
<1>14. CASE q \in InBlocks
  <2>1. PICK i \in Filled(blocks) : q \in blocks[i].got
    BY <1>14 DEF InBlocks
  <2>2. CASE blocks'[i] = blocks[i]
    <3>1. i \in Filled(blocks)'
      BY <2>2 DEF Filled
    <3>2. q \in InBlocks'
      BY <2>1, <2>2, <3>1 DEF InBlocks
    <3>3. QED
      BY <1>8, <3>2 DEF Live
  <2>3. CASE blocks'[i] # blocks[i]
    <3>1. ~Discards(p, r)
      BY <2>3 DEF Discards
    <3>2. Accepts(p, r) /\ (Joins(p, r) \/ Decodes(p, r))
      BY <1>2, <3>1
    <3>3. i = Slot(p.seq)
      BY <1>10, <2>3, <3>2 DEF Joins, Decodes, PutPartial, Filled
    <3>4. q \in SentPackets /\ q.seq = blocks[i].seq /\ Slot(q.seq) = i
          /\ q.blk < m + RingSize
      BY <1>1, <2>1 DEF HoldsSent, RingInv, RingOf
    <3>5. m <= p.blk /\ p.blk < m + RingSize
      <4>1. ~(is_future_block(p.seq, r.next) /\ Dist(p.seq, r.next) >= RingSize)
            /\ ~Discarded(p.seq, r)
        BY <3>2, Zenon DEF Accepts
      <4>2. QED
        BY <1>1, <1>2, <1>4, <4>1, AcceptedIsNear
    <3>6. p.blk = w
      <4>1. /\ p.blk \in Int /\ p.seq = At(p.blk) /\ q.seq = At(w)
        BY <1>2, <1>8, <3>4 DEF SentPackets, Packets, Blocks, Ordinary
      <4> DEFINE y == p.blk
      <4>2. y \in Int /\ m <= y /\ y < m + RingSize /\ w < m + RingSize
        BY <1>8, <3>4, <3>5, <4>1
      <4>3. Slot(At(y)) = Slot(At(w))
        BY <3>3, <3>4, <4>1
      <4> HIDE DEF y
      <4>4. y - w < RingSize /\ w - y < RingSize
        BY <4>2, Moduli
      <4>5. y = w
        BY <1>1, <4>2, <4>3, <4>4, SlotSame
      <4>6. QED
        BY <4>5 DEF y
    <3>7. Joins(p, r)
      BY <1>6, <1>7, <3>2, <3>6
    <3>8. q \in Existing(p.seq).got
      <4>1. q.seq = p.seq
        BY <1>2, <1>8, <3>4, <3>6 DEF SentPackets, Ordinary
      <4>2. Existing(p.seq) = blocks[i]
        BY <3>3, <3>4, <4>1, <2>1 DEF Existing, Filled
      <4>3. QED
        BY <2>1, <4>2
    <3>9. \E y \in b.got : y.blk = w /\ y.idx = x
      BY <1>5, <1>8, <3>6, <3>8
    <3>10. QED
      BY <1>11, <3>7, <3>9 DEF Live
  <2>4. QED
    BY <2>2, <2>3
<1>15. QED
  BY <1>8, <1>12, <1>13, <1>14 DEF Live

\* DeliveryInv is inductive, given BaseInv and OrderInv: it holds at the start, and every
\* step keeps it.
LEMMA InitDelivery == Init => DeliveryInv
<1> SUFFICES ASSUME Init PROVE DeliveryInv
  OBVIOUS
<1>1. next_block = None /\ 1..(sent - 1) = {}
  BY DEF Init
<1>2. QED
  BY <1>1 DEF DeliveryInv

\* What was in a sequence, and the element appended.
LEMMA AppendRange ==
  ASSUME NEW S, NEW s \in Seq(S), NEW p \in S
  PROVE  Range(s) \cup {p} \subseteq Range(Append(s, p))
<1> DEFINE t == Append(s, p)
           m == Len(s)
<1>1. /\ m \in Nat /\ DOMAIN s = 1..m /\ DOMAIN t = 1..(m + 1)
      /\ \A j \in 1..m : t[j] = s[j]
      /\ t[m + 1] = p
  BY AppendProperties
<1> HIDE DEF t, m
<1>2. m + 1 \in DOMAIN t /\ \A j \in DOMAIN s : j \in DOMAIN t /\ t[j] = s[j]
  BY <1>1
<1>3. Range(s) \cup {p} \subseteq Range(t)
  BY <1>1, <1>2 DEF Range
<1>4. QED
  BY <1>3 DEF t

\* An interval's numbers.
LEMMA Interval ==
  ASSUME NEW n \in Nat, NEW b \in 1..(n - 1)
  PROVE  b \in Int /\ 1 <= b /\ b < n
  OBVIOUS

\* A step that leaves the receiver's blocks alone and loses no shard.
LEMMA DeliveryKept ==
  ASSUME BaseInv, DeliveryInv, restart' = None => restart = None, network' = network,
         \A b \in Int : At(b)' = At(b),
         UNCHANGED <<blocks, completed, next_block, hist>>,
         \/ UNCHANGED <<hol_expired, waits>>
         \/ ~hol_expired /\ hol_expired' /\ waits' = waits + 1,
         "loss" \notin network => net \cup Range(chan) \subseteq net' \cup Range(chan'),
         sent' = sent \/ (sent' = sent + 1 /\ Whole(sent, net'))
  PROVE  DeliveryInv'
<1>1. sent \in Nat /\ sent' \in Nat /\ sent' >= sent
  BY BaseFacts
<1> SUFFICES ASSUME ~strayed, restart = None, "loss" \notin network
             PROVE  /\ next_block' = None =>
                         \A b \in (1..(sent - 1))' : Whole(b, net \cup Range(chan))'
                    /\ next_block' # None => \E b \in Nat \ {0} : Reached(b)' /\ Kept(b)'
  BY DEF DeliveryInv, hist
<1>2. InBlocks' = InBlocks /\ Range(chan)' = Range(chan')
  BY DEF InBlocks, Filled, Range
<1>3. Live \subseteq Live'
  BY <1>2 DEF Live
<1>4. \A b : /\ Whole(b, net \cup Range(chan)) => Whole(b, net \cup Range(chan))'
             /\ Whole(b, Live) => Whole(b, Live)'
  BY <1>2, <1>3 DEF Whole
<1>5. ASSUME NEW b, b = sent, sent' = sent + 1
      PROVE  Whole(b, net \cup Range(chan))' /\ Whole(b, Live)'
  <2>1. Whole(b, net')
    BY <1>1, <1>5
  <2>2. net' \subseteq (net \cup Range(chan))' /\ net' \subseteq Live'
    BY DEF Live
  <2>3. QED
    BY <2>1, <2>2 DEF Whole
<1>6. ASSUME NEW b \in Int, b < sent'
      PROVE  b < sent \/ (b = sent /\ sent' = sent + 1)
  BY <1>1, <1>6
<1>7. ASSUME next_block' = None, NEW b \in 1..(sent' - 1)
      PROVE  Whole(b, net \cup Range(chan))'
  <2>1. b \in Int /\ 1 <= b /\ b < sent'
    BY <1>1, Interval, Zenon
  <2>2. CASE b < sent
    <3>1. b \in 1..(sent - 1)
      BY <1>1, <2>1, <2>2
    <3>2. QED
      BY <1>4, <1>7, <3>1 DEF DeliveryInv
  <2>3. CASE b = sent /\ sent' = sent + 1
    BY <1>5, <2>3
  <2>4. QED
    BY <1>6, <2>1, <2>2, <2>3
<1>8. ASSUME next_block' # None
      PROVE  \E b \in Nat \ {0} : Reached(b)' /\ Kept(b)'
  <2>1. PICK b \in Nat \ {0} : Reached(b) /\ Kept(b)
    BY <1>8 DEF DeliveryInv
  <2>2. Reached(b)'
    BY <1>1, <2>1, ReachedKept
  <2>3. ASSUME NEW k \in Int, b <= k, k < sent'
        PROVE  k \in decoded' \/ Whole(k, Live)'
    <3>1. CASE k < sent
      BY <1>4, <2>1, <2>3, <3>1 DEF Kept, hist
    <3>2. CASE k = sent /\ sent' = sent + 1
      BY <1>5, <3>2
    <3>3. QED
      BY <1>6, <2>3, <3>1, <3>2
  <2>4. Kept(b)'
    BY <2>3 DEF Kept
  <2>5. QED
    BY <2>2, <2>4
<1>9. QED
  BY <1>7, <1>8

\* The camera sends all shards of its next block.
LEMMA SendDelivery ==
  ASSUME BaseInv, DeliveryInv, SendBlock
  PROVE  DeliveryInv'
<1>1. Counting /\ fec_block_seq' = Succ(fec_block_seq) /\ sent' = sent + 1 /\ sent \in Nat
  BY BaseFacts DEF SendBlock
<1>2. \A b \in Int : At(b)' = At(b)
  BY <1>1, AtStays
<1>3. UNCHANGED <<network, restart, chan, blocks, completed, next_block, hist, hol_expired, waits>>
  BY DEF SendBlock
<1>4. Whole(sent, net')
  <2>1. ASSUME NEW x \in Shards
        PROVE  \E p \in net' : p.blk = sent /\ p.idx = x
    <3> DEFINE p == [blk |-> sent, idx |-> x, seq |-> fec_block_seq]
    <3>1. p \in net' /\ p.blk = sent /\ p.idx = x
      BY DEF SendBlock
    <3>2. QED
      BY <3>1
  <2>2. QED
    BY <2>1 DEF Whole
<1>5. "loss" \notin network => net \cup Range(chan) \subseteq net' \cup Range(chan')
  BY <1>3 DEF SendBlock
<1>6. QED
  BY <1>1, <1>2, <1>3, <1>4, <1>5, DeliveryKept

\* A network that loses nothing moves shards, and the timers move none.
LEMMA OthersDelivery ==
  ASSUME BaseInv, DeliveryInv,
         \/ \E p \in net : Deliver(p)
         \/ HolTimerExpires \/ DecodeTimerExpires
         \/ IdleVisit
         \/ UNCHANGED vars
  PROVE  DeliveryInv'
<1>1. UNCHANGED <<network, sent, fec_block_seq, restart>>
  BY DEF Deliver, HolTimerExpires, DecodeTimerExpires, IdleVisit, MoveHead, vars, env
<1>2. \A b \in Int : At(b)' = At(b)
  BY <1>1 DEF At
<1>3. \/ strayed'
      \/ /\ UNCHANGED <<blocks, completed, next_block, hist>>
         /\ \/ UNCHANGED <<hol_expired, waits>>
            \/ ~hol_expired /\ hol_expired' /\ waits' = waits + 1
  <2>1. CASE IdleVisit
    BY <2>1 DEF IdleVisit, MoveHead, hist
  <2>2. CASE ~IdleVisit
    BY <2>2 DEF Deliver, HolTimerExpires, DecodeTimerExpires, vars, hist
  <2>3. QED
    BY <2>1, <2>2
<1>4. "loss" \notin network => net \cup Range(chan) \subseteq net' \cup Range(chan')
  <2>1. CASE UNCHANGED <<net, chan>>
    BY <2>1
  <2>2. ASSUME NEW p \in net, Deliver(p), "loss" \notin network
        PROVE  net \cup Range(chan) \subseteq net' \cup Range(chan')
    <3>1. chan' = Append(chan, p) /\ net \subseteq net' \cup {p}
      BY <2>2 DEF Deliver
    <3>2. chan \in Seq(Packets) /\ p \in Packets
      BY BaseFacts DEF RingInv
    <3>3. Range(chan) \cup {p} \subseteq Range(Append(chan, p))
      BY <3>2, AppendRange
    <3>4. QED
      BY <3>1, <3>3
  <2>3. QED
    BY <2>1, <2>2 DEF HolTimerExpires, DecodeTimerExpires, IdleVisit, MoveHead, vars, env
<1>5. CASE strayed'
  BY <1>5 DEF DeliveryInv
<1>6. CASE ~strayed'
  BY <1>1, <1>2, <1>3, <1>4, <1>6, DeliveryKept
<1>7. QED
  BY <1>5, <1>6

\* A packet that is handled leaves the blocks from the head on decodable.
LEMMA ReceiveDelivery ==
  ASSUME BaseInv, OrderInv, DeliveryInv, Receive
  PROVE  DeliveryInv'
<1> DEFINE p == Head(chan)
           r == AfterHolCheck(HeadFor(p))
<1>1. /\ Counting /\ sent \in Nat /\ CountInv /\ SentInv
  BY BaseFacts
<1>2. /\ p \in SentPackets
      /\ Discards(p, r) \/ (Accepts(p, r) /\ (Joins(p, r) \/ Decodes(p, r)))
      /\ UNCHANGED <<network, sent, fec_block_seq, restart, net, waits>>
  BY BaseFacts, ReceiveCases
<1>3. SUFFICES ASSUME ~strayed', restart' = None, "loss" \notin network
               PROVE  \E k \in Nat \ {0} : Reached(k)' /\ Kept(k)'
  <2>1. ASSUME NEW k \in Nat \ {0}, Reached(k)'
        PROVE  next_block' # None
    <3>1. Counting'
      BY <1>1, <1>2 DEF Counting
    <3>2. At(k) \in SeqNums
      BY <1>1, AtIsSeqNum
    <3>3. At(k)' = At(k)
      BY <1>2 DEF At
    <3>4. QED
      BY <2>1, <3>2, <3>3, NoneAssumption DEF Reached
  <2>2. QED
    BY <1>2, <2>1 DEF DeliveryInv
<1> HIDE DEF r
<1>4. restart = None /\ ~strayed
  <2> HIDE DEF p
  <2>1. restart = None
    BY <1>2, <1>3
  <2>2. ~strayed
    BY <1>2, <1>3, Zenon DEF Discards, Accepts
  <2>3. QED
    BY <2>1, <2>2
<1>5. Ordinary
  BY <1>1, <1>4 DEF Ordinary, CountInv
<1>6. PICK b \in Nat \ {0} : HeadAt(HeadFor(p), b) /\ Kept(b)
  <2>1. CASE next_block = None
    <3>1. HeadAt(HeadFor(p), p.blk)
      BY <1>2, <1>4, <2>1, StartsInOrder
    <3>2. p.blk \in Nat \ {0}
      BY <1>2 DEF SentPackets, Packets, Blocks
    <3>3. ASSUME NEW k \in Int, p.blk <= k, k < sent
          PROVE  Whole(k, Live)
      <4>1. k \in 1..(sent - 1)
        BY <1>1, <3>2, <3>3
      <4>2. Whole(k, net \cup Range(chan))
        BY <1>3, <1>4, <2>1, <4>1 DEF DeliveryInv
      <4>3. QED
        BY <4>2 DEF Whole, Live
    <3>4. Kept(p.blk)
      BY <3>3 DEF Kept
    <3>5. QED
      BY <3>1, <3>2, <3>4
  <2>2. CASE next_block # None
    <3>1. PICK b \in Nat \ {0} : Reached(b) /\ Kept(b)
      BY <1>3, <1>4, <2>2 DEF DeliveryInv
    <3>2. HeadAt(HeadFor(p), b)
      BY <1>2, <1>4, <2>2, <3>1, StartsInOrder
    <3>3. QED
      BY <3>1, <3>2
  <2>3. QED
    BY <2>1, <2>2
<1>7. PICK m \in Nat \ {0} :
        /\ m >= b /\ AtBlock(AfterHolCheck(HeadFor(Head(chan))), m)
        /\ \E k \in Nat \ {0} : k >= m /\ Reached(k)'
  BY <1>3, <1>6, ReceiveMovesOn
<1>8. PICK k \in Nat \ {0} : k >= m /\ Reached(k)'
  BY <1>7
<1>9. \A i \in Filled(blocks) : \A q \in blocks[i].got : q.blk < m + RingSize
  <2>1. \A i \in Filled(blocks) : \A q \in blocks[i].got : q.blk < b + RingSize
    BY <1>6 DEF HeadAt
  <2>2. \A i \in Filled(blocks) : \A q \in blocks[i].got : q.blk \in Int
    BY <1>1 DEF SentInv, HoldsSent, SentPackets, Packets, Blocks
  <2>3. QED
    BY <1>7, <2>1, <2>2, Moduli
<1>10. ASSUME NEW w \in Int, k <= w, w < sent
       PROVE  w \in decoded' \/ Whole(w, Live')
  <2>1. m <= w /\ b <= w
    BY <1>7, <1>8, <1>10
  <2>2. w \in decoded \/ Whole(w, Live)
    BY <1>6, <1>10, <2>1 DEF Kept
  <2>3. QED
    BY <1>3, <1>5, <1>7, <1>9, <2>1, <2>2, ReceiveKeepsWhole
<1>11. Kept(k)'
  <2>1. \A w \in Int : Whole(w, Live)' <=> Whole(w, Live')
    BY DEF Whole
  <2>2. QED
    BY <1>2, <1>10, <2>1 DEF Kept
<1>12. QED
  BY <1>8, <1>11

\* After a restart DeliveryInv says nothing, before it every step keeps it.
LEMMA NextDelivery == BaseInv /\ OrderInv /\ DeliveryInv /\ [Next]_vars => DeliveryInv'
<1> SUFFICES ASSUME BaseInv, OrderInv, DeliveryInv, [Next]_vars PROVE DeliveryInv'
  OBVIOUS
<1>1. CASE SendBlock
  BY <1>1, SendDelivery
<1>2. CASE RestartCamera
  <2>1. restart' # None
    <3>1. restart' \in Restarts
      BY <1>2, BaseFacts DEF RestartCamera, Restarts, RingInv
    <3>2. QED
      BY <3>1, NoneAssumption
  <2>2. QED
    BY <2>1 DEF DeliveryInv
<1>3. CASE Receive
  BY <1>3, ReceiveDelivery
<1>4. CASE (\E p \in net : Deliver(p)) \/ Timers \/ IdleVisit \/ UNCHANGED vars
  BY <1>4, OthersDelivery DEF Timers
<1>5. QED
  BY <1>1, <1>2, <1>3, <1>4 DEF Next, Sender, Receiver

\* The inductive invariant: on a network that loses nothing, every block from the head on
\* was decoded, or all its shards are in flight, in the channel or in its partial block.
THEOREM DeliveryInvariant == Spec => [](BaseInv /\ OrderInv /\ DeliveryInv)
<1>1. Init => BaseInv /\ OrderInv /\ DeliveryInv
  BY InitBase, InitOrder, InitDelivery
<1>2. (BaseInv /\ OrderInv /\ DeliveryInv) /\ [Next]_vars => (BaseInv /\ OrderInv /\ DeliveryInv)'
  BY NextBase, NextOrder, NextDelivery
<1>3. QED
  BY <1>1, <1>2, PTL DEF Spec

\* A partial block is not whole: its last shard would have completed it.
LEMMA PartialIsNotWhole ==
  ASSUME BaseInv, Ordinary, NEW b \in Int
  PROVE  ~Whole(b, InBlocks)
<1> SUFFICES ASSUME Whole(b, InBlocks) PROVE FALSE
  OBVIOUS
<1> DEFINE s == Slot(At(b))
<1>1. RingInv /\ HoldsSent(blocks) /\ RingOf(blocks, PartialBlock) /\ CountsAreRight
  BY BaseFacts DEF SentInv, RingInv
<1>2. ASSUME NEW i \in Filled(blocks), NEW p \in blocks[i].got, p.blk = b
      PROVE  i = s
  <2>1. p \in SentPackets /\ p.seq = blocks[i].seq /\ Slot(blocks[i].seq) = i
    BY <1>1 DEF HoldsSent, RingOf
  <2>2. p.seq = At(b)
    BY <1>2, <2>1 DEF SentPackets, Ordinary
  <2>3. QED
    BY <2>1, <2>2
<1> HIDE DEF s
<1>3. \A x \in Shards : \E p \in blocks[s].got : p.idx = x /\ s \in Filled(blocks)
  BY <1>2 DEF Whole, InBlocks
<1>4. DataShards \in Nat \ {0} /\ TotalShards \in Nat /\ DataShards <= TotalShards
  BY RingAssumption
<1>5. 0 \in Shards
  BY <1>4 DEF Shards
<1>6. s \in Filled(blocks) /\ blocks[s] \in PartialBlock
  BY <1>1, <1>3, <1>5 DEF RingOf, Filled
<1>7. Indices(blocks[s]) = Shards
  <2>1. \A p \in blocks[s].got : p.idx \in Shards
    BY <1>6 DEF PartialBlock, Packets
  <2>2. QED
    BY <1>3, <2>1 DEF Indices
<1>8. Cardinality(Shards) = TotalShards
  <2>1. Cardinality(0..(TotalShards - 1)) = (TotalShards - 1) - 0 + 1
    <3>1. 0 \in Int /\ TotalShards - 1 \in Int /\ 0 <= TotalShards - 1
      BY <1>4
    <3>2. QED
      BY <1>4, <3>1, FS_Interval
  <2>2. QED
    BY <1>4, <2>1 DEF Shards
<1>9. /\ blocks[s].received = Cardinality(Indices(blocks[s]))
      /\ blocks[s].received < DataShards
  BY <1>1, <1>6 DEF CountsAreRight
<1>10. QED
  BY <1>4, <1>7, <1>8, <1>9

\* On a network that loses nothing and never waits, whatever it reorders or duplicates, the
\* receiver that has emptied the channel waits for the block the camera sends next: every
\* block from the first one accepted on was decoded and handed to emit_block.
THEOREM AllDeliveredTheorem == Spec => []AllDeliveredWhenIdeal
<1>1. BaseInv /\ OrderInv /\ DeliveryInv => AllDeliveredWhenIdeal
  <2> SUFFICES ASSUME BaseInv, OrderInv, DeliveryInv,
                      network \cap {"loss", "stalls", "restart"} = {}, ~strayed,
                      net = {}, chan = <<>>, next_block # None
               PROVE  next_block = fec_block_seq
    BY DEF AllDeliveredWhenIdeal
  <2>1. "loss" \notin network /\ "stalls" \notin network /\ "restart" \notin network
    OBVIOUS
  <2>2. Counting /\ CountInv /\ sent \in Nat
    BY BaseFacts
  <2>3. restart = None /\ waits = 0 /\ ~hol_expired
    <3>1. restart = None /\ waits = 0
      BY <2>1, <2>2 DEF CountInv
    <3>2. hol_expired => waits > 0
      BY <2>2, Zenon DEF CountInv
    <3>3. ~(waits > 0)
      BY <3>1
    <3>4. QED
      BY <3>1, <3>2, <3>3, Zenon
  <2>4. Ordinary
    BY <2>2, <2>3 DEF Ordinary, CountInv
  <2>5. PICK b \in Nat \ {0} : Reached(b) /\ Kept(b)
    BY <2>1, <2>3 DEF DeliveryInv
  <2>6. b <= sent
    <3>1. b + (IF hol_expired THEN 1 ELSE 0) <= sent + waits
      BY <2>5 DEF Reached
    <3>2. b + 0 <= sent + 0
      BY <2>3, <3>1
    <3>3. QED
      BY <2>2, <3>2
  <2>7. Live = InBlocks
    BY DEF Live, Range
  <2>8. ~(b < sent)
    <3> SUFFICES ASSUME b < sent PROVE FALSE
      OBVIOUS
    <3>1. b \in Int /\ b <= b
      OBVIOUS
    <3>2. b \in decoded \/ Whole(b, Live)
      BY <3>1, <2>5 DEF Kept
    <3>3. b \notin decoded
      <4>1. decoded \subseteq Range(out) \cup Held(completed)
        BY <2>3 DEF OrderInv
      <4>2. \A j \in DOMAIN out : out[j] < b
        BY <2>5 DEF Reached
      <4>3. \A w \in Held(completed) : b < w
        BY <2>5 DEF Reached
      <4>4. ~(b < b)
        OBVIOUS
      <4>5. QED
        BY <4>1, <4>2, <4>3, <4>4 DEF Range
    <3>4. QED
      BY <2>4, <2>7, <3>1, <3>2, <3>3, PartialIsNotWhole
  <2>9. b = sent
    BY <2>2, <2>6, <2>8
  <2>10. At(sent) = fec_block_seq
    <3>1. fec_block_seq + (sent - sent) = fec_block_seq
      BY <2>2 DEF Counting, SeqNums
    <3>2. fec_block_seq % SeqMod = fec_block_seq
      BY <2>2, Moduli DEF Counting, SeqNums
    <3>3. QED
      BY <3>1, <3>2, Zenon DEF At
  <2>11. QED
    BY <2>5, <2>9, <2>10 DEF Reached
<1>2. QED
  BY <1>1, DeliveryInvariant, PTL

-----------------------------------------------------------------------------
\* After a restart of the camera the receiver's place cannot be told by blocks any more,
\* only by how far it came from the number it waited for then.
LEMMA Half ==
  /\ SeqMod \div 2 \in Nat /\ 2 * (SeqMod \div 2) <= SeqMod
  /\ LastBlock < SeqMod \div 2
<1>1. SeqMod \div 2 \in Nat /\ 2 * (SeqMod \div 2) <= SeqMod
  BY Moduli
<1>2. QED
  BY <1>1, RingAssumption

\* The packets that the camera has numbered as it does after a restart.
Renumbered ==
  {p \in Packets :
     restart # None /\ p.blk >= restart.blk => p.seq = p.blk - restart.blk}

\* Those of them that were not passed before the restart.
CaughtUp ==
  {p \in Renumbered :
     restart # None /\ p.blk >= restart.blk => p.seq >= restart.head}

\* All shards of a ring are in P.
HoldsIn(ring, P) == \A i \in Filled(ring) : ring[i].got \subseteq P

\* The receiver waited for a number, and has not come to 2^31 since.
Early ==
  /\ restart # None
  /\ restart.head # None
  /\ restart.head + moved < SeqMod \div 2

\* Then it is where it moved to, and holds and has shown only what caught up.
OnTime ==
  /\ next_block = restart.head + moved
  /\ HoldsIn(blocks, CaughtUp)
  /\ HoldsIn(completed, CaughtUp)
  /\ \A b \in Range(out) : b >= restart.blk => b - restart.blk >= restart.head

\* A restart does not come before the first block, and the numbers start from 0.
Restarted ==
  /\ restart = None => moved = 0
  /\ restart # None =>
       /\ restart.blk \in Nat \ {0} /\ restart.blk <= sent
       /\ fec_block_seq = sent - restart.blk
       /\ restart.head \in SeqNums \cup {None}

DarkInv ==
  /\ Restarted
  /\ moved \in 0..SeqMod
  /\ net \subseteq Renumbered
  /\ chan \in Seq(Renumbered)
  /\ Early => OnTime

-----------------------------------------------------------------------------
\* A step of at most two rings is counted in full while the numbers are early.
LEMMA MovedOn ==
  ASSUME restart # None, restart.head \in SeqNums, moved \in 0..SeqMod,
         next_block = restart.head + moved, next_block \in SeqNums,
         NEW a \in 0..(2 * RingSize + 1), NEW n, n = (next_block + a) % SeqMod,
         restart.head + MovedTo(n) < SeqMod \div 2
  PROVE  MovedTo(n) = moved + a /\ n = next_block + a /\ n < SeqMod \div 2
<1> DEFINE half == SeqMod \div 2
           m == MovedTo(n)
<1>1. /\ next_block \in Nat /\ restart.head \in Nat /\ a \in Nat /\ moved \in Nat
      /\ SeqMod \in Nat \ {0} /\ RingSize \in Nat /\ RingSize > 0
      /\ half \in Nat /\ 2 * half <= SeqMod
      /\ 2 * RingSize + 1 < SeqMod
  <2>1. 4 * RingSize < SeqMod /\ RingSize \in Nat \ {0} /\ SeqMod \in Nat \ {0}
    BY RingAssumption
  <2>2. RingSize > 0 /\ 2 * RingSize + 1 < SeqMod
    BY <2>1
  <2>3. QED
    BY <2>1, <2>2, Half DEF SeqNums
<1>2. a < SeqMod
  BY <1>1
<1>3. Dist(n, next_block) = a
  <2>1. -next_block \in Int /\ next_block + a \in Int
    BY <1>1
  <2>2. (((next_block + a) % SeqMod) + (-next_block)) % SeqMod
          = ((next_block + a) + (-next_block)) % SeqMod
    BY <1>1, <2>1, ModAdd, Zenon
  <2>3. (next_block + a) + (-next_block) = a
    BY <1>1
  <2>4. a % SeqMod = a
    BY <1>1, <1>2, ModSmall
  <2>5. n \in Int /\ n - next_block = n + (-next_block)
    BY <1>1
  <2>6. (n - next_block) % SeqMod = a
    BY <2>2, <2>3, <2>4, <2>5, Zenon
  <2>7. QED
    BY <2>6 DEF Dist
<1>4. next_block # None
  BY NoneAssumption
<1>5. m = IF moved + a < SeqMod THEN moved + a ELSE SeqMod
  BY <1>3, <1>4, Zenon DEF MovedTo
<1>6. restart.head + m < half
  OBVIOUS
<1> HIDE DEF half, m
<1>7. m = moved + a
  BY <1>1, <1>5, <1>6
<1>8. next_block + a < half /\ next_block + a < SeqMod
  BY <1>1, <1>6, <1>7
<1>9. (next_block + a) % SeqMod = next_block + a
  <2>1. next_block + a \in Int /\ 0 <= next_block + a
    BY <1>1
  <2>2. QED
    BY <1>1, <1>8, <2>1, ModSmall
<1>10. QED
  BY <1>7, <1>8, <1>9 DEF half, m

-----------------------------------------------------------------------------
\* What is emptied holds less.
LEMMA FewerHolds ==
  ASSUME NEW P, NEW c, HoldsIn(c, P), NEW d, \A i \in Filled(d) : i \in Filled(c) /\ d[i] = c[i]
  PROVE  HoldsIn(d, P)
  BY DEF HoldsIn

\* So drain_completed ...
LEMMA DrainHolds ==
  ASSUME Counting, NEW P, NEW r, IsSentRing(r), HoldsIn(r.completed, P)
  PROVE  HoldsIn(drain_completed(r).completed, P)
<1> DEFINE c == r.completed
           d == drain_completed(r)
<1>1. \E D : d.completed = [i \in Slots |-> IF i \in D THEN None ELSE c[i]]
  BY DEF drain_completed
<1>2. \A i \in Filled(d.completed) : i \in Filled(c) /\ d.completed[i] = c[i]
  BY <1>1 DEF Filled
<1> HIDE DEF d
<1>3. QED
  BY <1>2, FewerHolds DEF d

\* ... and making room.
LEMMA EvictHolds ==
  ASSUME NEW P, NEW r, IsSentRing(r), NEW seq \in SeqNums, HoldsIn(r.completed, P)
  PROVE  HoldsIn(Evict(seq, r).completed, P)
<1> DEFINE c == r.completed
           e == Evict(seq, r)
<1>1. r = [next |-> r.next, completed |-> r.completed, out |-> r.out, fresh |-> r.fresh]
      /\ DOMAIN c = Slots
  BY DEF IsSentRing, IsRing, RingOf
<1>2. e.completed = c \/ e.completed = [c EXCEPT ![Slot(seq)] = None]
  BY <1>1 DEF Evict
<1> HIDE DEF e, c
<1>3. \A i \in Filled(e.completed) : i \in Filled(c) /\ e.completed[i] = c[i]
  BY <1>1, <1>2 DEF Filled
<1>4. HoldsIn(c, P)
  BY DEF c
<1>5. QED
  BY <1>3, <1>4, FewerHolds DEF e

\* Storing a block adds its shards.
LEMMA PutHolds ==
  ASSUME NEW P, NEW Entries, NEW c, RingOf(c, Entries), HoldsIn(c, P), NEW x \in Slots,
         NEW b, b = None \/ b.got \subseteq P
  PROVE  HoldsIn([c EXCEPT ![x] = b], P)
<1> DEFINE d == [c EXCEPT ![x] = b]
<1>1. ASSUME NEW i \in Filled(d)
      PROVE  d[i].got \subseteq P
  <2>1. CASE i = x
    <3>1. d[i] = b /\ b # None
      BY <1>1, <2>1 DEF Filled, RingOf
    <3>2. QED
      BY <3>1
  <2>2. CASE i # x
    <3>1. d[i] = c[i] /\ i \in Filled(c)
      BY <1>1, <2>2 DEF Filled, RingOf
    <3>2. QED
      BY <3>1 DEF HoldsIn
  <2>3. QED
    BY <2>1, <2>2
<1> HIDE DEF d
<1>2. HoldsIn(d, P)
  BY <1>1 DEF HoldsIn
<1>3. QED
  BY <1>2 DEF d

\* Completing a block adds its shards.
LEMMA CompleteHolds ==
  ASSUME Counting, NEW P, NEW r, IsSentRing(r), HoldsIn(r.completed, P),
         NEW seq \in SeqNums, NEW b, IsSentBlock(b, seq), b.got \subseteq P
  PROVE  /\ HoldsIn(Stored(b, r).completed, P)
         /\ HoldsIn(Complete(b, r).completed, P)
<1> DEFINE s == Stored(b, r)
           v == [seq |-> seq, got |-> b.got]
<1>1. /\ IsSentRing(s) /\ s.completed = [r.completed EXCEPT ![Slot(seq)] = v]
      /\ Complete(b, r) = IF seq = r.next THEN drain_completed(s) ELSE s
  BY StoredIsSent
<1>2. v.got \subseteq P
  OBVIOUS
<1>3. Slot(seq) \in Slots /\ RingOf(r.completed, CompletedBlock)
  BY SlotInRing DEF IsSentRing, IsRing
<1> HIDE DEF v, s
<1>4. HoldsIn(s.completed, P)
  BY <1>1, <1>2, <1>3, PutHolds
<1>5. HoldsIn(drain_completed(s).completed, P)
  BY <1>1, <1>4, DrainHolds
<1>6. QED
  BY <1>1, <1>4, <1>5 DEF s

\* The blocks of packets.
BlksOf(P) == {p.blk : p \in P}

\* What a ring hands on comes from its shards.
LEMMA HeldCame ==
  ASSUME NEW P, NEW c, HoldsSent(c), HoldsIn(c, P)
  PROVE  Held(c) \subseteq BlksOf(P)
<1> SUFFICES ASSUME NEW i \in Filled(c)
             PROVE  BlkOf(c[i]) \in BlksOf(P)
  BY DEF Held
<1> DEFINE q == CHOOSE p \in c[i].got : TRUE
<1>1. c[i].got # {} /\ c[i].got \subseteq P
  BY DEF HoldsSent, HoldsIn
<1>2. q \in P
  BY <1>1
<1>3. QED
  BY <1>2 DEF BlkOf, BlksOf

\* Of the records on the way from a packet to the end of its iteration: the head is some
\* steps on, and all that is held and handed on is in P.
From(n, k, P, r) ==
  /\ IsSentRing(r)
  /\ \E a \in 0..k : r.next = (n + a) % SeqMod
  /\ HoldsIn(r.completed, P)
  /\ Range(Shown(r)) \subseteq Range(out) \cup BlksOf(P)

\* drain_completed goes on for at most a ring.
LEMMA DrainFrom ==
  ASSUME Counting, out \in Seq(1..(sent - 1)), NEW n \in SeqNums, NEW k \in Nat, NEW P,
         NEW r, From(n, k, P, r)
  PROVE  From(n, k + RingSize, P, drain_completed(r))
<1> DEFINE d == drain_completed(r)
<1>1. PICK j \in 0..RingSize : d.next = (r.next + j) % SeqMod
  BY DrainEffect DEF From
<1>2. PICK a \in 0..k : r.next = (n + a) % SeqMod
  BY DEF From
<1>3. d.next = (n + (a + j)) % SeqMod /\ a + j \in 0..(k + RingSize)
  <2>1. n + a \in Int /\ j \in Int /\ (n + a) + j = n + (a + j) /\ a + j \in 0..(k + RingSize)
    BY Moduli DEF SeqNums
  <2>2. (((n + a) % SeqMod) + j) % SeqMod = ((n + a) + j) % SeqMod
    BY <2>1, Moduli, ModAdd, Zenon
  <2>3. QED
    BY <1>1, <1>2, <2>1, <2>2, Zenon
<1>4. IsSentRing(d) /\ HoldsIn(d.completed, P)
  BY DrainEffect, DrainHolds DEF From
<1>5. Range(Shown(d)) \subseteq Range(Shown(r)) \cup Held(r.completed)
  BY DrainMoves DEF From
<1>6. Held(r.completed) \subseteq BlksOf(P)
  BY HeldCame DEF From, IsSentRing
<1> HIDE DEF d
<1>7. QED
  BY <1>3, <1>4, <1>5, <1>6 DEF From, d

\* The head-of-line check goes on for at most a ring and one.
LEMMA HolFrom ==
  ASSUME BaseInv, NEW n \in SeqNums, NEW P, HoldsIn(completed, P)
  PROVE  From(n, RingSize + 1, P, AfterHolCheck(n))
<1> DEFINE from(m) == [next |-> m, completed |-> completed, out |-> <<>>, fresh |-> FALSE]
           r == AfterHolCheck(n)
<1>1. Counting /\ RingInv /\ SentInv /\ RingOf(completed, CompletedBlock)
      /\ out \in Seq(1..(sent - 1))
  BY BaseFacts DEF RingInv, SentInv
<1>2. \A m : from(m).completed = completed /\ from(m).out = <<>> /\ from(m).next = m
  OBVIOUS
<1>3. r = drain_completed(from(Succ(n))) \/ r = from(n)
  BY DEF AfterHolCheck
<1>4. \A m \in SeqNums : IsRing(from(m))
  BY <1>1 DEF IsRing
<1> HIDE DEF from, r
<1>5. \A m \in SeqNums : IsSentRing(from(m))
  <2>1. HoldsSent(completed) /\ <<>> \in Seq(1..(sent - 1))
    BY <1>1 DEF SentInv
  <2>2. QED
    BY <1>2, <1>4, <2>1 DEF IsSentRing
<1>6. \A m : Shown(from(m)) = out
  <2>1. out \o <<>> = out
    BY <1>1
  <2>2. QED
    BY <1>2, <2>1 DEF Shown
<1>7. n \in Int /\ n = (n + 0) % SeqMod /\ Succ(n) = (n + 1) % SeqMod /\ Succ(n) \in SeqNums
  <2>1. n \in 0..(SeqMod - 1) /\ n + 0 = n
    BY DEF SeqNums
  <2>2. n % SeqMod = n
    BY <2>1, Moduli
  <2>3. QED
    BY <2>1, <2>2, SuccIsSeqNum DEF Succ
<1>8. From(n, 0, P, from(n)) /\ From(n, 1, P, from(Succ(n)))
  <2>1. 0 \in 0..0 /\ 1 \in 0..1
    OBVIOUS
  <2>2. QED
    BY <1>2, <1>5, <1>6, <1>7, <2>1 DEF From
<1>9. From(n, 1 + RingSize, P, drain_completed(from(Succ(n))))
  <2>1. 1 \in Nat
    OBVIOUS
  <2>2. QED
    BY <1>1, <1>8, <2>1, DrainFrom
<1>10. From(n, 0, P, from(n)) => From(n, RingSize + 1, P, from(n))
  <2>1. 0..0 \subseteq 0..(RingSize + 1)
    BY Moduli
  <2>2. QED
    BY <2>1 DEF From
<1>11. 1 + RingSize = RingSize + 1
  BY Moduli
<1>12. From(n, RingSize + 1, P, drain_completed(from(Succ(n))))
  BY <1>9, <1>11
<1>13. QED
  BY <1>3, <1>8, <1>10, <1>12 DEF r

\* Neither making room nor storing a block moves the head or hands anything on.
LEMMA SameFrom ==
  ASSUME NEW n, NEW k \in Nat, NEW P, NEW r, From(n, k, P, r),
         NEW s, IsSentRing(s), s.next = r.next, s.out = r.out, HoldsIn(s.completed, P)
  PROVE  From(n, k, P, s)
  BY DEF From, Shown

LEMMA FromMore ==
  ASSUME NEW n, NEW k \in Nat, NEW l \in Nat, k <= l, NEW P, NEW r, From(n, k, P, r)
  PROVE  From(n, l, P, r)
<1>1. 0..k \subseteq 0..l
  OBVIOUS
<1>2. QED
  BY <1>1 DEF From

\* A packet that is discarded, or whose shard is in P, keeps the rings in P, moves the head
\* by at most two rings and one, and shows nothing but what came in P.
LEMMA ReceiveFrom ==
  ASSUME BaseInv, Receive, NEW P, HoldsIn(blocks, P), HoldsIn(completed, P),
         LET p == Head(chan)
         IN  Discarded(p.seq, AfterHolCheck(HeadFor(p))) \/ p \in P
  PROVE  /\ HoldsIn(blocks', P)
         /\ \E s : /\ Commit(s)
                    /\ From(HeadFor(Head(chan)), 2 * RingSize + 1, P, s)
<1> DEFINE p == Head(chan)
           n == HeadFor(p)
           r == AfterHolCheck(n)
           b == JoinedBlock(p)
           e == Evict(p.seq, r)
<1>1. /\ Counting /\ RingInv /\ SentInv /\ HoldsSent(blocks) /\ RingOf(blocks, PartialBlock)
      /\ out \in Seq(1..(sent - 1))
  BY BaseFacts DEF SentInv, RingInv
<1>2. /\ p \in SentPackets /\ p.seq \in SeqNums /\ n \in SeqNums
      /\ IsSentRing(r)
      /\ Discards(p, r) \/ (Accepts(p, r) /\ (Joins(p, r) \/ Decodes(p, r)))
  BY <1>1, ReceiveCases
<1>3. From(n, RingSize + 1, P, r)
  BY <1>2, HolFrom
<1>4. Discarded(p.seq, r) \/ p \in P
  OBVIOUS
<1>5. /\ RingSize + 1 \in Nat /\ 2 * RingSize + 1 \in Nat /\ RingSize + 1 <= 2 * RingSize + 1
      /\ (RingSize + 1) + RingSize = 2 * RingSize + 1
  BY Moduli
<1> HIDE DEF p, n, r
<1>6. From(n, 2 * RingSize + 1, P, r)
  BY <1>3, <1>5, FromMore
<1>7. CASE Discards(p, r)
  <2>1. UNCHANGED blocks /\ Commit(r)
    BY <1>7 DEF Discards
  <2>2. QED
    BY <1>6, <2>1 DEF p, n
<1>8. ASSUME Accepts(p, r)
      PROVE  b.got \subseteq P /\ IsSentBlock(b, p.seq)
  <2>1. /\ IsSentBlock(b, p.seq)
        /\ b.got = {q \in Existing(p.seq).got : q.idx # p.idx} \cup {p}
        /\ \A q \in Existing(p.seq).got :
             \E i \in Filled(blocks) : i = Slot(p.seq) /\ blocks[i].seq = p.seq /\ q \in blocks[i].got
    BY <1>1, <1>2, JoinedIsSent
  <2>2. Existing(p.seq).got \subseteq P
    BY <2>1 DEF HoldsIn
  <2>3. p \in P
    BY <1>4, <1>8 DEF Accepts
  <2>4. QED
    BY <2>1, <2>2, <2>3
<1>9. IsSentRing(e) /\ e.next = r.next /\ e.out = r.out /\ HoldsIn(e.completed, P)
  BY <1>2, <1>3, EvictIsSent, EvictHolds DEF From
<1> HIDE DEF b, e
<1>10. From(n, RingSize + 1, P, e)
  BY <1>3, <1>5, <1>9, SameFrom
<1>11. From(n, 2 * RingSize + 1, P, e)
  BY <1>5, <1>10, FromMore
<1>12. ASSUME Accepts(p, r)
       PROVE  From(n, 2 * RingSize + 1, P, Complete(b, e))
  <2> DEFINE s == Stored(b, e)
  <2>1. /\ IsSentRing(s) /\ s.next = e.next /\ s.out = e.out
        /\ Complete(b, e) = IF p.seq = e.next THEN drain_completed(s) ELSE s
    <3> DEFINE seq == p.seq
    <3>1. seq \in SeqNums /\ IsSentBlock(b, seq) /\ IsSentRing(e)
      BY <1>2, <1>8, <1>9, <1>12
    <3> HIDE DEF seq
    <3>2. /\ IsSentRing(s) /\ s.next = e.next /\ s.out = e.out
          /\ Complete(b, e) = IF seq = e.next THEN drain_completed(s) ELSE s
      BY <3>1, StoredIsSent
    <3>3. QED
      BY <3>2 DEF seq
  <2>2. HoldsIn(s.completed, P)
    BY <1>1, <1>2, <1>8, <1>9, <1>12, CompleteHolds
  <2> HIDE DEF s
  <2>3. From(n, RingSize + 1, P, s)
    BY <1>5, <1>10, <2>1, <2>2, SameFrom
  <2>4. From(n, (RingSize + 1) + RingSize, P, drain_completed(s))
    BY <1>1, <1>2, <1>5, <2>3, DrainFrom
  <2>5. From(n, 2 * RingSize + 1, P, s)
    BY <1>5, <2>3, FromMore
  <2>6. From(n, 2 * RingSize + 1, P, drain_completed(s))
    BY <1>5, <2>4
  <2>7. QED
    BY <2>1, <2>5, <2>6
<1>13. CASE Accepts(p, r) /\ (Joins(p, r) \/ Decodes(p, r))
  <2>1. HoldsIn(blocks, P) /\ Slot(p.seq) \in Slots
    BY <1>2, SlotInRing
  <2>2. HoldsIn([blocks EXCEPT ![Slot(p.seq)] = b], P)
    BY <1>1, <1>8, <1>13, <2>1, PutHolds
  <2>3. HoldsIn([blocks EXCEPT ![Slot(p.seq)] = None], P)
    BY <1>1, <2>1, PutHolds
  <2>4. HoldsIn(blocks', P)
    BY <1>13, <2>2, <2>3 DEF Joins, Decodes, PutPartial, b
  <2>5. CASE Joins(p, r)
    BY <1>11, <2>4, <2>5 DEF Joins, e, p, n
  <2>6. CASE Decodes(p, r)
    BY <1>12, <1>13, <2>4, <2>6 DEF Decodes, b, e, p, n
  <2>7. QED
    BY <1>13, <2>5, <2>6
<1>14. QED
  BY <1>2, <1>7, <1>13

\* What is committed has its head at most a ring after that of the head-of-line check.
LEMMA CommitsAfter ==
  ASSUME BaseInv, Receive
  PROVE  LET r == AfterHolCheck(HeadFor(Head(chan)))
         IN  \E t : Commit(t) /\ \E j \in 0..RingSize : t.next = (r.next + j) % SeqMod
<1> DEFINE p == Head(chan)
           r == AfterHolCheck(HeadFor(p))
           b == JoinedBlock(p)
           e == Evict(p.seq, r)
<1>1. Counting /\ RingInv /\ SentInv
  BY BaseFacts
<1>2. /\ p \in SentPackets /\ p.seq \in SeqNums /\ IsSentRing(r)
      /\ Discards(p, r) \/ (Accepts(p, r) /\ (Joins(p, r) \/ Decodes(p, r)))
  BY <1>1, ReceiveCases
<1> HIDE DEF p, r
<1>3. IsSentRing(e) /\ e.next = r.next
  BY <1>2, EvictIsSent
<1>4. IsSentBlock(b, p.seq)
  BY <1>1, <1>2, JoinedIsSent DEF SentInv
<1> HIDE DEF b, e
<1> DEFINE s == Stored(b, e)
<1>5. /\ IsSentRing(s) /\ s.next = e.next
      /\ Complete(b, e) = IF p.seq = e.next THEN drain_completed(s) ELSE s
  <2> DEFINE seq == p.seq
  <2>1. seq \in SeqNums /\ IsSentBlock(b, seq) /\ IsSentRing(e)
    BY <1>2, <1>3, <1>4
  <2> HIDE DEF seq
  <2>2. IsSentRing(s)
    BY <2>1, StoredIsSent
  <2>3. s.next = e.next
    BY <2>1, StoredIsSent
  <2>4. Complete(b, e) = IF seq = e.next THEN drain_completed(s) ELSE s
    BY <2>1, StoredIsSent
  <2>5. QED
    BY <2>2, <2>3, <2>4 DEF seq
<1> HIDE DEF s
<1>6. \E j \in 0..RingSize : drain_completed(s).next = (s.next + j) % SeqMod
  BY <1>1, <1>5, DrainEffect
<1>7. 0 \in 0..RingSize /\ r.next = (r.next + 0) % SeqMod
  <2>1. r.next \in 0..(SeqMod - 1)
    BY <1>2 DEF IsSentRing, IsRing, SeqNums
  <2>2. QED
    BY <2>1, Moduli
<1>8. \E t : Commit(t) /\ (t = r \/ t = e \/ t = Complete(b, e))
  BY <1>2 DEF Discards, Joins, Decodes, b, e
<1>9. QED
  BY <1>3, <1>5, <1>6, <1>7, <1>8 DEF r, p

-----------------------------------------------------------------------------
\* DarkInv is inductive: it holds at the start, and every step keeps it.
LEMMA InitDark == Init => DarkInv
<1> SUFFICES ASSUME Init PROVE DarkInv
  OBVIOUS
<1>1. restart = None /\ moved = 0 /\ net = {} /\ chan = <<>>
  BY DEF Init
<1>2. 0 \in 0..SeqMod /\ <<>> \in Seq(Renumbered)
  BY Moduli
<1>3. QED
  BY <1>1, <1>2 DEF DarkInv, Restarted, Early

\* A step that leaves the receiver as it is keeps it where it was.
LEMMA OnTimeKept ==
  ASSUME UNCHANGED <<restart, blocks, completed, next_block, out, moved>>
  PROVE  /\ Early' <=> Early
         /\ OnTime' <=> OnTime
         /\ Renumbered' = Renumbered
<1>1. Renumbered' = Renumbered
  BY DEF Renumbered
<1>2. CaughtUp' = CaughtUp
  BY <1>1 DEF CaughtUp
<1>3. Early' <=> Early
  BY DEF Early
<1>4. OnTime' <=> OnTime
  BY <1>2 DEF OnTime, HoldsIn, Filled, Range
<1>5. QED
  BY <1>1, <1>3, <1>4

\* The camera's next block bears the next number.
LEMMA SendDark ==
  ASSUME BaseInv, DarkInv, SendBlock
  PROVE  DarkInv'
<1>1. /\ Counting /\ RingInv /\ CountInv /\ SentInv /\ sent \in Nat /\ RingInv'
      /\ fec_block_seq \in SeqNums
  <2>1. RingInv'
    BY BaseFacts, NextRing DEF Next, Sender
  <2>2. QED
    BY <2>1, BaseFacts DEF RingInv
<1>2. /\ sent' = sent + 1 /\ fec_block_seq' = Succ(fec_block_seq)
      /\ UNCHANGED <<restart, chan, blocks, completed, next_block, out, moved>>
  BY DEF SendBlock, hist
<1>3. Restarted'
  <2>1. ASSUME restart # None
        PROVE  fec_block_seq' = sent' - restart.blk
    <3>1. sent <= LastBlock + 1 /\ restart.blk \in Nat \ {0} /\ restart.blk <= sent
          /\ fec_block_seq = sent - restart.blk
      BY <1>1, <2>1, Bounds DEF DarkInv, Restarted, SendBlock
    <3> DEFINE half == SeqMod \div 2
    <3>2. LastBlock < half /\ 2 * half <= SeqMod /\ half \in Nat /\ SeqMod \in Nat
          /\ LastBlock \in Nat
      BY Half, Moduli, Bounds
    <3> HIDE DEF half
    <3>3. fec_block_seq + 1 \in 0..(SeqMod - 1) /\ fec_block_seq + 1 = (sent + 1) - restart.blk
      BY <1>1, <3>1, <3>2
    <3>4. (fec_block_seq + 1) % SeqMod = fec_block_seq + 1
      BY <3>3, Moduli
    <3>5. QED
      BY <1>2, <3>3, <3>4 DEF Succ
  <2>2. restart # None => restart.blk \in Nat \ {0} /\ restart.blk <= sent'
    BY <1>1, <1>2 DEF DarkInv, Restarted
  <2>3. QED
    BY <1>2, <2>1, <2>2 DEF DarkInv, Restarted
<1>4. ASSUME NEW p \in net'
      PROVE  p \in Renumbered
  <2>1. CASE p \in net
    BY <2>1 DEF DarkInv
  <2>2. CASE p \notin net
    <3>1. p.blk = sent /\ p.seq = fec_block_seq
      BY <1>4, <2>2 DEF SendBlock
    <3>2. p \in Packets
      BY <1>1, <1>4 DEF RingInv
    <3>3. restart # None => fec_block_seq = sent - restart.blk
      BY DEF DarkInv, Restarted
    <3>4. QED
      BY <3>1, <3>2, <3>3 DEF Renumbered
  <2>3. QED
    BY <2>1, <2>2
<1>5. /\ Early' <=> Early
      /\ OnTime' <=> OnTime
      /\ Renumbered' = Renumbered
  BY <1>2, OnTimeKept
<1>6. QED
  BY <1>2, <1>3, <1>4, <1>5 DEF DarkInv

\* At a restart the receiver is where it is, and nothing of the new process was received.
LEMMA RestartDark ==
  ASSUME BaseInv, DarkInv, RestartCamera
  PROVE  DarkInv'
<1>1. /\ Counting /\ RingInv /\ CountInv /\ SentInv /\ sent \in Nat \ {0}
      /\ next_block \in SeqNums \cup {None}
  BY BaseFacts DEF RingInv
<1>2. /\ restart = None /\ fec_block_seq' = 0
      /\ restart'.blk = sent /\ restart'.head = next_block
      /\ UNCHANGED <<sent, net, chan, blocks, completed, next_block, out, moved>>
  BY DEF RestartCamera, hist
<1>3. moved = 0
  BY <1>2 DEF DarkInv, Restarted
<1>4. restart' # None
  BY <1>1, NoneAssumption DEF RestartCamera, Restarts
<1>5. Restarted'
  BY <1>1, <1>2, <1>4 DEF Restarted
<1>6. ASSUME NEW p \in SentPackets
      PROVE  p \in Renumbered' /\ p \in CaughtUp'
  <2>1. p \in Packets /\ p.blk < sent /\ p.blk \in Nat
    BY Bounds DEF SentPackets, Packets, Blocks
  <2>2. ~(p.blk >= restart'.blk)
    BY <1>1, <1>2, <2>1
  <2>3. QED
    BY <2>1, <2>2 DEF Renumbered, CaughtUp
<1>7. net' \subseteq Renumbered' /\ chan' \in Seq(Renumbered')
  <2>1. SentPackets \subseteq Renumbered'
    BY <1>6
  <2>2. chan \in Seq(SentPackets) /\ net \subseteq SentPackets
    BY <1>1 DEF SentInv
  <2>3. QED
    BY <1>2, <2>1, <2>2, SeqMonotonic
<1>8. ASSUME Early'
      PROVE  OnTime'
  <2>1. next_block # None /\ next_block \in Int
    BY <1>1, <1>2, <1>8 DEF Early, SeqNums
  <2>2. next_block' = restart'.head + moved'
    BY <1>2, <1>3, <2>1
  <2>3. HoldsIn(blocks, CaughtUp)' /\ HoldsIn(completed, CaughtUp)'
    <3>1. SentPackets \subseteq CaughtUp'
      BY <1>6
    <3>2. HoldsSent(blocks) /\ HoldsSent(completed)
      BY <1>1 DEF SentInv
    <3>3. QED
      BY <1>2, <3>1, <3>2 DEF HoldsSent, HoldsIn, Filled
  <2>4. \A b \in Range(out') : ~(b >= restart'.blk)
    <3>1. out \in Seq(1..(sent - 1))
      BY <1>1 DEF SentInv
    <3>2. \A j \in DOMAIN out : out[j] \in 1..(sent - 1)
      BY <3>1, SeqElements
    <3>3. QED
      BY <1>1, <1>2, <3>2 DEF Range
  <2>5. QED
    BY <2>2, <2>3, <2>4 DEF OnTime, Range
<1>9. QED
  BY <1>2, <1>5, <1>7, <1>8 DEF DarkInv

\* Delivery and the timers leave the receiver as it is.
LEMMA DeliverDark ==
  ASSUME DarkInv, (\E p \in net : Deliver(p)) \/ Timers \/ UNCHANGED vars
  PROVE  DarkInv'
<1>1. UNCHANGED <<sent, fec_block_seq, restart, blocks, completed, next_block, out, moved>>
  BY DEF Deliver, Timers, HolTimerExpires, DecodeTimerExpires, env, hist, vars
<1>2. /\ Early' <=> Early
      /\ OnTime' <=> OnTime
      /\ Renumbered' = Renumbered
  BY <1>1, OnTimeKept
<1>3. net' \subseteq Renumbered /\ chan' \in Seq(Renumbered)
  <2>1. net \subseteq Renumbered /\ chan \in Seq(Renumbered)
    BY DEF DarkInv
  <2>2. ASSUME NEW p \in net, Deliver(p)
        PROVE  net' \subseteq Renumbered /\ chan' \in Seq(Renumbered)
    <3>1. net' \subseteq net
      BY <2>2 DEF Deliver
    <3>2. chan' = Append(chan, p) \/ chan' = chan
      BY <2>2 DEF Deliver
    <3>3. p \in Renumbered
      BY <2>1
    <3>4. Append(chan, p) \in Seq(Renumbered)
      BY <2>1, <3>3, AppendProperties
    <3>5. QED
      BY <2>1, <3>1, <3>2, <3>4
  <2>3. CASE Timers \/ UNCHANGED vars
    BY <2>1, <2>3 DEF Timers, HolTimerExpires, DecodeTimerExpires, env, vars
  <2>4. QED
    BY <2>2, <2>3
<1>4. Restarted'
  BY <1>1 DEF DarkInv, Restarted
<1>5. QED
  BY <1>1, <1>2, <1>3, <1>4 DEF DarkInv

\* The receiver's move to n leaves a receiver that is early where it moved to.
LEMMA StillEarly ==
  ASSUME DarkInv, restart' = restart, NEW n \in SeqNums, MoveHead(n),
         next_block \in SeqNums \cup {None}, Early',
         NEW a \in 0..(2 * RingSize + 1), next_block # None => n = (next_block + a) % SeqMod
  PROVE  /\ Early /\ OnTime /\ next_block \in SeqNums
         /\ moved' = moved + a /\ n = next_block + a /\ n < SeqMod \div 2
         /\ restart.head \in SeqNums
<1>1. moved \in 0..SeqMod /\ moved' = MovedTo(n) /\ next_block' = n
  BY DEF DarkInv, MoveHead
<1>2. moved' \in 0..SeqMod /\ moved' >= moved
  BY <1>1, MovedType
<1>3. restart # None /\ restart.head \in SeqNums /\ restart.head + moved' < SeqMod \div 2
  BY DEF Early, DarkInv, Restarted
<1>4. Early
  <2>1. restart.head \in Nat /\ SeqMod \div 2 \in Nat
    BY <1>3, Half DEF SeqNums
  <2> DEFINE half == SeqMod \div 2
  <2>2. half \in Nat /\ restart.head + moved' < half
    BY <1>3, <2>1
  <2> HIDE DEF half
  <2>3. restart.head + moved < half
    BY <1>1, <1>2, <2>1, <2>2
  <2>4. restart.head # None
    BY <1>3, NoneAssumption
  <2>5. QED
    BY <1>3, <2>3, <2>4 DEF Early, half
<1>5. OnTime /\ next_block = restart.head + moved
  BY <1>4 DEF DarkInv, OnTime
<1>6. next_block \in SeqNums
  <2>1. restart.head + moved \in Nat
    BY <1>1, <1>3 DEF SeqNums
  <2> DEFINE half == SeqMod \div 2
  <2>2. restart.head + moved < half /\ 2 * half <= SeqMod /\ half \in Nat /\ SeqMod \in Nat
    BY <1>4, Half, Moduli DEF Early
  <2> HIDE DEF half
  <2>3. restart.head + moved \in 0..(SeqMod - 1)
    BY <2>1, <2>2
  <2>4. QED
    BY <1>5, <2>3 DEF SeqNums
<1>7. next_block # None
  BY <1>6, NoneAssumption
<1>8. MovedTo(n) = moved + a /\ n = next_block + a /\ n < SeqMod \div 2
  BY <1>1, <1>3, <1>5, <1>6, <1>7, MovedOn
<1>9. QED
  BY <1>1, <1>3, <1>4, <1>5, <1>6, <1>8

\* The idle visit moves on by one, or not at all.
LEMMA IdleDark ==
  ASSUME BaseInv, DarkInv, IdleVisit
  PROVE  DarkInv'
<1>1. RingInv /\ next_block \in SeqNums \cup {None} /\ RingOf(blocks, PartialBlock)
  BY BaseFacts DEF RingInv
<1>2. UNCHANGED <<sent, fec_block_seq, restart, net, chan, completed, out>>
  BY DEF IdleVisit, MoveHead, env
<1>3. CASE UNCHANGED <<blocks, next_block, strayed, moved>>
  BY <1>2, <1>3, OnTimeKept DEF DarkInv, Restarted
<1>4. ASSUME next_block # None, blocks' = [blocks EXCEPT ![Slot(next_block)] = None],
             MoveHead(Succ(next_block))
      PROVE  DarkInv'
  <2>1. Succ(next_block) \in SeqNums /\ next_block \in SeqNums
    BY <1>1, <1>4, SuccIsSeqNum
  <2>2. moved' \in 0..SeqMod
    BY <1>1, <1>4, <2>1, MovedType DEF DarkInv, MoveHead
  <2>3. Restarted'
    BY <1>2, <1>4 DEF DarkInv, Restarted, MoveHead, MovedTo
  <2>4. Renumbered' = Renumbered /\ CaughtUp' = CaughtUp
    BY <1>2 DEF Renumbered, CaughtUp
  <2>5. ASSUME Early'
        PROVE  OnTime'
    <3>1. 1 \in 0..(2 * RingSize + 1) /\ Succ(next_block) = (next_block + 1) % SeqMod
      BY Moduli DEF Succ
    <3>2. /\ OnTime /\ moved' = moved + 1 /\ Succ(next_block) = next_block + 1
          /\ restart.head \in SeqNums
      BY <1>1, <1>2, <1>4, <2>1, <2>5, <3>1, StillEarly
    <3>3. HoldsIn(blocks', CaughtUp)
      <4>1. Slot(next_block) \in Slots
        BY <2>1, SlotInRing
      <4>2. HoldsIn([blocks EXCEPT ![Slot(next_block)] = None], CaughtUp)
        BY <1>1, <3>2, <4>1, PutHolds DEF OnTime
      <4>3. QED
        BY <1>4, <4>2
    <3>4. next_block' = restart.head + moved'
      <4>1. next_block = restart.head + moved /\ moved \in Int /\ restart.head \in Int
        BY <3>2 DEF OnTime, SeqNums, DarkInv
      <4>2. next_block' = next_block + 1
        BY <1>4, <3>2 DEF MoveHead
      <4>3. QED
        BY <3>2, <4>1, <4>2
    <3>5. QED
      BY <1>2, <2>4, <3>2, <3>3, <3>4 DEF OnTime, HoldsIn, Filled, Range
  <2>6. QED
    BY <1>2, <2>2, <2>3, <2>4, <2>5 DEF DarkInv
<1>5. QED
  BY <1>3, <1>4 DEF IdleVisit, MoveHead

\* What the receiver does not discard while it is early has caught up.
LEMMA AcceptedCaughtUp ==
  ASSUME restart # None, restart.head \in SeqNums, restart.blk \in Nat \ {0},
         NEW p \in Renumbered, NEW r, r.next \in Nat, restart.head <= r.next,
         r.next < SeqMod \div 2, ~Discarded(p.seq, r)
  PROVE  p \in CaughtUp
<1> SUFFICES ASSUME p.blk >= restart.blk
             PROVE  p.seq >= restart.head
  BY DEF CaughtUp
<1> DEFINE half == SeqMod \div 2
           n == r.next
<1>1. p.seq = p.blk - restart.blk /\ p.blk \in Nat /\ p.blk <= LastBlock + 1
  BY Bounds DEF Renumbered, Packets, Blocks
<1>2. /\ half \in Nat /\ 2 * half <= SeqMod /\ LastBlock < half /\ LastBlock \in Nat
      /\ SeqMod \in Nat \ {0} /\ restart.head \in Nat /\ n \in Nat /\ n < half
  BY Half, Moduli, Bounds DEF SeqNums
<1>3. p.seq = n \/ Dist(p.seq, n) < half
  BY DEF Discarded, is_future_block
<1> HIDE DEF half, n
<1>4. p.seq \in Nat /\ p.seq < half
  BY <1>1, <1>2
<1>5. ASSUME p.seq < n
      PROVE  FALSE
  <2>1. p.seq - n \in Int /\ p.seq - n < 0 /\ -(p.seq - n) <= SeqMod
    BY <1>2, <1>4, <1>5
  <2>2. (p.seq - n) % SeqMod = (p.seq - n) + SeqMod
    BY <1>2, <2>1, ModSmall
  <2>3. Dist(p.seq, n) = (p.seq - n) + SeqMod
    BY <2>2 DEF Dist
  <2>4. QED
    BY <1>2, <1>3, <1>4, <1>5, <2>3
<1>6. restart.head <= n
  BY DEF n
<1>7. QED
  BY <1>2, <1>4, <1>5, <1>6

\* A packet moves the receiver on, and shows nothing but what caught up.
LEMMA ReceiveDark ==
  ASSUME BaseInv, DarkInv, Receive
  PROVE  DarkInv'
<1> DEFINE p == Head(chan)
           n == HeadFor(p)
           r == AfterHolCheck(n)
<1>1. /\ Counting /\ RingInv /\ SentInv /\ next_block \in SeqNums \cup {None}
      /\ RingOf(completed, CompletedBlock)
  BY BaseFacts DEF RingInv
<1>2. UNCHANGED <<network, sent, fec_block_seq, restart, net>> /\ chan' = Tail(chan)
      /\ n \in SeqNums
  BY <1>1, ReceiveCases
<1>3. p \in Renumbered /\ Tail(chan) \in Seq(Renumbered)
  <2>1. chan \in Seq(Renumbered) /\ chan # <<>>
    BY DEF DarkInv, Receive
  <2>2. QED
    BY <2>1, HeadTailProperties
<1>4. Renumbered' = Renumbered /\ CaughtUp' = CaughtUp
  BY <1>2 DEF Renumbered, CaughtUp
<1>5. PICK s : Commit(s) /\ IsSentRing(s)
  <2>1. HoldsIn(blocks, Packets) /\ HoldsIn(completed, Packets) /\ p \in Packets
    BY <1>1, <1>3 DEF Renumbered, SentInv, HoldsSent, HoldsIn, SentPackets
  <2>2. QED
    BY <2>1, ReceiveFrom DEF From
<1> HIDE DEF p, n, r
<1>6. s.next \in SeqNums /\ MoveHead(s.next)
  BY <1>5 DEF Commit, MoveHead, IsSentRing, IsRing
<1>7. moved' \in 0..SeqMod
  BY <1>1, <1>6, MovedType DEF DarkInv, MoveHead
<1>8. Restarted'
  BY <1>2, <1>6 DEF DarkInv, Restarted, MoveHead, MovedTo
<1>9. ASSUME Early'
      PROVE  OnTime'
  <2>1. Early /\ OnTime /\ next_block \in SeqNums /\ restart.head \in SeqNums
    <3>1. moved' >= moved /\ moved \in 0..SeqMod
      BY <1>1, <1>6, MovedType DEF DarkInv, MoveHead
    <3>2. restart # None /\ restart.head \in SeqNums /\ restart.head # None
          /\ restart.head + moved' < SeqMod \div 2
      BY <1>2, <1>9 DEF Early, DarkInv, Restarted
    <3> DEFINE half == SeqMod \div 2
    <3>3. restart.head + moved' < half /\ half \in Nat /\ restart.head \in Nat
      BY <3>2, Half DEF SeqNums
    <3> HIDE DEF half
    <3>4. restart.head + moved < half
      BY <1>7, <3>1, <3>3
    <3>5. Early
      BY <3>2, <3>4 DEF Early, half
    <3>6. OnTime
      BY <3>5 DEF DarkInv
    <3>7. next_block # None
      <4>1. restart.head + moved \in 0..(SeqMod - 1)
        <5>1. 2 * half <= SeqMod /\ SeqMod \in Nat
          BY Half, Moduli DEF half
        <5>2. QED
          BY <3>1, <3>3, <3>4, <5>1
      <4>2. next_block \in SeqNums
        BY <3>6, <4>1 DEF OnTime, SeqNums
      <4>3. QED
        BY <4>2, NoneAssumption
    <3>8. QED
      BY <1>1, <3>2, <3>5, <3>6, <3>7
  <2>2. n = next_block
    BY <2>1, NoneAssumption DEF n, HeadFor
  <2>3. HoldsIn(blocks, CaughtUp) /\ HoldsIn(completed, CaughtUp)
    BY <2>1 DEF OnTime
  <2>4. Discarded(p.seq, r) \/ p \in CaughtUp
    <3> SUFFICES ASSUME ~Discarded(p.seq, r) PROVE p \in CaughtUp
      OBVIOUS
    <3>1. PICK a \in 0..(RingSize + 1) : r.next = (next_block + a) % SeqMod
      BY <2>1, <2>2, <2>3, HolFrom DEF From, r
    <3>2. PICK t : Commit(t) /\ \E j \in 0..RingSize : t.next = (r.next + j) % SeqMod
      BY CommitsAfter DEF p, n, r
    <3>3. PICK j \in 0..RingSize : t.next = (r.next + j) % SeqMod
      BY <3>2
    <3>4. t.next = (next_block + (a + j)) % SeqMod /\ a + j \in 0..(2 * RingSize + 1)
      <4>1. /\ next_block + a \in Int /\ j \in Int /\ (next_block + a) + j = next_block + (a + j)
            /\ a + j \in 0..(2 * RingSize + 1)
        BY <2>1, Moduli DEF SeqNums
      <4>2. (((next_block + a) % SeqMod) + j) % SeqMod = ((next_block + a) + j) % SeqMod
        BY <4>1, Moduli, ModAdd, Zenon
      <4>3. QED
        BY <3>1, <3>3, <4>1, <4>2, Zenon
    <3>5. t.next \in SeqNums /\ MoveHead(t.next)
      <4>1. t.next = s.next
        BY <1>5, <3>2 DEF Commit, MoveHead
      <4>2. QED
        BY <1>6, <4>1
    <3>6. next_block + (a + j) < SeqMod \div 2
      BY <1>1, <1>2, <1>9, <3>4, <3>5, StillEarly
    <3>7. /\ r.next = next_block + a /\ next_block + a < SeqMod \div 2
          /\ next_block + a \in Nat
      <4> DEFINE half == SeqMod \div 2
      <4>1. /\ half \in Nat /\ 2 * half <= SeqMod /\ SeqMod \in Nat \ {0}
            /\ next_block \in Nat /\ a \in Nat /\ j \in Nat
            /\ next_block + (a + j) < half
        BY <2>1, <3>6, Half, Moduli DEF SeqNums
      <4> HIDE DEF half
      <4>2. next_block + a < half /\ next_block + a < SeqMod /\ next_block + a \in Nat
        BY <4>1
      <4>3. (next_block + a) % SeqMod = next_block + a
        <5>1. next_block + a \in Int /\ 0 <= next_block + a
          BY <4>1
        <5>2. QED
          BY <4>1, <4>2, <5>1, ModSmall
      <4>4. QED
        BY <3>1, <4>2, <4>3 DEF half
    <3>8. restart.head <= next_block + a
      BY <2>1 DEF OnTime, DarkInv, SeqNums
    <3>9. QED
      BY <1>3, <2>1, <3>7, <3>8, AcceptedCaughtUp DEF Early, DarkInv, Restarted
  <2>5. PICK t : Commit(t) /\ From(next_block, 2 * RingSize + 1, CaughtUp, t)
        /\ HoldsIn(blocks', CaughtUp)
    BY <2>2, <2>3, <2>4, ReceiveFrom DEF p, n, r
  <2>6. PICK a \in 0..(2 * RingSize + 1) : t.next = (next_block + a) % SeqMod
    BY <2>5 DEF From
  <2>7. /\ next_block' = t.next /\ completed' = t.completed /\ out' = Shown(t)
        /\ t.next \in SeqNums /\ MoveHead(t.next)
    BY <2>5 DEF Commit, MoveHead, Shown, From, IsSentRing, IsRing
  <2>8. moved' = moved + a /\ t.next = next_block + a
    BY <1>1, <1>2, <1>9, <2>6, <2>7, StillEarly
  <2>9. next_block' = restart.head + moved'
    <3>1. next_block = restart.head + moved /\ moved \in Int /\ restart.head \in Int /\ a \in Int
      BY <2>1 DEF OnTime, SeqNums, DarkInv
    <3>2. QED
      BY <2>7, <2>8, <3>1
  <2>10. HoldsIn(completed', CaughtUp)
    BY <2>5, <2>7 DEF From
  <2>11. \A b \in Range(out') : b >= restart.blk => b - restart.blk >= restart.head
    <3>1. Range(out') \subseteq Range(out) \cup BlksOf(CaughtUp)
      BY <2>5, <2>7 DEF From
    <3>2. \A b \in Range(out) : b >= restart.blk => b - restart.blk >= restart.head
      BY <2>1 DEF OnTime
    <3>3. \A q \in CaughtUp : q.blk >= restart.blk => q.blk - restart.blk >= restart.head
      BY <2>1 DEF CaughtUp, Renumbered, Early
    <3>4. QED
      BY <3>1, <3>2, <3>3 DEF BlksOf
  <2>12. QED
    BY <1>2, <1>4, <2>5, <2>9, <2>10, <2>11 DEF OnTime, HoldsIn, Filled, Range
<1>10. net' \subseteq Renumbered' /\ chan' \in Seq(Renumbered')
  BY <1>2, <1>3, <1>4 DEF DarkInv
<1>11. QED
  BY <1>7, <1>8, <1>9, <1>10 DEF DarkInv

LEMMA NextDark == BaseInv /\ DarkInv /\ [Next]_vars => DarkInv'
  BY SendDark, RestartDark, DeliverDark, IdleDark, ReceiveDark DEF Next, Sender, Receiver

\* After a restart of the camera nothing of the new process is shown whose number the
\* receiver had passed, over any network and whatever it skips, idle or at a missing head:
\* its head only moves on, and what it does not discard lies ahead of it.
THEOREM DarkTheorem == Spec => []DarkUntilCaughtUp
<1>1. DarkInv => DarkUntilCaughtUp
  <2> SUFFICES ASSUME DarkInv, Early, NEW j \in DOMAIN out, out[j] >= restart.blk
               PROVE  out[j] - restart.blk >= restart.head
    BY DEF DarkUntilCaughtUp, Early
  <2>1. out[j] \in Range(out)
    BY DEF Range
  <2>2. QED
    BY <2>1 DEF DarkInv, OnTime
<1>2. Init => BaseInv /\ DarkInv
  BY InitBase, InitDark
<1>3. BaseInv /\ DarkInv /\ [Next]_vars => (BaseInv /\ DarkInv)'
  BY NextBase, NextDark
<1>4. QED
  BY <1>1, <1>2, <1>3, PTL DEF Spec

==============================================================================
