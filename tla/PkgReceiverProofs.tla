------------------------- MODULE PkgReceiverProofs -------------------------
(***************************************************************************)
(* How packets become what a client is sent: Pkg_Receiver puts the packets *)
(* of a sender in order (ResendProtocol), and hands NALUs to the queues of *)
(* sources from its thread (WisMediaSource).                               *)
(*                                                                         *)
(* For any sizes of NALUs, ring and window, any number of rounds and of    *)
(* restarts, and any packets that are lost, late or sent again: what the   *)
(* callback is given has all slots of a NALU in order; and until one of    *)
(* the mishaps that "misled" names, it is the NALU that was sent, NALUs    *)
(* are in order, and one is skipped only when a packet of it was given up. *)
(* The ring hides where a packet belongs: its slot says it only among      *)
(* packets of one round.  So the invariant (ProtocolInv) says that what is *)
(* in a slot has that slot (Sound), which is all that holds of packets of  *)
(* other rounds; and, until a mishap, which packets the head, the tail and *)
(* the current slot stand for (Covered), and that NALUs were given in the  *)
(* order of the chain that ends in the head (Chain).                       *)
(*                                                                         *)
(* For any length of the queue and any number of sources and nalus: neither*)
(* thread uses a source that is gone, no nalu is lost between the threads, *)
(* and none is copied to a buffer that no reader gave.  That the locks     *)
(* exclude what they must is "Owners"; that at most one task of a source is*)
(* scheduled, so that its destructor knows of it, "Polling".               *)
(***************************************************************************)
EXTENDS ResendProtocol, WisMediaSource,
        SequenceTheorems, FiniteSetTheorems, WellFoundedInduction, TLAPS

-----------------------------------------------------------------------------
(***************************************************************************)
(* The ring of slots.                                                      *)
(***************************************************************************)

\* The constants, as the proofs use them.
LEMMA Constants ==
  /\ QueueSize \in Nat \ {0} /\ WindowSize \in Nat \ {0} /\ Countdown \in Nat \ {0}
  /\ MaxRequests \in Nat /\ FirstSlot \in Nat /\ 4 * WindowSize <= QueueSize
  /\ Len(NaluSizes) \in Nat /\ NaluSizes \in Seq(Nat \ {0})
  /\ Invalid \notin Int /\ none \notin Slots
  /\ \A nalu \in 1 .. Len(NaluSizes) : NaluSizes[nalu] \in Nat \ {0}
<1>1. NaluSizes \in Seq(Nat \ {0})
  BY BufferAssumption
<1>2. Len(NaluSizes) \in Nat
        /\ \A nalu \in 1 .. Len(NaluSizes) : NaluSizes[nalu] \in Nat \ {0}
  BY <1>1
<1>3. QueueSize \in Nat \ {0} /\ WindowSize \in Nat \ {0} /\ Countdown \in Nat \ {0}
        /\ MaxRequests \in Nat /\ FirstSlot \in Nat /\ 4 * WindowSize <= QueueSize
  BY BufferAssumption
<1> QED
  BY <1>1, <1>2, <1>3, BufferAssumption DEF Slots, none

\* What % yields: the remainder of a division.
LEMMA Remainder ==
  ASSUME NEW x \in Nat, NEW m \in Nat \ {0}
  PROVE  /\ x % m \in 0 .. m - 1
         /\ \E q \in Nat : x = q * m + (x % m)
<1>1. x % m \in 0 .. m - 1
  OBVIOUS
<1>2. x = (x \div m) * m + (x % m)
  OBVIOUS
<1>3. x \div m \in Nat
  <2> DEFINE d == x \div m
  <2>1. d \in Int
    OBVIOUS
  <2>2. x = d * m + (x % m)
    BY <1>2
  <2> HIDE DEF d
  <2>3. ASSUME d <= -1 PROVE FALSE
    <3>1. d * m <= -m
      BY <2>1, <2>3
    <3> QED
      BY <1>1, <2>1, <2>2, <3>1
  <2> QED
    BY <2>1, <2>3 DEF d
<1> QED
  BY <1>1, <1>2, <1>3

\* Two numbers less than m apart have remainders that are as far apart, or m
\* further, or closer.
LEMMA RemaindersDiffer ==
  ASSUME NEW x \in Nat, NEW y \in Nat, NEW m \in Nat \ {0},
         x - y < m, y - x < m
  PROVE  (y % m) - (x % m) \in {y - x, y - x - m, y - x + m}
<1>1. x % m \in 0 .. m - 1 /\ y % m \in 0 .. m - 1
  OBVIOUS
<1>2. PICK q \in Nat : x = q * m + (x % m)
  BY Remainder
<1>3. PICK r \in Nat : y = r * m + (y % m)
  BY Remainder
<1> DEFINE d == r - q
<1>4. d \in Int /\ (y % m) - (x % m) = y - x - d * m
  <2>1. (r - q) * m = r * m - q * m
    OBVIOUS
  <2> DEFINE xm == x % m
             ym == y % m
             qm == q * m
             rm == r * m
  <2>2. xm \in Int /\ ym \in Int /\ qm \in Int /\ rm \in Int
    BY <1>1
  <2>3. x = qm + xm /\ y = rm + ym
    BY <1>2, <1>3
  <2> HIDE DEF xm, ym, qm, rm
  <2>4. ym - xm = y - x - (rm - qm)
    BY <2>2, <2>3
  <2> QED
    BY <2>1, <2>4 DEF xm, ym, qm, rm
<1> HIDE DEF d
<1>5. d > -2 /\ d < 2
  <2>1. ASSUME d >= 2 PROVE FALSE
    <3>1. d * m >= 2 * m
      BY <1>4, <2>1
    <3> QED
      BY <1>1, <1>4, <3>1
  <2>2. ASSUME d <= -2 PROVE FALSE
    <3>1. d * m <= -(2 * m)
      BY <1>4, <2>2
    <3> QED
      BY <1>1, <1>4, <3>1
  <2> QED
    BY <1>4, <2>1, <2>2
<1>6. d = -1 \/ d = 0 \/ d = 1
  BY <1>4, <1>5
<1> QED
  BY <1>1, <1>4, <1>6

\* A number that is off by no more than one round.
LEMMA WithinARound ==
  ASSUME NEW m \in Nat \ {0}, NEW x \in 0 .. 2 * m - 1
  PROVE  x % m = IF x < m THEN x ELSE x - m
<1>1. x % m \in 0 .. m - 1
  OBVIOUS
<1>2. PICK q \in Nat : x = q * m + (x % m)
  <2>1. x \in Nat
    OBVIOUS
  <2> QED
    BY <2>1, Remainder
<1> DEFINE r == x % m
           p == q * m
<1>3. ASSUME q >= 2 PROVE FALSE
  <2>1. q * m >= 2 * m
    BY <1>3
  <2> QED
    BY <1>1, <1>2, <2>1
<1>4. q = 0 \/ q = 1
  BY <1>3
<1>5. p = 0 \/ p = m
  BY <1>4
<1>6. r \in 0 .. m - 1 /\ x = p + r
  BY <1>1, <1>2
<1> HIDE DEF r, p
<1>7. r = IF x < m THEN x ELSE x - m
  BY <1>5, <1>6
<1> QED
  BY <1>7 DEF r

\* A number that is off by no more than one round of the ring.
Wrapped(x) == IF x < QueueSize THEN x ELSE x - QueueSize

\* So the code comes back into the ring.
LEMMA WithinTheRing ==
  ASSUME NEW x \in 0 .. 2 * QueueSize - 1
  PROVE  x % QueueSize = Wrapped(x)
<1>1. QueueSize \in Nat \ {0}
  BY Constants
<1> QED
  BY <1>1, WithinARound DEF Wrapped

\* Half a round.
Half == QueueSize \div 2

\* What is known of it.
LEMMA HalfOf ==
  /\ Half \in Nat \ {0} /\ 2 * Half <= QueueSize /\ 2 * WindowSize <= Half
  /\ MaxLate \in Nat /\ MaxLate + 2 <= Half
<1>1. QueueSize \in Nat /\ WindowSize \in Nat \ {0} /\ 4 * WindowSize <= QueueSize
  BY Constants
<1>2. MaxLate \in Nat \ {0} /\ MaxLate + 2 <= Half
  BY ProtocolAssumption DEF Half
<1>3. Half \in Nat \ {0} /\ 2 * Half <= QueueSize /\ 2 * WindowSize <= Half
  BY <1>1 DEF Half
<1> QED
  BY <1>2, <1>3

\* Numbers of packets less than a round apart, which do not have the same slot.
Near(p, q) == p - q < QueueSize /\ q - p < QueueSize

\* Each has a slot.
LEMMA SlotOf ==
  ASSUME NEW p \in Nat
  PROVE  slot_index(p) \in Slots /\ slot_index(p) \in 0 .. QueueSize - 1
<1>1. FirstSlot + p \in Nat /\ QueueSize \in Nat \ {0}
  BY Constants
<1>2. (FirstSlot + p) % QueueSize \in 0 .. QueueSize - 1
  BY <1>1
<1> QED
  BY <1>2 DEF slot_index, Slots

\* How far apart the slots of two packets are, which are less than a round
\* apart.
LEMMA SlotsApart ==
  ASSUME NEW p \in Nat, NEW q \in Nat, q - p < QueueSize, p - q < QueueSize
  PROVE  slot_index(q) - slot_index(p) \in {q - p, q - p - QueueSize, q - p + QueueSize}
<1>1. FirstSlot + p \in Nat /\ FirstSlot + q \in Nat /\ QueueSize \in Nat \ {0}
        /\ (FirstSlot + p) - (FirstSlot + q) < QueueSize
        /\ (FirstSlot + q) - (FirstSlot + p) < QueueSize
        /\ (FirstSlot + q) - (FirstSlot + p) = q - p
  BY Constants
<1>2. ((FirstSlot + q) % QueueSize) - ((FirstSlot + p) % QueueSize) \in
          {(FirstSlot + q) - (FirstSlot + p), (FirstSlot + q) - (FirstSlot + p) - QueueSize,
           (FirstSlot + q) - (FirstSlot + p) + QueueSize}
  BY <1>1, RemaindersDiffer
<1> QED
  BY <1>1, <1>2 DEF slot_index

\* Two packets have two slots.
LEMMA SlotsDiffer ==
  ASSUME NEW p \in Nat, NEW q \in Nat, Near(p, q), slot_index(p) = slot_index(q)
  PROVE  p = q
<1> DEFINE s == slot_index(p)
           t == slot_index(q)
<1>1. QueueSize \in Nat \ {0} /\ p \in Nat /\ q \in Nat
        /\ q - p < QueueSize /\ p - q < QueueSize
  BY Constants DEF Near
<1>2. s \in 0 .. QueueSize - 1 /\ t \in 0 .. QueueSize - 1
  BY <1>1, SlotOf
<1>3. t - s \in {q - p, q - p - QueueSize, q - p + QueueSize}
  BY <1>1, SlotsApart
<1>4. s = t
  OBVIOUS
<1> HIDE DEF s, t
<1> QED
  BY <1>1, <1>2, <1>3, <1>4

\* The slots from the one of a packet to that of another.
LEMMA AheadOf ==
  ASSUME NEW p \in Nat, NEW q \in Nat, Near(p, q)
  PROVE  /\ q >= p => Ahead(slot_index(p), slot_index(q)) = q - p
         /\ q < p => Ahead(slot_index(p), slot_index(q)) = QueueSize - (p - q)
<1> DEFINE s == slot_index(p)
           t == slot_index(q)
           a == Ahead(s, t)
<1>1. QueueSize \in Nat \ {0} /\ p \in Nat /\ q \in Nat
        /\ q - p < QueueSize /\ p - q < QueueSize
  BY Constants DEF Near
<1>2. s \in 0 .. QueueSize - 1 /\ t \in 0 .. QueueSize - 1
  BY <1>1, SlotOf
<1>3. t - s \in {q - p, q - p - QueueSize, q - p + QueueSize}
  BY <1>1, SlotsApart
<1> DEFINE x == t - s + QueueSize
<1>4. a = x % QueueSize
  BY DEF Ahead
<1> HIDE DEF s, t
<1>5. x \in 0 .. 2 * QueueSize - 1
  BY <1>1, <1>2
<1> HIDE DEF x, a
<1>6. a = Wrapped(x)
  BY <1>4, <1>5, WithinTheRing
<1>7. (q >= p => a = q - p) /\ (q < p => a = QueueSize - (p - q))
  BY <1>1, <1>2, <1>3, <1>6 DEF Wrapped, x
<1> QED
  BY <1>7 DEF a, s, t

\* A remainder may be taken before a number is added.
LEMMA RemainderOfSum ==
  ASSUME NEW x \in Nat, NEW i \in Nat, NEW m \in Nat \ {0}
  PROVE  ((x % m) + i) % m = (x + i) % m
<1> DEFINE a == x % m
           y == a + i
           z == x + i
           r == y % m
           s == z % m
<1>1. a \in Nat /\ y \in Nat /\ z \in Nat
  OBVIOUS
<1>2. PICK k \in Nat : x = k * m + a
  BY Remainder
<1>3. r \in 0 .. m - 1 /\ \E j \in Nat : y = j * m + r
  <2> HIDE DEF y
  <2> QED
    BY <1>1, Remainder
<1>4. s \in 0 .. m - 1 /\ \E l \in Nat : z = l * m + s
  <2> HIDE DEF z
  <2> QED
    BY <1>1, Remainder
<1>5. PICK j \in Nat : y = j * m + r
  BY <1>3
<1>6. PICK l \in Nat : z = l * m + s
  BY <1>4
<1>7. z = k * m + y
  <2> DEFINE c == k * m
  <2>1. c \in Int
    OBVIOUS
  <2>2. x = c + a
    BY <1>2
  <2> HIDE DEF c, a
  <2>3. z = c + y
    BY <1>1, <2>1, <2>2
  <2> QED
    BY <2>3 DEF c
<1> DEFINE d == k + j - l
<1>8. d \in Int /\ d * m = s - r
  <2>1. (k + j - l) * m = k * m + j * m - l * m
    OBVIOUS
  <2> DEFINE km == k * m
             jm == j * m
             lm == l * m
  <2>2. km \in Int /\ jm \in Int /\ lm \in Int
    OBVIOUS
  <2>3. z = km + y /\ y = jm + r /\ z = lm + s
    BY <1>5, <1>6, <1>7
  <2> HIDE DEF km, jm, lm, y, z, r, s
  <2>4. km + jm - lm = s - r
    BY <1>1, <1>3, <1>4, <2>2, <2>3
  <2> QED
    BY <2>1, <2>4 DEF km, jm, lm
<1> HIDE DEF d, r, s
<1>9. ~ (d >= 1) /\ ~ (d <= -1)
  <2>1. ASSUME d >= 1 PROVE FALSE
    <3>1. d * m >= m
      BY <1>8, <2>1
    <3> QED
      BY <1>3, <1>4, <1>8, <3>1
  <2>2. ASSUME d <= -1 PROVE FALSE
    <3>1. d * m <= -m
      BY <1>8, <2>2
    <3> QED
      BY <1>3, <1>4, <1>8, <3>1
  <2> QED
    BY <2>1, <2>2
<1>10. d = 0
  BY <1>8, <1>9
<1>11. s = r
  BY <1>3, <1>4, <1>8, <1>10
<1> QED
  BY <1>11 DEF s, r

\* The slots that follow are those of the packets that follow.
LEMMA NextOf ==
  ASSUME NEW p \in Nat, NEW i \in Nat
  PROVE  next_index(slot_index(p), i) = slot_index(p + i)
<1> DEFINE x == FirstSlot + p
<1>1. x \in Nat /\ QueueSize \in Nat \ {0} /\ FirstSlot + (p + i) = x + i
  BY Constants
<1> HIDE DEF x
<1>2. ((x % QueueSize) + i) % QueueSize = (x + i) % QueueSize
  BY <1>1, RemainderOfSum
<1> QED
  BY <1>1, <1>2 DEF next_index, slot_index, x

\* The slot before is that of the packet before.
LEMMA PreOf ==
  ASSUME NEW p \in Nat \ {0}
  PROVE  pre_index(slot_index(p)) = slot_index(p - 1)
<1> DEFINE s == slot_index(p)
           t == slot_index(p - 1)
           x == s + QueueSize - 1
<1>1. QueueSize \in Nat \ {0} /\ p \in Nat /\ p - 1 \in Nat
        /\ (p - 1) - p < QueueSize /\ p - (p - 1) <= QueueSize
  BY Constants DEF Near
<1> HIDE DEF s, t, x
<1>2. CASE QueueSize = 1
  <2>1. s \in 0 .. QueueSize - 1 /\ t \in 0 .. QueueSize - 1
    BY <1>1, SlotOf DEF s, t
  <2>2. x \in 0 .. 2 * QueueSize - 1
    BY <2>1, <1>2 DEF x
  <2>3. x % QueueSize = Wrapped(x)
    BY <2>2, WithinTheRing
  <2>4. Wrapped(x) = t
    BY <1>2, <2>1 DEF x, Wrapped
  <2> QED
    BY <2>3, <2>4 DEF s, t, x, pre_index
<1>3. CASE QueueSize # 1
  <2>1. s \in 0 .. QueueSize - 1 /\ t \in 0 .. QueueSize - 1
    BY <1>1, SlotOf DEF s, t
  <2>2. p - (p - 1) < QueueSize
    BY <1>1, <1>3
  <2>3. s - t \in {p - (p - 1), p - (p - 1) - QueueSize, p - (p - 1) + QueueSize}
    BY <1>1, <2>2, SlotsApart DEF s, t
  <2>4. s - t \in {1, 1 - QueueSize, 1 + QueueSize}
    BY <1>1, <2>3
  <2>5. x \in 0 .. 2 * QueueSize - 1
    BY <1>1, <2>1 DEF x
  <2>6. x % QueueSize = Wrapped(x)
    BY <2>5, WithinTheRing
  <2>7. Wrapped(x) = t
    BY <1>1, <2>1, <2>4 DEF x, Wrapped
  <2> QED
    BY <2>6, <2>7 DEF s, t, x, pre_index
<1> QED
  BY <1>2, <1>3

\* The slots from the one of a packet up to that of a later one are those of
\* the packets between.
LEMMA FromOf ==
  ASSUME NEW p \in Nat, NEW q \in Nat, p <= q, q - p < QueueSize
  PROVE  From(slot_index(p), slot_index(q)) = {slot_index(r) : r \in p .. q - 1}
<1>1. QueueSize \in Nat \ {0} /\ p \in Nat /\ q \in Nat /\ q - p < QueueSize /\ Near(p, q)
  BY Constants DEF Near
<1>2. Ahead(slot_index(p), slot_index(q)) = q - p
  BY <1>1, AheadOf
<1>3. From(slot_index(p), slot_index(q)) =
        {next_index(slot_index(p), i) : i \in 0 .. q - p - 1}
  BY <1>2 DEF From
<1>4. ASSUME NEW i \in 0 .. q - p - 1
      PROVE  next_index(slot_index(p), i) = slot_index(p + i) /\ p + i \in p .. q - 1
  <2>1. i \in Nat /\ p + i \in p .. q - 1
    BY <1>1
  <2> QED
    BY <1>1, <2>1, NextOf
<1>5. ASSUME NEW r \in p .. q - 1
      PROVE  \E i \in 0 .. q - p - 1 : slot_index(r) = next_index(slot_index(p), i)
  <2>1. r - p \in 0 .. q - p - 1 /\ p + (r - p) = r
    BY <1>1
  <2>2. next_index(slot_index(p), r - p) = slot_index(p + (r - p))
    BY <1>4, <2>1
  <2> QED
    BY <2>1, <2>2
<1> QED
  BY <1>3, <1>4, <1>5

\* distance() of the slots of two packets.
LEMMA DistanceOf ==
  ASSUME NEW p \in Nat, NEW q \in Nat, p <= q, q - p < QueueSize
  PROVE  LET d == q - p
             x == 1 + (IF d < QueueSize - d THEN d ELSE QueueSize - d)
         IN  /\ distance(slot_index(p), slot_index(q)) = x
             /\ distance(slot_index(q), slot_index(p)) = x
<1> DEFINE s == slot_index(p)
           t == slot_index(q)
           d == q - p
           x == 1 + (IF d < QueueSize - d THEN d ELSE QueueSize - d)
<1>1. QueueSize \in Nat \ {0} /\ p \in Nat /\ q \in Nat
        /\ q - p < QueueSize /\ p - q < QueueSize
  BY Constants DEF Near
<1>2. s \in 0 .. QueueSize - 1 /\ t \in 0 .. QueueSize - 1
  BY <1>1, SlotOf
<1>3. t - s \in {q - p, q - p - QueueSize, q - p + QueueSize}
  BY <1>1, SlotsApart
<1> HIDE DEF s, t
<1>4. distance(s, t) = x
  BY <1>1, <1>2, <1>3 DEF distance
<1>5. distance(t, s) = x
  BY <1>1, <1>2, <1>3 DEF distance
<1> QED
  BY <1>4, <1>5 DEF s, t

-----------------------------------------------------------------------------
(***************************************************************************)
(* The packets of the NALUs.                                               *)

-----------------------------------------------------------------------------
(***************************************************************************)
(* The packets of the NALUs.                                               *)
(***************************************************************************)
Total == Len(NaluSizes)
NaluNumbers == 1 .. Total

\* A set of natural numbers that is not empty has a least element.
LEMMA LeastElement ==
  ASSUME NEW T \in SUBSET Nat, T # {}
  PROVE  \E m \in T : \A k \in T : m <= k
<1> DEFINE Less == {kk \in Nat \X Nat : kk[1] < kk[2]}
<1>1. IsWellFoundedOn(Less, Nat)
  BY NatLessThanWellFounded DEF OpToRel
<1> HIDE DEF Less
<1>2. PICK m \in T : \A k \in T : ~ (<<k, m>> \in Less)
  BY <1>1, WFMin
<1>3. ASSUME NEW k \in T, k < m
      PROVE  FALSE
  <2>1. <<k, m>> \in Less
    BY <1>3 DEF Less
  <2> QED
    BY <1>2, <2>1
<1> QED
  BY <1>3

\* A set of numbers that contains 0 and, with i - 1, also i holds them all.
LEMMA UpTo ==
  ASSUME NEW n \in Nat, NEW P \in SUBSET (0 .. n), 0 \in P,
         \A i \in 1 .. n : i - 1 \in P => i \in P
  PROVE  P = 0 .. n
<1> DEFINE T == (0 .. n) \ P
<1>1. SUFFICES ASSUME T # {} PROVE FALSE
  OBVIOUS
<1>2. T \in SUBSET Nat
  OBVIOUS
<1>3. PICK m \in T : \A k \in T : m <= k
  BY <1>1, <1>2, LeastElement
<1>4. m \in 1 .. n /\ m - 1 \in 0 .. n
  BY <1>3
<1>5. m - 1 \in P
  BY <1>3, <1>4
<1> QED
  BY <1>3, <1>4, <1>5

\* The recursion that defines LastPacket has a solution on every prefix.
LEMMA PartialLastPackets ==
  \A n \in 0 .. Total : \E f \in [0 .. n -> Nat] :
      f = [i \in 0 .. n |-> IF i = 0 THEN 0 ELSE f[i - 1] + NaluSizes[i]]
<1> DEFINE Solves(f, n) ==
             f = [i \in 0 .. n |-> IF i = 0 THEN 0 ELSE f[i - 1] + NaluSizes[i]]
           P == {n \in 0 .. Total : \E f \in [0 .. n -> Nat] : Solves(f, n)}
<1>1. Total \in Nat /\ \A i \in 1 .. Total : NaluSizes[i] \in Nat
  BY Constants DEF Total
<1>2. 0 \in P
  <2> DEFINE f == [i \in 0 .. 0 |-> 0]
  <2>1. f \in [0 .. 0 -> Nat] /\ Solves(f, 0)
    OBVIOUS
  <2>2. \E h \in [0 .. 0 -> Nat] : Solves(h, 0)
    BY <2>1
  <2>3. 0 \in 0 .. Total
    BY <1>1
  <2> QED
    BY <2>2, <2>3
<1>3. ASSUME NEW n \in 1 .. Total, n - 1 \in P
      PROVE  n \in P
  <2>1. PICK f \in [0 .. n - 1 -> Nat] : Solves(f, n - 1)
    BY <1>3
  <2> DEFINE g == [i \in 0 .. n |-> IF i = n THEN f[n - 1] + NaluSizes[n] ELSE f[i]]
  <2>2. g \in [0 .. n -> Nat]
    BY <1>1
  <2>3. ASSUME NEW i \in 0 .. n
        PROVE  g[i] = IF i = 0 THEN 0 ELSE g[i - 1] + NaluSizes[i]
    <3>1. CASE i = n
      BY <3>1, <1>1
    <3>2. CASE i # n
      <4>1. i \in 0 .. n - 1
        BY <3>2
      <4>2. f[i] = IF i = 0 THEN 0 ELSE f[i - 1] + NaluSizes[i]
        BY <2>1, <4>1
      <4> QED
        BY <3>2, <4>1, <4>2
    <3> QED
      BY <3>1, <3>2
  <2>4. Solves(g, n)
    BY <2>3
  <2>5. n \in 0 .. Total
    BY <1>1
  <2>6. \E h \in [0 .. n -> Nat] : Solves(h, n)
    <3> HIDE DEF Solves, g
    <3> QED
      BY <2>2, <2>4
  <2> QED
    <3> HIDE DEF Solves
    <3> QED
      BY <2>5, <2>6
<1>4. P = 0 .. Total
  BY <1>1, <1>2, <1>3, UpTo
<1> QED
  BY <1>4

\* LastPacket satisfies the recursion by which it is defined.
LEMMA LastPackets ==
  /\ Total \in Nat
  /\ \A i \in 0 .. Total : LastPacket[i] \in Nat
  /\ LastPacket[0] = 0
  /\ \A i \in 1 .. Total : LastPacket[i] = LastPacket[i - 1] + NaluSizes[i]
<1> DEFINE Solves(f) ==
             f = [i \in 0 .. Total |-> IF i = 0 THEN 0 ELSE f[i - 1] + NaluSizes[i]]
<1>1. Total \in Nat
  BY Constants DEF Total
<1>2. PICK g \in [0 .. Total -> Nat] : Solves(g)
  <2>1. Total \in 0 .. Total
    BY <1>1
  <2> QED
    BY <2>1, PartialLastPackets
<1>3. LastPacket = CHOOSE f : Solves(f)
  BY DEF LastPacket, Total
<1>4. Solves(LastPacket)
  <2> HIDE DEF Solves
  <2> QED
    BY <1>2, <1>3
<1>5. ASSUME NEW f, Solves(f)
      PROVE  \A i \in 0 .. Total : f[i] = g[i]
  <2> DEFINE P == {i \in 0 .. Total : f[i] = g[i]}
  <2>1. 0 \in P
    BY <1>1, <1>2, <1>5
  <2>2. \A i \in 1 .. Total : i - 1 \in P => i \in P
    BY <1>1, <1>2, <1>5
  <2>3. P = 0 .. Total
    BY <1>1, <2>1, <2>2, UpTo
  <2> QED
    BY <2>3
<1>6. \A i \in 0 .. Total : LastPacket[i] = g[i]
  BY <1>4, <1>5
<1> QED
  BY <1>1, <1>2, <1>6

\* The NALUs follow each other.
LEMMA LastPacketsGrow ==
  ASSUME NEW i \in 0 .. Total, NEW j \in 0 .. Total, i < j
  PROVE  LastPacket[i] < LastPacket[j]
<1> DEFINE P == {k \in 0 .. Total : k > i => LastPacket[i] < LastPacket[k]}
<1>1. Total \in Nat /\ \A k \in 0 .. Total : LastPacket[k] \in Nat
  BY LastPackets
<1>2. 0 \in P
  BY <1>1
<1>3. ASSUME NEW k \in 1 .. Total, k - 1 \in P
      PROVE  k \in P
  <2>1. LastPacket[k] = LastPacket[k - 1] + NaluSizes[k] /\ NaluSizes[k] \in Nat \ {0}
    BY LastPackets, Constants DEF Total
  <2>2. k \in 0 .. Total /\ k - 1 \in 0 .. Total
    BY <1>1
  <2>3. LastPacket[k - 1] < LastPacket[k]
    BY <1>1, <2>1, <2>2
  <2>4. CASE k - 1 > i
    BY <1>1, <1>3, <2>2, <2>3, <2>4
  <2>5. CASE k - 1 = i
    BY <1>1, <2>2, <2>3, <2>5
  <2>6. CASE k - 1 < i
    BY <2>2, <2>6
  <2> QED
    BY <2>4, <2>5, <2>6
<1>4. P = 0 .. Total
  BY <1>1, <1>2, <1>3, UpTo
<1> QED
  BY <1>4

\* What the proofs need to know of the number of packets.
LEMMA PacketNumbers ==
  /\ LastPacket[Total] \in Nat
  /\ Packets = 1 .. LastPacket[Total] /\ Packets \subseteq Nat \ {0}
  /\ Cardinality(Packets) = LastPacket[Total]
<1>1. Total \in 0 .. Total /\ LastPacket[Total] \in Nat
  BY LastPackets
<1>2. Packets = 1 .. LastPacket[Total]
  BY DEF Packets, Total
<1>4. Cardinality(Packets) = LastPacket[Total]
  <2> DEFINE l == LastPacket[Total]
             c == Cardinality(1 .. l)
  <2>1. l \in Int /\ l \in Nat
    BY <1>1
  <2> HIDE DEF l
  <2>2. c = IF 1 > l THEN 0 ELSE l - 1 + 1
    BY <2>1, FS_Interval
  <2> HIDE DEF c
  <2>3. c = l
    BY <2>1, <2>2
  <2> QED
    BY <1>2, <2>3 DEF c, l
<1> QED
  BY <1>1, <1>2, <1>4

\* Each packet belongs to a NALU.
LEMMA SomeNalu ==
  ASSUME NEW p \in Packets
  PROVE  \E nalu \in NaluNumbers : LastPacket[nalu - 1] < p /\ p <= LastPacket[nalu]
<1> DEFINE T == {i \in 0 .. Total : p <= LastPacket[i]}
<1>1. Total \in T /\ T \in SUBSET Nat
  BY LastPackets, PacketNumbers
<1>2. PICK m \in T : \A k \in T : m <= k
  <2> HIDE DEF T
  <2> QED
    BY <1>1, LeastElement
<1>3. m # 0
  BY <1>2, LastPackets, PacketNumbers
<1>4. m \in NaluNumbers /\ m - 1 \in 0 .. Total
  BY <1>2, <1>3, LastPackets DEF NaluNumbers
<1>5. ~ (p <= LastPacket[m - 1])
  BY <1>2, <1>4
<1>6. LastPacket[m - 1] \in Nat /\ p \in Nat
  BY <1>4, LastPackets, PacketNumbers
<1> QED
  BY <1>2, <1>4, <1>5, <1>6

\* And only to that one.
LEMMA NaluOfPacket ==
  ASSUME NEW p \in Packets
  PROVE  /\ NaluOf[p] \in NaluNumbers
         /\ LastPacket[NaluOf[p] - 1] < p /\ p <= LastPacket[NaluOf[p]]
         /\ \A nalu \in NaluNumbers :
               LastPacket[nalu - 1] < p /\ p <= LastPacket[nalu] => NaluOf[p] = nalu
<1> DEFINE Has(i) == LastPacket[i - 1] < p /\ p <= LastPacket[i]
<1>1. NaluOf[p] = CHOOSE i \in NaluNumbers : Has(i)
  BY DEF NaluOf, NaluNumbers, Total
<1>2. \E i \in NaluNumbers : Has(i)
  BY SomeNalu
<1>3. NaluOf[p] \in NaluNumbers /\ Has(NaluOf[p])
  <2> HIDE DEF Has
  <2> QED
    BY <1>1, <1>2
<1>4. ASSUME NEW i \in NaluNumbers, NEW j \in NaluNumbers, Has(i), Has(j), i < j
      PROVE  FALSE
  <2>1. /\ i \in 0 .. Total /\ j - 1 \in 0 .. Total /\ i <= j - 1 /\ p \in Nat
        /\ LastPacket[i] \in Nat /\ LastPacket[j - 1] \in Nat
    BY <1>4, LastPackets, PacketNumbers DEF NaluNumbers
  <2>2. LastPacket[i] <= LastPacket[j - 1]
    <3>1. CASE i = j - 1
      BY <2>1, <3>1
    <3>2. CASE i < j - 1
      BY <2>1, <3>2, LastPacketsGrow
    <3> QED
      BY <2>1, <3>1, <3>2
  <2> QED
    BY <1>4, <2>1, <2>2
<1>5. ASSUME NEW i \in NaluNumbers, Has(i)
      PROVE  NaluOf[p] = i
  <2>1. i \in Int /\ NaluOf[p] \in Int
    BY <1>3, LastPackets DEF NaluNumbers
  <2>2. ~ (i < NaluOf[p])
    BY <1>3, <1>4, <1>5
  <2>3. ~ (NaluOf[p] < i)
    BY <1>3, <1>4, <1>5
  <2> QED
    BY <2>1, <2>2, <2>3
<1> QED
  BY <1>3, <1>5

\* The first packet of a NALU, or of what comes after the last.
FirstOf(nalu) == LastPacket[nalu - 1] + 1
HeadNumbers == 1 .. Total + 1

\* It is one packet, at most, behind the last.
LEMMA FirstPacket ==
  ASSUME NEW m \in HeadNumbers
  PROVE  /\ FirstOf(m) \in Nat \ {0} /\ m \in Nat \ {0}
         /\ FirstOf(m) <= LastPacket[Total] + 1
         /\ FirstOf(m) \in Packets => m \in NaluNumbers
<1>1. m - 1 \in 0 .. Total /\ m \in Nat \ {0}
  BY LastPackets DEF HeadNumbers
<1>2. LastPacket[m - 1] \in Nat
  BY <1>1, LastPackets
<1>3. LastPacket[m - 1] <= LastPacket[Total]
  <2>1. CASE m - 1 = Total
    BY <1>2, <2>1
  <2>2. CASE m - 1 < Total
    <3>1. Total \in 0 .. Total
      BY LastPackets
    <3>2. LastPacket[m - 1] < LastPacket[Total]
      BY <1>1, <2>2, <3>1, LastPacketsGrow
    <3> QED
      BY <3>2, <1>2, PacketNumbers
  <2> QED
    BY <1>1, <2>1, <2>2, LastPackets
<1>4. FirstOf(m) = LastPacket[m - 1] + 1
  BY DEF FirstOf
<1> DEFINE l == LastPacket[m - 1]
           k == LastPacket[Total]
<1>5. l \in Nat /\ k \in Nat /\ l <= k /\ FirstOf(m) = l + 1
  BY <1>2, <1>3, <1>4, PacketNumbers
<1> HIDE DEF l, k
<1>6. FirstOf(m) \in Nat \ {0} /\ FirstOf(m) <= k + 1
  BY <1>5
<1>7. ASSUME FirstOf(m) \in Packets
      PROVE  m \in NaluNumbers
  <2>1. FirstOf(m) \in 1 .. k
    BY <1>7, PacketNumbers DEF k
  <2>2. l < k
    BY <1>5, <2>1
  <2>3. m # Total + 1
    <3>1. SUFFICES ASSUME m = Total + 1 PROVE FALSE
      OBVIOUS
    <3>2. m - 1 = Total
      BY <3>1, LastPackets
    <3>3. l = k
      BY <3>2 DEF l, k
    <3> QED
      BY <1>5, <2>2, <3>3
  <2> QED
    BY <2>3, LastPackets DEF HeadNumbers, NaluNumbers
<1> QED
  BY <1>1, <1>6, <1>7 DEF k

\* The packets of a NALU.
LEMMA PacketsOfNalu ==
  ASSUME NEW m \in NaluNumbers
  PROVE  /\ m \in HeadNumbers /\ m + 1 \in HeadNumbers
         /\ NaluSizes[m] \in Nat \ {0} /\ FirstOf(m) \in Packets
         /\ FirstOf(m + 1) = FirstOf(m) + NaluSizes[m]
         /\ FirstOf(m + 1) = LastPacket[m] + 1
         /\ \A p \in FirstOf(m) .. FirstOf(m + 1) - 1 : p \in Packets /\ NaluOf[p] = m
<1>1. /\ m \in HeadNumbers /\ m + 1 \in HeadNumbers /\ m - 1 \in 0 .. Total
      /\ m \in 0 .. Total /\ (m + 1) - 1 = m
  BY LastPackets DEF NaluNumbers, HeadNumbers
<1>2. NaluSizes[m] \in Nat \ {0} /\ LastPacket[m] = LastPacket[m - 1] + NaluSizes[m]
  BY LastPackets, Constants DEF NaluNumbers, Total
<1>3. FirstOf(m) = LastPacket[m - 1] + 1 /\ FirstOf(m + 1) = LastPacket[m] + 1
  BY <1>1 DEF FirstOf
<1>4. LastPacket[m] \in Nat /\ LastPacket[m - 1] \in Nat
  BY <1>1, LastPackets
<1>5. FirstOf(m + 1) <= LastPacket[Total] + 1 /\ LastPacket[Total] \in Nat
  BY <1>1, FirstPacket, PacketNumbers
<1> DEFINE l == LastPacket[m]
           k == LastPacket[m - 1]
           a == LastPacket[Total]
           z == NaluSizes[m]
<1>6. /\ l \in Nat /\ k \in Nat /\ a \in Nat /\ z \in Nat \ {0}
      /\ l = k + z /\ l + 1 <= a + 1
      /\ FirstOf(m) = k + 1 /\ FirstOf(m + 1) = l + 1 /\ Packets = 1 .. a
  BY <1>2, <1>3, <1>4, <1>5, PacketNumbers
<1>7. ASSUME NEW p \in FirstOf(m) .. FirstOf(m + 1) - 1
      PROVE  p \in Packets /\ NaluOf[p] = m
  <2>1. p \in Packets /\ k < p /\ p <= l
    <3> HIDE DEF l, k, a, z
    <3> QED
      BY <1>6
  <2> QED
    BY <2>1, NaluOfPacket
<1>8. /\ FirstOf(m) \in Packets /\ FirstOf(m + 1) = FirstOf(m) + z
      /\ FirstOf(m + 1) = l + 1
  <2> HIDE DEF l, k, a, z
  <2> QED
    BY <1>6
<1> QED
  BY <1>1, <1>2, <1>7, <1>8

\* The packets from the first of a NALU on belong to that one, or a later one.
LEMMA LaterPackets ==
  ASSUME NEW m \in HeadNumbers, NEW p \in Packets, FirstOf(m) <= p
  PROVE  m <= NaluOf[p]
<1> DEFINE k == NaluOf[p]
<1>1. k \in NaluNumbers /\ p <= LastPacket[k]
  BY NaluOfPacket
<1> HIDE DEF k
<1>2. SUFFICES ASSUME k < m PROVE FALSE
  BY <1>1, LastPackets DEF NaluNumbers, HeadNumbers, k
<1>3. k \in 0 .. Total /\ m - 1 \in 0 .. Total /\ k <= m - 1
  BY <1>1, <1>2, LastPackets DEF NaluNumbers, HeadNumbers
<1>4. LastPacket[k] \in Nat /\ LastPacket[m - 1] \in Nat /\ p \in Nat
  BY <1>3, LastPackets, PacketNumbers
<1>5. LastPacket[k] <= LastPacket[m - 1]
  <2>1. CASE k = m - 1
    BY <2>1, <1>4
  <2>2. CASE k < m - 1
    BY <1>3, <1>4, <2>2, LastPacketsGrow
  <2> QED
    BY <1>3, <2>1, <2>2
<1> QED
  BY <1>1, <1>4, <1>5 DEF FirstOf

\* A packet that is the first of a NALU.
LEMMA FirstPackets ==
  ASSUME NEW p \in Packets
  PROVE  /\ IsFirst(p) => p = FirstOf(NaluOf[p])
         /\ \A m \in HeadNumbers : p = FirstOf(m) => IsFirst(p) /\ NaluOf[p] = m
<1>1. IsFirst(p) => p = FirstOf(NaluOf[p])
  BY DEF IsFirst, FirstOf
<1>2. ASSUME NEW m \in HeadNumbers, p = FirstOf(m)
      PROVE  IsFirst(p) /\ NaluOf[p] = m
  <2>1. m \in NaluNumbers
    BY <1>2, FirstPacket
  <2>2. FirstOf(m + 1) = FirstOf(m) + NaluSizes[m] /\ NaluSizes[m] \in Nat \ {0}
    BY <2>1, PacketsOfNalu
  <2>3. p \in FirstOf(m) .. FirstOf(m + 1) - 1
    BY <1>2, <2>2, PacketNumbers
  <2>4. NaluOf[p] = m
    BY <2>1, <2>3, PacketsOfNalu
  <2> QED
    BY <1>2, <2>4 DEF IsFirst, FirstOf
<1> QED
  BY <1>1, <1>2

-----------------------------------------------------------------------------
(***************************************************************************)
(* The buffer keeps its type, and each packet in its slot.  A record may   *)
(* have counted down to 0 until requests are sent.                         *)
(***************************************************************************)
Records(low) == [request_count : 0 .. MaxRequests + 1, countdown : low .. Countdown]
SomeRecords(low) == UNION {[S -> Records(low)] : S \in SUBSET Slots}
Buffers(low) ==
    [vpkg : [Slots -> Packets \cup {Invalid}], head : Slots \cup {none},
     tail : Slots \cup {none}, current : Slots \cup {none}, qos : SomeRecords(low)]

InSlots(b, n) ==
    \A s \in Slots : b.vpkg[s] # Invalid => b.vpkg[s] <= n /\ slot_index(b.vpkg[s]) = s
HasEnds(b) == (b.head = none <=> b.tail = none) /\ (b.head # none => b.current # none)
Sound(b, low, n) == b \in Buffers(low) /\ InSlots(b, n) /\ HasEnds(b)

\* What a set of records of requests is.
LEMMA RecordsAre ==
  ASSUME NEW low, NEW q
  PROVE  q \in SomeRecords(low) <=>
            /\ q = [s \in DOMAIN q |-> q[s]] /\ DOMAIN q \subseteq Slots
            /\ \A s \in DOMAIN q : q[s] \in Records(low)
  BY DEF SomeRecords

\* Parts of the set of records.
LEMMA RecordsLeft ==
  ASSUME NEW low, NEW q \in SomeRecords(low), NEW S
  PROVE  /\ Restrict(q, DOMAIN q \ S) \in SomeRecords(low)
         /\ DOMAIN Restrict(q, DOMAIN q \ S) = DOMAIN q \ S
         /\ \A s \in DOMAIN q \ S : Restrict(q, DOMAIN q \ S)[s] = q[s]
<1>1. DOMAIN q \subseteq Slots /\ \A s \in DOMAIN q : q[s] \in Records(low)
  BY RecordsAre
<1> DEFINE r == Restrict(q, DOMAIN q \ S)
<1>2. r = [s \in DOMAIN q \ S |-> q[s]]
  BY DEF Restrict
<1> HIDE DEF r
<1>3. DOMAIN r = DOMAIN q \ S /\ \A s \in DOMAIN r : r[s] = q[s]
  BY <1>2
<1>4. r = [s \in DOMAIN r |-> r[s]]
  BY <1>2
<1>5. r \in SomeRecords(low)
  BY <1>1, <1>3, <1>4, RecordsAre
<1> QED
  BY <1>3, <1>5 DEF r

\* Fewer kinds of records.
LEMMA SoundLower ==
  ASSUME NEW b, NEW n, Sound(b, 1, n)
  PROVE  Sound(b, 0, n)
<1>1. Records(1) \subseteq Records(0)
  BY Constants DEF Records
<1>2. SomeRecords(1) \subseteq SomeRecords(0)
  BY <1>1, RecordsAre
<1> QED
  BY <1>2 DEF Sound, Buffers

\* Numbers that grow.
LEMMA SoundLater ==
  ASSUME NEW b, NEW low, NEW n \in Int, NEW k \in Int, n <= k, Sound(b, low, n)
  PROVE  Sound(b, low, k)
<1>1. ASSUME NEW s \in Slots, b.vpkg[s] # Invalid
      PROVE  b.vpkg[s] <= k /\ slot_index(b.vpkg[s]) = s
  <2>1. b.vpkg[s] \in Packets /\ b.vpkg[s] <= n /\ slot_index(b.vpkg[s]) = s
    BY <1>1 DEF Sound, Buffers, InSlots
  <2>2. b.vpkg[s] \in Int
    BY <2>1, PacketNumbers
  <2> QED
    BY <2>1, <2>2
<1> QED
  BY <1>1 DEF Sound, InSlots

\* The buffer with other packets: those it had, or none, and one of its own.
LEMMA SoundPackets ==
  ASSUME NEW low, NEW n, NEW b, NEW v, Sound(b, low, n),
         v \in [Slots -> Packets \cup {Invalid}],
         \A s \in Slots : \/ v[s] \in {b.vpkg[s], Invalid}
                          \/ v[s] <= n /\ slot_index(v[s]) = s
  PROVE  /\ Sound([b EXCEPT !.vpkg = v], low, n)
         /\ [b EXCEPT !.vpkg = v].vpkg = v
         /\ [b EXCEPT !.vpkg = v].head = b.head
         /\ [b EXCEPT !.vpkg = v].tail = b.tail
         /\ [b EXCEPT !.vpkg = v].current = b.current
         /\ [b EXCEPT !.vpkg = v].qos = b.qos
<1> DEFINE c == [b EXCEPT !.vpkg = v]
<1>1. /\ c \in Buffers(low) /\ c.vpkg = v /\ c.head = b.head /\ c.tail = b.tail
      /\ c.current = b.current /\ c.qos = b.qos
  BY DEF Sound, Buffers
<1> HIDE DEF c
<1>2. InSlots(c, n)
  BY <1>1 DEF InSlots, Sound
<1>3. HasEnds(c)
  BY <1>1 DEF HasEnds, Sound
<1>4. Sound(c, low, n)
  BY <1>1, <1>2, <1>3 DEF Sound
<1> QED
  BY <1>1, <1>4 DEF c

\* With other records.
LEMMA SoundRecords ==
  ASSUME NEW low, NEW k, NEW n, NEW b, NEW q, Sound(b, low, n), q \in SomeRecords(k)
  PROVE  /\ Sound([b EXCEPT !.qos = q], k, n)
         /\ [b EXCEPT !.qos = q].vpkg = b.vpkg
         /\ [b EXCEPT !.qos = q].head = b.head
         /\ [b EXCEPT !.qos = q].tail = b.tail
         /\ [b EXCEPT !.qos = q].current = b.current
         /\ [b EXCEPT !.qos = q].qos = q
<1> DEFINE c == [b EXCEPT !.qos = q]
<1>1. /\ c \in Buffers(k) /\ c.vpkg = b.vpkg /\ c.head = b.head /\ c.tail = b.tail
      /\ c.current = b.current /\ c.qos = q
  BY DEF Sound, Buffers
<1> HIDE DEF c
<1>2. InSlots(c, n) /\ HasEnds(c)
  BY <1>1 DEF InSlots, Sound, HasEnds
<1>4. Sound(c, low, n) \/ Sound(c, k, n)
  BY <1>1, <1>2 DEF Sound
<1> QED
  BY <1>1, <1>2 DEF c, Sound

Ended(b, h, t, c) == [b EXCEPT !.head = h, !.tail = t, !.current = c]

\* With other ends.
LEMMA SoundEnds ==
  ASSUME NEW low, NEW n, NEW b, Sound(b, low, n), NEW h, NEW t, NEW c,
         {h, t, c} \subseteq Slots \cup {none},
         h = none <=> t = none, h # none => c # none
  PROVE  LET d == Ended(b, h, t, c)
         IN  /\ Sound(d, low, n) /\ d.vpkg = b.vpkg /\ d.qos = b.qos
             /\ d.head = h /\ d.tail = t /\ d.current = c
<1> DEFINE d == Ended(b, h, t, c)
<1>1. /\ d \in Buffers(low) /\ d.vpkg = b.vpkg /\ d.head = h /\ d.tail = t
      /\ d.current = c /\ d.qos = b.qos
  BY DEF Sound, Buffers, Ended
<1> HIDE DEF d
<1>2. InSlots(d, n) /\ HasEnds(d)
  BY <1>1 DEF InSlots, Sound, HasEnds
<1>3. Sound(d, low, n)
  BY <1>1, <1>2 DEF Sound
<1> QED
  BY <1>1, <1>3 DEF d

SameEnds(b, d) == d.head = b.head /\ d.tail = b.tail /\ d.current = b.current

\* A packet in its slot.
LEMMA StoredSound ==
  ASSUME NEW low, NEW n, NEW b, Sound(b, low, n), NEW p \in Packets, p <= n
  PROVE  LET d == Stored(b, p)
         IN  /\ Sound(d, low, n) /\ SameEnds(b, d) /\ d.qos = b.qos
             /\ \A s \in Slots : d.vpkg[s] = IF s = slot_index(p) THEN p ELSE b.vpkg[s]
<1> DEFINE v == [b.vpkg EXCEPT ![slot_index(p)] = p]
           d == [b EXCEPT !.vpkg = v]
<1>1. slot_index(p) \in Slots
  BY PacketNumbers, SlotOf
<1>2. b.vpkg \in [Slots -> Packets \cup {Invalid}]
  BY DEF Sound, Buffers
<1>3. v \in [Slots -> Packets \cup {Invalid}]
        /\ \A s \in Slots : v[s] = IF s = slot_index(p) THEN p ELSE b.vpkg[s]
  BY <1>1, <1>2
<1> HIDE DEF v
<1>4. /\ Sound(d, low, n) /\ d.vpkg = v /\ d.head = b.head /\ d.tail = b.tail
      /\ d.current = b.current /\ d.qos = b.qos
  BY <1>3, SoundPackets
<1>5. Stored(b, p) = d
  <2>1. b.vpkg = [b.vpkg EXCEPT ![slot_index(p)] = b.vpkg[slot_index(p)]]
    BY <1>2
  <2> QED
    BY <1>1, <1>2 DEF Stored, v, Sound, Buffers
<1> HIDE DEF d
<1> QED
  BY <1>3, <1>4, <1>5 DEF SameEnds

\* Some packets become invalid.
LEMMA ResetPacketsSound ==
  ASSUME NEW low, NEW n, NEW b, Sound(b, low, n), NEW S
  PROVE  LET d == ResetPackets(b, S)
         IN  /\ Sound(d, low, n) /\ SameEnds(b, d) /\ d.qos = b.qos
             /\ \A s \in Slots : d.vpkg[s] = IF s \in S THEN Invalid ELSE b.vpkg[s]
<1> DEFINE v == [s \in Slots |-> IF s \in S THEN Invalid ELSE b.vpkg[s]]
           d == [b EXCEPT !.vpkg = v]
<1>1. v \in [Slots -> Packets \cup {Invalid}]
        /\ \A s \in Slots : v[s] = IF s \in S THEN Invalid ELSE b.vpkg[s]
  BY DEF Sound, Buffers
<1> HIDE DEF v
<1>2. /\ Sound(d, low, n) /\ d.vpkg = v /\ d.head = b.head /\ d.tail = b.tail
      /\ d.current = b.current /\ d.qos = b.qos
  BY <1>1, SoundPackets
<1>3. ResetPackets(b, S) = d
  BY DEF ResetPackets, v
<1> HIDE DEF d
<1> QED
  BY <1>1, <1>2, <1>3 DEF SameEnds

\* The buffer is empty, but for packets and records that were forgotten.
LEMMA ResetSound ==
  ASSUME NEW low, NEW n, NEW b, Sound(b, low, n)
  PROVE  Sound(Reset(b), low, n) /\ Reset(b).head = none
<1> DEFINE r == ResetPackets(b, IF b.head = none THEN {} ELSE b.head .. b.tail)
<1>1. Sound(r, low, n)
  BY ResetPacketsSound
<1>2. Reset(b) = Ended(r, none, none, none)
  BY DEF Reset, Ended
<1> HIDE DEF r
<1>3. Sound(Ended(r, none, none, none), low, n) /\ Ended(r, none, none, none).head = none
  BY <1>1, SoundEnds
<1> QED
  BY <1>2, <1>3

\* Some requests are forgotten.
LEMMA EraseSound ==
  ASSUME NEW low, NEW n, NEW b, Sound(b, low, n), NEW S
  PROVE  LET d == Erase(b, S)
         IN  /\ Sound(d, low, n) /\ SameEnds(b, d) /\ d.vpkg = b.vpkg
             /\ DOMAIN d.qos = DOMAIN b.qos \ S
             /\ \A s \in DOMAIN d.qos : d.qos[s] = b.qos[s]
<1> DEFINE q == Restrict(b.qos, DOMAIN b.qos \ S)
           d == [b EXCEPT !.qos = q]
<1>1. b.qos \in SomeRecords(low)
  BY DEF Sound, Buffers
<1>2. /\ q \in SomeRecords(low) /\ DOMAIN q = DOMAIN b.qos \ S
      /\ \A s \in DOMAIN b.qos \ S : q[s] = b.qos[s]
  BY SMTT(30), <1>1, RecordsLeft
<1>3. Erase(b, S) = d
  BY DEF Erase
<1> HIDE DEF q
<1>4. /\ Sound(d, low, n) /\ d.vpkg = b.vpkg /\ d.head = b.head /\ d.tail = b.tail
      /\ d.current = b.current /\ d.qos = q
  BY <1>2, SoundRecords
<1> HIDE DEF d
<1> QED
  BY <1>2, <1>3, <1>4 DEF SameEnds

\* The slots between two are slots.
LEMMA FromSlots ==
  ASSUME NEW s \in Slots, NEW t \in Slots
  PROVE  From(s, t) \subseteq Slots /\ Ahead(s, t) \in 0 .. QueueSize - 1
<1>1. QueueSize \in Nat \ {0} /\ s \in Nat /\ t \in Nat /\ t - s + QueueSize \in Nat
  BY Constants DEF Slots
<1>2. Ahead(s, t) \in 0 .. QueueSize - 1
  BY <1>1 DEF Ahead
<1>3. ASSUME NEW i \in 0 .. Ahead(s, t) - 1
      PROVE  next_index(s, i) \in Slots
  <2>1. s + i \in Nat
    BY <1>1, <1>2
  <2> QED
    BY <1>1, <2>1 DEF next_index, Slots
<1> QED
  BY <1>2, <1>3 DEF From

\* Packets are asked for.
LEMMA RequestedSound ==
  ASSUME NEW low \in {0, 1}, NEW n, NEW b, Sound(b, low, n), NEW S, S \subseteq Slots
  PROVE  LET d == Requested(b, S)
         IN  /\ Sound(d, low, n) /\ SameEnds(b, d) /\ d.vpkg = b.vpkg
             /\ DOMAIN d.qos = DOMAIN b.qos \cup Missing(b, S)
<1> DEFINE M == Missing(b, S)
           q == [s \in DOMAIN b.qos \cup M |->
                    IF s \in DOMAIN b.qos THEN b.qos[s] ELSE NewRecord]
           d == [b EXCEPT !.qos = q]
<1>1. b.qos \in SomeRecords(low)
  BY DEF Sound, Buffers
<1>2. M \subseteq Slots
  BY DEF Missing
<1>3. NewRecord \in Records(low)
  BY Constants DEF NewRecord, Records
<1>4. Requested(b, S) = d
  BY DEF Requested
<1>5. DOMAIN b.qos \subseteq Slots /\ \A s \in DOMAIN b.qos : b.qos[s] \in Records(low)
  BY <1>1, RecordsAre
<1> HIDE DEF M
<1>7. DOMAIN q = DOMAIN b.qos \cup M /\ q = [s \in DOMAIN q |-> q[s]]
        /\ \A s \in DOMAIN q : q[s] = IF s \in DOMAIN b.qos THEN b.qos[s] ELSE NewRecord
  OBVIOUS
<1> HIDE DEF q
<1>8. q \in SomeRecords(low)
  BY <1>2, <1>3, <1>5, <1>7, RecordsAre
<1>9. /\ Sound(d, low, n) /\ d.vpkg = b.vpkg /\ d.head = b.head /\ d.tail = b.tail
      /\ d.current = b.current /\ d.qos = q
  BY <1>8, SoundRecords
<1> HIDE DEF d
<1> QED
  BY <1>4, <1>7, <1>9 DEF SameEnds, M

\* A packet came, and requests are closer.
LEMMA CountedDownSound ==
  ASSUME NEW n, NEW b, Sound(b, 1, n)
  PROVE  LET d == CountedDown(b)
         IN  /\ Sound(d, 0, n) /\ SameEnds(b, d) /\ d.vpkg = b.vpkg
             /\ DOMAIN d.qos = DOMAIN b.qos
<1> DEFINE q == [s \in DOMAIN b.qos |-> Closer(b.qos[s])]
           d == [b EXCEPT !.qos = q]
<1>1. b.qos \in SomeRecords(1)
  BY DEF Sound, Buffers
<1>2. DOMAIN b.qos \subseteq Slots /\ \A s \in DOMAIN b.qos : b.qos[s] \in Records(1)
  BY <1>1, RecordsAre
<1>3. ASSUME NEW s \in DOMAIN b.qos
      PROVE  Closer(b.qos[s]) \in Records(0)
  <2> DEFINE r == b.qos[s]
  <2>1. r \in Records(1)
    BY <1>2
  <2> HIDE DEF r
  <2>2. r.request_count \in 0 .. MaxRequests + 1 /\ r.countdown \in 1 .. Countdown
          /\ r = [request_count |-> r.request_count, countdown |-> r.countdown]
    BY <2>1 DEF Records
  <2>3. r.countdown - 1 \in 0 .. Countdown
    BY SMTT(30), <2>2, Constants
  <2>4. Closer(r) = [request_count |-> r.request_count, countdown |-> r.countdown - 1]
    BY <2>2 DEF Closer
  <2>5. Closer(r) \in Records(0)
    BY <2>2, <2>3, <2>4 DEF Records
  <2> QED
    BY <2>5 DEF r
<1>4. DOMAIN q = DOMAIN b.qos /\ q = [s \in DOMAIN q |-> q[s]]
        /\ \A s \in DOMAIN q : q[s] \in Records(0)
  BY <1>3
<1>5. CountedDown(b) = d
  BY DEF CountedDown
<1> HIDE DEF q
<1>6. q \in SomeRecords(0)
  BY <1>2, <1>4, RecordsAre
<1>7. /\ Sound(d, 0, n) /\ d.vpkg = b.vpkg /\ d.head = b.head /\ d.tail = b.tail
      /\ d.current = b.current /\ d.qos = q
  BY <1>6, SoundRecords
<1> HIDE DEF d
<1> QED
  BY <1>4, <1>5, <1>7 DEF SameEnds

\* Requests are sent, and those that were sent too often given up.
LEMMA RequestsSentSound ==
  ASSUME NEW n, NEW b, Sound(b, 0, n)
  PROVE  LET d == RequestsSent(b)
         IN  /\ Sound(d, 1, n) /\ SameEnds(b, d) /\ d.vpkg = b.vpkg
             /\ DOMAIN d.qos = DOMAIN b.qos \ GivenUpSlots(b)
<1> DEFINE e == Erase(b, GivenUpSlots(b))
           New(r) == IF IsDue(r) THEN [request_count |-> r.request_count + 1,
                                       countdown |-> Countdown]
                     ELSE r
           q == [s \in DOMAIN e.qos |-> New(e.qos[s])]
           d == [e EXCEPT !.qos = q]
<1>1. /\ Sound(e, 0, n) /\ SameEnds(b, e) /\ e.vpkg = b.vpkg
      /\ DOMAIN e.qos = DOMAIN b.qos \ GivenUpSlots(b)
      /\ \A s \in DOMAIN e.qos : e.qos[s] = b.qos[s]
  BY EraseSound
<1>2. \A s \in DOMAIN e.qos : ~ (e.qos[s].request_count > MaxRequests)
  BY <1>1 DEF GivenUpSlots
<1>3. RequestsSent(b) = d
  BY DEF RequestsSent
<1> HIDE DEF e
<1>4. e.qos \in SomeRecords(0)
  BY <1>1 DEF Sound, Buffers
<1>5. DOMAIN e.qos \subseteq Slots /\ \A s \in DOMAIN e.qos : e.qos[s] \in Records(0)
  BY <1>4, RecordsAre
<1>6. ASSUME NEW s \in DOMAIN e.qos
      PROVE  New(e.qos[s]) \in Records(1)
  <2>1. e.qos[s] \in Records(0) /\ ~ (e.qos[s].request_count > MaxRequests)
    BY <1>2, <1>5
  <2>2. CASE IsDue(e.qos[s])
    BY <2>1, <2>2, Constants DEF Records
  <2>3. CASE ~ IsDue(e.qos[s])
    BY <2>1, <2>3, Constants DEF Records, IsDue
  <2> QED
    BY <2>2, <2>3
<1> HIDE DEF New
<1>7. DOMAIN q = DOMAIN e.qos /\ q = [s \in DOMAIN q |-> q[s]]
        /\ \A s \in DOMAIN q : q[s] \in Records(1)
  BY <1>6
<1> HIDE DEF q
<1>8. q \in SomeRecords(1)
  BY <1>5, <1>7, RecordsAre
<1>9. /\ Sound(d, 1, n) /\ d.vpkg = e.vpkg /\ d.head = e.head /\ d.tail = e.tail
      /\ d.current = e.current /\ d.qos = q
  BY <1>1, <1>8, SoundRecords
<1> HIDE DEF d
<1> QED
  BY <1>1, <1>3, <1>7, <1>9 DEF SameEnds

-----------------------------------------------------------------------------
(***************************************************************************)
(* What combine_callback() does whatever is in the buffer.                 *)
(***************************************************************************)

\* The packet at the head is in its slot, and says how many there are.
LEMMA SizeOf ==
  ASSUME NEW low, NEW n, NEW b, Sound(b, low, n), b.head \in Slots
  PROVE  /\ Size(b) \in Nat
         /\ HeadPackage(b) = Invalid => Size(b) = 0
         /\ HeadPackage(b) # Invalid =>
              /\ HeadPackage(b) \in Packets /\ slot_index(HeadPackage(b)) = b.head
              /\ NaluOf[HeadPackage(b)] \in NaluNumbers
              /\ Size(b) = NaluSizes[NaluOf[HeadPackage(b)]] /\ Size(b) # 0
<1>1. CASE HeadPackage(b) = Invalid
  BY <1>1 DEF Size
<1>2. CASE HeadPackage(b) # Invalid
  <2> DEFINE p == HeadPackage(b)
             m == NaluOf[p]
  <2>1. p \in Packets /\ slot_index(p) = b.head
    BY <1>2 DEF HeadPackage, Sound, Buffers, InSlots
  <2>2. m \in NaluNumbers
    BY <2>1, NaluOfPacket
  <2>3. Size(b) = NaluSizes[m]
    BY <1>2 DEF Size
  <2> HIDE DEF m, p
  <2>4. NaluSizes[m] \in Nat \ {0}
    BY <2>2, PacketsOfNalu
  <2> QED
    BY <1>2, <2>1, <2>2, <2>3, <2>4 DEF m, p
<1> QED
  BY <1>1, <1>2

\* Slots that follow one are slots.
LEMMA NextSlot ==
  ASSUME NEW s \in Slots, NEW i \in Nat
  PROVE  next_index(s, i) \in Slots
<1>1. s + i \in Nat /\ QueueSize \in Nat \ {0}
  BY Constants DEF Slots
<1> QED
  BY <1>1 DEF next_index, Slots

\* What get_current_nalu() takes has the slots of the NALU at the head.
LEMMA TakenOf ==
  ASSUME NEW low, NEW n, NEW b, Sound(b, low, n), b.head \in Slots, IsWhole(b)
  PROVE  /\ NaluOf[HeadPackage(b)] \in NaluNumbers
         /\ HasSlotsOf(Taken(b), NaluOf[HeadPackage(b)])
         /\ Taken(b) \in Seq(Packets)
<1> DEFINE m == NaluOf[HeadPackage(b)]
           z == NaluSizes[m]
           T == Taken(b)
<1>1. HeadPackage(b) # Invalid /\ IsFirst(HeadPackage(b)) /\ Missing(b, NaluSlots(b)) = {}
  BY DEF IsWhole
<1>2. /\ HeadPackage(b) \in Packets /\ slot_index(HeadPackage(b)) = b.head
      /\ m \in NaluNumbers /\ Size(b) = z
  BY <1>1, SizeOf
<1>3. HeadPackage(b) = FirstOf(m)
  BY <1>1, <1>2, FirstPackets
<1> HIDE DEF m
<1>4. z \in Nat \ {0} /\ FirstOf(m) = LastPacket[m - 1] + 1 /\ LastPacket[m - 1] \in Nat
  BY <1>2, PacketsOfNalu, LastPackets DEF FirstOf, NaluNumbers
<1> HIDE DEF z
<1>5. ASSUME NEW i \in 1 .. z
      PROVE  /\ b.vpkg[next_index(b.head, i - 1)] \in Packets
             /\ b.vpkg[next_index(b.head, i - 1)] # Invalid
             /\ slot_index(b.vpkg[next_index(b.head, i - 1)]) = slot_index(LastPacket[m - 1] + i)
  <2> DEFINE s == next_index(b.head, i - 1)
  <2>1. i - 1 \in 0 .. z - 1 /\ i - 1 \in Nat /\ FirstOf(m) \in Nat
          /\ FirstOf(m) + (i - 1) = LastPacket[m - 1] + i
    BY <1>4
  <2>2. s = slot_index(LastPacket[m - 1] + i)
    BY <1>2, <1>3, <2>1, NextOf
  <2>3. s \in Slots
    BY <2>1, NextSlot
  <2>4. s \in NaluSlots(b)
    BY <1>2, <2>1 DEF NaluSlots
  <2> HIDE DEF s
  <2>5. b.vpkg[s] # Invalid
    BY <1>1, <2>4 DEF Missing
  <2>6. b.vpkg[s] \in Packets /\ slot_index(b.vpkg[s]) = s
    BY <2>3, <2>5 DEF Sound, Buffers, InSlots
  <2> QED
    BY <2>2, <2>5, <2>6 DEF s
<1>6. T = [i \in 1 .. z |-> b.vpkg[next_index(b.head, i - 1)]]
  BY <1>2 DEF Taken
<1>7. T \in Seq(Packets)
  BY <1>4, <1>5, <1>6
<1>8. Len(T) = z /\ \A i \in 1 .. z : T[i] = b.vpkg[next_index(b.head, i - 1)]
  BY <1>4, <1>6
<1>9. \A i \in 1 .. z : PackagesOf(m)[i] = LastPacket[m - 1] + i
  BY DEF PackagesOf, z
<1> HIDE DEF T
<1>10. HasSlotsOf(T, m)
  BY <1>5, <1>8, <1>9 DEF HasSlotsOf, z
<1> QED
  BY <1>2, <1>7, <1>10 DEF m, T

\* The head of d is behind the NALU at the head of b.
Moved(b, d) ==
    /\ d.head = next_index(b.head, Size(b)) /\ Size(b) # 0
    /\ ~ (distance(b.head, b.tail) < Size(b))
    /\ d.current = b.current /\ d.tail \in {b.tail, d.head}
    /\ \A s \in Slots \ NaluSlots(b) :
          d.vpkg[s] = b.vpkg[s] /\ (s \in DOMAIN d.qos <=> s \in DOMAIN b.qos)

\* move_to_next_head() moves it there, unless that is behind the tail.
LEMMA NextHeadOf ==
  ASSUME NEW low, NEW n, NEW b, Sound(b, low, n), b.head \in Slots
  PROVE  /\ Sound(NextHead(b), low, n) /\ NextHead(b).head \in Slots
         /\ \/ /\ NextHead(b) = b
               /\ Size(b) = 0 \/ distance(b.head, b.tail) < Size(b)
            \/ Moved(b, NextHead(b))
<1>1. CASE Size(b) = 0 \/ distance(b.head, b.tail) < Size(b)
  BY <1>1 DEF NextHead
<1>2. CASE ~ (Size(b) = 0 \/ distance(b.head, b.tail) < Size(b))
  <2> DEFINE N == NaluSlots(b)
             r == ResetPackets(b, N)
             e == Erase(r, N)
             h == next_index(b.head, Size(b))
             t == IF e.vpkg[next_index(h, 1)] = Invalid THEN h ELSE e.tail
             d == Ended(e, h, t, e.current)
  <2>1. b.tail \in Slots /\ b.current \in Slots
    BY Constants DEF Sound, HasEnds, Buffers
  <2>2. /\ Sound(r, low, n) /\ SameEnds(b, r) /\ r.qos = b.qos
        /\ \A s \in Slots : r.vpkg[s] = IF s \in N THEN Invalid ELSE b.vpkg[s]
    BY ResetPacketsSound
  <2>3. NextHead(b) = [e EXCEPT !.head = h, !.tail = IF e.vpkg[next_index(h, 1)] = Invalid
                                                    THEN h ELSE @]
    BY <1>2 DEF NextHead
  <2> HIDE DEF r
  <2>4. /\ Sound(e, low, n) /\ SameEnds(r, e) /\ e.vpkg = r.vpkg
        /\ DOMAIN e.qos = DOMAIN r.qos \ N
    BY <2>2, EraseSound
  <2> HIDE DEF e, N
  <2>5. h \in Slots
    BY SizeOf, NextSlot
  <2>6. h = next_index(b.head, Size(b))
    OBVIOUS
  <2> HIDE DEF h
  <2>7. h # none /\ e.current \in Slots /\ e.tail \in Slots /\ e.tail # none
          /\ e.current # none /\ e.tail = b.tail /\ e.current = b.current
    BY <2>1, <2>2, <2>4, <2>5, Constants DEF SameEnds
  <2>8. NextHead(b) = d
    BY <2>3, <2>4 DEF Ended, Sound, Buffers
  <2>9. t \in {b.tail, h} /\ t \in Slots /\ t # none
    BY <2>5, <2>7
  <2> HIDE DEF t
  <2>10. {h, t, e.current} \subseteq Slots \cup {none} /\ (h = none <=> t = none)
          /\ (h # none => e.current # none)
    BY <2>5, <2>7, <2>9
  <2>11. /\ Sound(d, low, n) /\ d.vpkg = e.vpkg /\ d.qos = e.qos
         /\ d.head = h /\ d.tail = t /\ d.current = e.current
    BY <2>4, <2>10, SoundEnds
  <2> HIDE DEF d
  <2>12. Moved(b, d)
    BY <1>2, <2>2, <2>4, <2>6, <2>7, <2>9, <2>11 DEF Moved, N
  <2> QED
    BY <2>5, <2>8, <2>11, <2>12
<1> QED
  BY <1>1, <1>2

\* scan_pkg() leaves the buffer as it is, resets it or moves the head.
LEMMA ScannedSound ==
  ASSUME NEW low, NEW n, NEW b, Sound(b, low, n), b.head \in Slots
  PROVE  LET s == Scanned(b)
         IN  Sound(s.buffer, low, n) /\ (s.more => s.buffer.head \in Slots)
<1> DEFINE s == Scanned(b)
<1>1. \/ s = [buffer |-> Reset(b), more |-> FALSE]
      \/ s = [buffer |-> b, more |-> FALSE]
      \/ s = [buffer |-> b, more |-> TRUE]
      \/ s = [buffer |-> NextHead(b), more |-> TRUE]
  BY DEF Scanned
<1>2. Sound(Reset(b), low, n)
  BY ResetSound
<1>3. Sound(NextHead(b), low, n) /\ NextHead(b).head \in Slots
  BY NextHeadOf
<1> HIDE DEF s
<1>4. \/ s.buffer = Reset(b) /\ ~ s.more
      \/ s.buffer \in {b, NextHead(b)}
  BY <1>1
<1>5. Sound(s.buffer, low, n) /\ (s.more => s.buffer.head \in Slots)
  BY <1>2, <1>3, <1>4
<1> QED
  BY <1>5 DEF s

-----------------------------------------------------------------------------
(***************************************************************************)
(* What is between head and tail is there, or asked for, or given up, and  *)
(* it is of no other round.                                                *)
(***************************************************************************)
Known(b, g, p) ==
    b.vpkg[slot_index(p)] # Invalid \/ slot_index(p) \in DOMAIN b.qos \/ p \in g

\* The packets at the head, at the tail, and at the place of the one that was
\* received last are "head", "tail" and "cur".
Covers(b, g, head, tail, cur) ==
    /\ b.head = slot_index(head) /\ b.tail = slot_index(tail) /\ b.current = slot_index(cur)
    /\ head <= tail /\ tail - head < WindowSize
    /\ tail - cur <= MaxLate /\ cur - head < Half
    /\ \A p \in head .. tail : b.vpkg[slot_index(p)] \in {Invalid, p}
    /\ \A p \in head .. tail - 1 : Known(b, g, p)
    /\ cur < head \/ cur >= tail + WindowSize - 1 \/ \A p \in head .. cur : Known(b, g, p)

\* So it is when n packets were sent, with the tail at one up to "top".
Covered(b, n, top, g, head) ==
    \E tail \in 1 .. top, cur \in 1 .. n : Covers(b, g, head, tail, cur)

\* How far the tail is from the head of such a buffer.
LEMMA CoversAhead ==
  ASSUME NEW b, NEW g, NEW head \in Nat, NEW tail \in Nat, NEW cur,
         Covers(b, g, head, tail, cur)
  PROVE  /\ Ahead(b.head, b.tail) = tail - head
         /\ distance(b.head, b.tail) = 1 + tail - head
         /\ b.head \in Slots /\ b.tail \in Slots
<1>1. /\ b.head = slot_index(head) /\ b.tail = slot_index(tail)
      /\ head <= tail /\ tail - head < WindowSize
  BY DEF Covers
<1>2. Near(head, tail) /\ tail - head < QueueSize
  BY <1>1, Constants DEF Near
<1>3. Ahead(b.head, b.tail) = tail - head
  BY <1>1, <1>2, AheadOf
<1> DEFINE d == tail - head
           x == 1 + (IF d < QueueSize - d THEN d ELSE QueueSize - d)
<1>4. distance(b.head, b.tail) = x
  BY <1>1, <1>2, DistanceOf
<1>5. x = 1 + tail - head
  BY <1>1, Constants
<1> QED
  BY <1>1, <1>3, <1>4, <1>5, SlotOf

\* A buffer without packets of another round.
LEMMA NoneIsStale ==
  ASSUME NEW b, NEW head \in Nat, NEW tail \in Nat, head <= tail, tail - head < WindowSize,
         b.head = slot_index(head), b.tail = slot_index(tail), ~ HasStale(b, head)
  PROVE  \A p \in head .. tail : b.vpkg[slot_index(p)] \in {Invalid, p}
<1>1. tail - head < QueueSize /\ WindowSize \in Nat /\ QueueSize \in Nat
  BY Constants
<1>2. SUFFICES ASSUME NEW p \in head .. tail
               PROVE  b.vpkg[slot_index(p)] \in {Invalid, p}
  OBVIOUS
<1>3. p \in Nat /\ p >= head /\ Near(head, p)
  BY <1>1 DEF Near
<1>4. From(b.head, b.tail) = {slot_index(r) : r \in head .. tail - 1}
  BY <1>1, FromOf
<1>5. slot_index(p) \in From(b.head, b.tail) \cup {b.tail}
  <2>1. CASE p = tail
    BY <2>1
  <2>2. CASE p # tail
    <3>1. p \in head .. tail - 1
      BY <1>3, <2>2
    <3> QED
      BY <1>4, <3>1
  <2> QED
    BY <2>1, <2>2
<1>6. Ahead(b.head, slot_index(p)) = p - head
  BY <1>3, AheadOf
<1>7. head + (p - head) = p
  BY <1>3
<1> QED
  BY <1>5, <1>6, <1>7 DEF HasStale

\* Another buffer is as well covered, if nothing from the head on became unknown.
LEMMA StillCovered ==
  ASSUME NEW n \in Nat, NEW k \in Nat, n <= k, NEW top \in Nat, NEW end \in Nat, top <= end,
         NEW b, NEW d, NEW g, NEW e, NEW head \in Nat \ {0},
         Covered(b, n, top, g, head), SameEnds(b, d), d.vpkg = b.vpkg,
         \A p \in Nat \ {0} : /\ head <= p /\ p < head + Half /\ (p <= n \/ p <= top)
                              /\ Known(b, g, p)
                              => Known(d, e, p)
  PROVE  Covered(d, k, end, e, head)
<1>1. PICK tail \in 1 .. top, cur \in 1 .. n : Covers(b, g, head, tail, cur)
  BY DEF Covered
<1>2. /\ head <= tail /\ tail - head < WindowSize /\ cur - head < Half
      /\ WindowSize < Half /\ WindowSize \in Nat /\ Half \in Nat
  BY <1>1, HalfOf, Constants DEF Covers
<1>3. ASSUME NEW p \in head .. tail - 1
      PROVE  Known(d, e, p)
  <2>1. p \in Nat \ {0} /\ head <= p /\ p < head + Half /\ p <= top
    BY <1>2
  <2>2. Known(b, g, p)
    BY <1>1 DEF Covers
  <2> QED
    BY <2>1, <2>2
<1>4. cur < head \/ cur >= tail + WindowSize - 1 \/ \A p \in head .. cur : Known(d, e, p)
  <2>1. ASSUME \A p \in head .. cur : Known(b, g, p), NEW p \in head .. cur
        PROVE  Known(d, e, p)
    <3>1. p \in Nat \ {0} /\ head <= p /\ p < head + Half /\ p <= n
      BY <1>2
    <3> QED
      BY <2>1, <3>1
  <2> QED
    BY <1>1, <2>1 DEF Covers
<1>5. Covers(d, e, head, tail, cur)
  BY <1>1, <1>3, <1>4 DEF Covers, SameEnds
<1>6. tail \in 1 .. end /\ cur \in 1 .. k
  OBVIOUS
<1> QED
  BY <1>5, <1>6 DEF Covered

\* What is in the slots from the head up to the tail of such a buffer is known.
LEMMA CoveredFrom ==
  ASSUME NEW n \in Nat, NEW top \in Nat, NEW b, NEW g, NEW head \in Nat \ {0},
         Covered(b, n, top, g, head)
  PROVE  \A s \in From(b.head, b.tail) : \E p \in Nat :
            s = slot_index(p) /\ p = head + Ahead(b.head, s) /\ Known(b, g, p)
<1>1. PICK tail \in 1 .. top, cur \in 1 .. n : Covers(b, g, head, tail, cur)
  BY DEF Covered
<1>2. /\ b.head = slot_index(head) /\ b.tail = slot_index(tail)
      /\ head <= tail /\ tail - head < QueueSize
      /\ \A p \in head .. tail - 1 : Known(b, g, p)
  BY <1>1, Constants DEF Covers
<1>3. From(b.head, b.tail) = {slot_index(p) : p \in head .. tail - 1}
  BY <1>2, FromOf
<1>4. ASSUME NEW s \in From(b.head, b.tail)
      PROVE  \E p \in Nat : s = slot_index(p) /\ p = head + Ahead(b.head, s) /\ Known(b, g, p)
  <2>1. PICK p \in head .. tail - 1 : s = slot_index(p)
    BY <1>3
  <2>2. p \in Nat /\ p >= head /\ Near(head, p)
    BY <1>2, Constants DEF Near
  <2>3. Ahead(b.head, s) = p - head
    BY <1>2, <2>1, <2>2, AheadOf
  <2> QED
    BY <1>2, <2>1, <2>2, <2>3
<1> QED
  BY <1>4

\* Where the NALU at the head is.
LEMMA NaluSlotsOf ==
  ASSUME NEW b, NEW m \in NaluNumbers, b.head = slot_index(FirstOf(m)), Size(b) = NaluSizes[m]
  PROVE  /\ NaluSlots(b) = {slot_index(p) : p \in FirstOf(m) .. FirstOf(m + 1) - 1}
         /\ next_index(b.head, Size(b)) = slot_index(FirstOf(m + 1))
         /\ \A i \in 1 .. Size(b) :
              next_index(b.head, i - 1) = slot_index(LastPacket[m - 1] + i)
<1> DEFINE f == FirstOf(m)
           g == FirstOf(m + 1)
           z == NaluSizes[m]
<1>1. f \in Nat /\ g = f + z /\ z \in Nat \ {0}
  BY PacketsOfNalu, FirstPacket
<1>2. b.head = slot_index(f) /\ Size(b) = z
  OBVIOUS
<1>3. LastPacket[m - 1] \in Nat /\ f = LastPacket[m - 1] + 1
  BY LastPackets DEF FirstOf, NaluNumbers
<1> HIDE DEF f, g, z
<1>4. ASSUME NEW i \in 0 .. z
      PROVE  next_index(b.head, i) = slot_index(f + i)
  <2>1. i \in Nat
    BY <1>1
  <2> QED
    BY <1>1, <1>2, <2>1, NextOf
<1>5. NaluSlots(b) = {next_index(b.head, i) : i \in 0 .. z - 1}
  BY <1>2 DEF NaluSlots
<1>6. ASSUME NEW i \in 0 .. z - 1
      PROVE  next_index(b.head, i) = slot_index(f + i) /\ f + i \in f .. g - 1
  BY <1>1, <1>4
<1>7. ASSUME NEW p \in f .. g - 1
      PROVE  \E i \in 0 .. z - 1 : slot_index(p) = next_index(b.head, i)
  <2>1. p - f \in 0 .. z - 1 /\ f + (p - f) = p
    BY <1>1
  <2> QED
    BY <1>6, <2>1
<1>8. NaluSlots(b) = {slot_index(p) : p \in f .. g - 1}
  BY <1>5, <1>6, <1>7
<1>9. next_index(b.head, Size(b)) = slot_index(g)
  BY <1>1, <1>2, <1>4
<1>10. ASSUME NEW i \in 1 .. Size(b)
       PROVE  next_index(b.head, i - 1) = slot_index(LastPacket[m - 1] + i)
  <2>1. i - 1 \in 0 .. z /\ f + (i - 1) = LastPacket[m - 1] + i
    BY <1>1, <1>2, <1>3
  <2> QED
    BY <1>4, <2>1
<1> QED
  BY <1>8, <1>9, <1>10 DEF f, g

\* The packet at the head of such a buffer is the one for which it stands.
LEMMA HeadOf ==
  ASSUME NEW n \in Nat, NEW top \in Nat, NEW b, NEW low, NEW g, NEW m \in HeadNumbers,
         Sound(b, low, n), Covered(b, n, top, g, FirstOf(m))
  PROVE  /\ b.head = slot_index(FirstOf(m)) /\ b.head \in Slots /\ b.tail \in Slots
         /\ HeadPackage(b) # Invalid =>
              /\ HeadPackage(b) = FirstOf(m) /\ IsFirst(HeadPackage(b))
              /\ m \in NaluNumbers /\ NaluOf[HeadPackage(b)] = m /\ Size(b) = NaluSizes[m]
<1> DEFINE f == FirstOf(m)
<1>1. f \in Nat \ {0} /\ (f \in Packets => m \in NaluNumbers)
  BY FirstPacket
<1>2. PICK tail \in 1 .. top, cur \in 1 .. n : Covers(b, g, f, tail, cur)
  BY DEF Covered
<1>3. b.head = slot_index(f) /\ b.head \in Slots /\ b.tail \in Slots
  <2> HIDE DEF f
  <2>1. tail \in Nat /\ f \in Nat
    BY <1>1
  <2>2. b.head \in Slots /\ b.tail \in Slots
    BY <1>2, <2>1, CoversAhead
  <2> QED
    BY <1>2, <2>2 DEF Covers
<1>4. b.vpkg[slot_index(f)] \in {Invalid, f}
  <2> HIDE DEF f
  <2>1. f \in f .. tail
    BY <1>1, <1>2 DEF Covers
  <2> QED
    BY <1>2, <2>1 DEF Covers
<1>5. ASSUME HeadPackage(b) # Invalid
      PROVE  /\ HeadPackage(b) = f /\ IsFirst(HeadPackage(b))
             /\ m \in NaluNumbers /\ NaluOf[HeadPackage(b)] = m /\ Size(b) = NaluSizes[m]
  <2>1. HeadPackage(b) = f
    BY <1>3, <1>4, <1>5 DEF HeadPackage
  <2>2. HeadPackage(b) \in Packets
    BY <1>3, <1>5, SizeOf
  <2>3. IsFirst(f) /\ NaluOf[f] = m
    BY <2>1, <2>2, FirstPackets
  <2> QED
    BY <1>1, <1>5, <2>1, <2>2, <2>3 DEF Size
<1> QED
  BY <1>3, <1>5

\* The head moves behind the NALU, of which all is before the tail.
LEMMA CoveredMoved ==
  ASSUME NEW n \in Nat, NEW top \in Nat, NEW b, NEW d, NEW g, NEW m \in NaluNumbers,
         Covered(b, n, top, g, FirstOf(m)), Size(b) = NaluSizes[m], Moved(b, d),
         Size(b) <= Ahead(b.head, b.tail)
  PROVE  Covered(d, n, top, g, FirstOf(m + 1)) /\ FirstOf(m + 1) <= top
<1> DEFINE head == FirstOf(m)
           new == FirstOf(m + 1)
           z == NaluSizes[m]
<1>1. head \in Nat \ {0} /\ new = head + z /\ z \in Nat \ {0}
  BY PacketsOfNalu, FirstPacket
<1>2. PICK tail \in 1 .. top, cur \in 1 .. n : Covers(b, g, head, tail, cur)
  BY DEF Covered
<1>3. b.head = slot_index(head)
  BY <1>2 DEF Covers
<1>4. /\ NaluSlots(b) = {slot_index(p) : p \in head .. new - 1}
      /\ next_index(b.head, Size(b)) = slot_index(new)
  BY <1>3, NaluSlotsOf
<1>5. /\ d.head = slot_index(new) /\ d.current = b.current /\ d.tail \in {b.tail, d.head}
      /\ \A s \in Slots \ NaluSlots(b) :
           d.vpkg[s] = b.vpkg[s] /\ (s \in DOMAIN d.qos <=> s \in DOMAIN b.qos)
  BY <1>4 DEF Moved
<1> HIDE DEF head, new, z
<1>6. Ahead(b.head, b.tail) = tail - head /\ tail \in Nat /\ cur \in Nat
  BY <1>1, <1>2, CoversAhead
<1>7. Size(b) = z
  BY DEF z
<1>8. new <= tail /\ head < new /\ new \in Nat \ {0}
  BY <1>1, <1>6, <1>7
<1>9. /\ head <= tail /\ tail - head < WindowSize /\ WindowSize \in Nat \ {0}
      /\ tail - cur <= MaxLate /\ cur - head < Half /\ Half \in Nat /\ MaxLate \in Nat
      /\ WindowSize < Half /\ 2 * Half <= QueueSize /\ QueueSize \in Nat
      /\ b.tail = slot_index(tail) /\ b.current = slot_index(cur)
  BY <1>2, HalfOf, Constants DEF Covers
<1>10. ASSUME NEW p \in Nat, new <= p, p < head + Half
       PROVE  /\ d.vpkg[slot_index(p)] = b.vpkg[slot_index(p)]
              /\ Known(b, g, p) => Known(d, g, p)
  <2>1. slot_index(p) \in Slots
    BY SlotOf
  <2>2. ASSUME slot_index(p) \in NaluSlots(b) PROVE FALSE
    <3>1. PICK q \in head .. new - 1 : slot_index(p) = slot_index(q)
      BY <1>4, <2>2
    <3>2. q \in Nat /\ Near(p, q)
      BY <1>1, <1>8, <1>9, <1>10 DEF Near
    <3>3. q = p
      BY <3>1, <3>2, SlotsDiffer
    <3> QED
      BY <3>1, <3>3, <1>8, <1>10
  <2> QED
    BY <1>5, <2>1, <2>2 DEF Known
<1>11. ASSUME NEW p \in new .. tail
       PROVE  /\ d.vpkg[slot_index(p)] \in {Invalid, p}
              /\ p \in new .. tail - 1 => Known(d, g, p)
  <2>1. p \in Nat /\ new <= p /\ p < head + Half /\ p \in head .. tail
          /\ (p \in new .. tail - 1 => p \in head .. tail - 1)
    BY <1>1, <1>6, <1>8, <1>9
  <2>2. b.vpkg[slot_index(p)] \in {Invalid, p} /\ (p \in head .. tail - 1 => Known(b, g, p))
    BY <1>2, <2>1 DEF Covers
  <2> QED
    BY <1>10, <2>1, <2>2
<1> DEFINE end == IF d.tail = b.tail THEN tail ELSE new
<1>12. d.tail = slot_index(end) /\ end \in {tail, new}
  BY <1>5, <1>9
<1> HIDE DEF end
<1>13. end \in 1 .. top /\ new <= end /\ end <= tail /\ end - new < WindowSize
         /\ end - cur <= MaxLate /\ cur - new < Half /\ new <= top
  BY <1>1, <1>6, <1>8, <1>9, <1>12
<1>14. /\ \A p \in new .. end : d.vpkg[slot_index(p)] \in {Invalid, p}
       /\ \A p \in new .. end - 1 : Known(d, g, p)
  <2>1. \A p \in new .. end : p \in new .. tail /\ (p \in new .. end - 1 => p \in new .. tail - 1)
    BY <1>8, <1>13
  <2>2. \A p \in new .. end - 1 : p \in new .. end
    BY <1>8, <1>13
  <2> QED
    BY <1>11, <2>1, <2>2
<1>15. cur < new \/ cur >= end + WindowSize - 1 \/ \A p \in new .. cur : Known(d, g, p)
  <2>1. CASE cur < head
    BY <1>1, <1>6, <1>8, <2>1
  <2>2. CASE cur >= tail + WindowSize - 1
    BY <1>6, <1>9, <1>13, <2>2
  <2>3. CASE \A p \in head .. cur : Known(b, g, p)
    <3>1. ASSUME NEW p \in new .. cur
          PROVE  Known(d, g, p)
      <4>1. p \in Nat /\ new <= p /\ p < head + Half /\ p \in head .. cur
        BY <1>1, <1>6, <1>8, <1>9
      <4> QED
        BY <1>10, <2>3, <4>1
    <3> QED
      BY <3>1
  <2> QED
    BY <1>2, <2>1, <2>2, <2>3 DEF Covers
<1>16. Covers(d, g, new, end, cur)
  BY <1>5, <1>9, <1>12, <1>13, <1>14, <1>15 DEF Covers
<1>17. Covered(d, n, top, g, new)
  BY <1>13, <1>16 DEF Covered
<1> QED
  BY <1>13, <1>17 DEF new

\* No more packets are received behind the head than there are slots.
LEMMA ReceivedBound ==
  ASSUME NEW s \in Slots, NEW t \in Slots, NEW S
  PROVE  /\ Cardinality(From(s, t) \ S) \in Nat
         /\ Cardinality(From(s, t) \ S) <= Ahead(s, t)
<1> DEFINE a == Ahead(s, t)
           f == [i \in 0 .. a - 1 |-> next_index(s, i)]
           F == From(s, t)
<1>1. a \in Nat /\ a - 1 \in Int
  BY FromSlots
<1>2. F = {next_index(s, i) : i \in 0 .. a - 1}
  BY DEF From
<1> HIDE DEF a, F
<1>3. f \in Surjection(0 .. a - 1, F)
  BY <1>2 DEF Surjection
<1> HIDE DEF f
<1> DEFINE c == Cardinality(0 .. a - 1)
           k == Cardinality(F)
           l == Cardinality(F \ S)
<1>4. IsFiniteSet(0 .. a - 1) /\ c = IF 0 > a - 1 THEN 0 ELSE a - 1 - 0 + 1
  BY <1>1, FS_Interval
<1>5. IsFiniteSet(F) /\ k <= c
  BY <1>3, <1>4, FS_Surjection
<1>6. F \ S \in SUBSET F
  OBVIOUS
<1>7. IsFiniteSet(F \ S) /\ l <= k
  BY <1>5, <1>6, FS_Subset
<1>8. k \in Nat /\ l \in Nat
  BY <1>5, <1>7, FS_CardinalityType
<1> HIDE DEF c, k, l
<1>9. c = a
  BY <1>1, <1>4
<1>10. l <= a
  BY <1>1, <1>5, <1>7, <1>8, <1>9
<1> QED
  BY <1>8, <1>10 DEF l, F, a

\* A NALU that may be skipped: a packet of it was given up.
SkippedNalu(nalu, g) == ToSet(PackagesOf(nalu)) \cap g # {}

\* A NALU of which all is before the tail of such a buffer, and is there, is
\* taken as it was sent.
LEMMA TakenWhole ==
  ASSUME NEW n \in Nat, NEW top \in Nat, NEW b, NEW low, NEW g, NEW m \in HeadNumbers,
         Sound(b, low, n), Covered(b, n, top, g, FirstOf(m)), IsWhole(b),
         Size(b) <= Ahead(b.head, b.tail)
  PROVE  m \in NaluNumbers /\ Size(b) = NaluSizes[m] /\ Taken(b) = PackagesOf(m)
<1>1. HeadPackage(b) # Invalid /\ Missing(b, NaluSlots(b)) = {}
  BY DEF IsWhole
<1>2. m \in NaluNumbers /\ Size(b) = NaluSizes[m] /\ b.head = slot_index(FirstOf(m))
  BY <1>1, HeadOf
<1>3. /\ NaluSizes[m] \in Nat \ {0} /\ FirstOf(m + 1) = FirstOf(m) + NaluSizes[m]
      /\ FirstOf(m) = LastPacket[m - 1] + 1 /\ LastPacket[m - 1] \in Nat
  BY <1>2, PacketsOfNalu, LastPackets DEF FirstOf, NaluNumbers
<1>4. PICK tail \in 1 .. top, cur \in 1 .. n : Covers(b, g, FirstOf(m), tail, cur)
  BY DEF Covered
<1>5. Ahead(b.head, b.tail) = tail - FirstOf(m)
  <2>1. tail \in Nat /\ FirstOf(m) \in Nat
    BY <1>3
  <2> QED
    BY <1>4, <2>1, CoversAhead
<1>6. ASSUME NEW i \in 1 .. NaluSizes[m]
      PROVE  b.vpkg[next_index(b.head, i - 1)] = LastPacket[m - 1] + i
  <2>1. next_index(b.head, i - 1) = slot_index(LastPacket[m - 1] + i)
    BY <1>2, <1>6, NaluSlotsOf
  <2>2. LastPacket[m - 1] + i \in FirstOf(m) .. FirstOf(m + 1) - 1
    BY <1>3
  <2>3. next_index(b.head, i - 1) \in NaluSlots(b)
    BY <1>2, <2>1, <2>2, NaluSlotsOf
  <2>4. b.vpkg[slot_index(LastPacket[m - 1] + i)] # Invalid
    BY <1>1, <2>1, <2>3 DEF Missing
  <2>5. LastPacket[m - 1] + i \in FirstOf(m) .. tail
    <3> DEFINE z == NaluSizes[m]
               l == LastPacket[m - 1]
               f == FirstOf(m)
    <3>1. z \in Nat /\ l \in Nat /\ f = l + 1 /\ z <= tail - f /\ i \in 1 .. z /\ tail \in Nat
      BY <1>2, <1>3, <1>5
    <3> HIDE DEF z, l, f
    <3>2. l + i \in f .. tail
      BY <3>1
    <3> QED
      BY <3>2 DEF l, f
  <2>6. b.vpkg[slot_index(LastPacket[m - 1] + i)] \in {Invalid, LastPacket[m - 1] + i}
    BY <1>4, <2>5 DEF Covers
  <2> QED
    BY <2>1, <2>4, <2>6
<1> QED
  BY <1>2, <1>6 DEF Taken, PackagesOf

\* What is missing of such a NALU and was not asked for was given up.
LEMMA LostIsGivenUp ==
  ASSUME NEW n \in Nat, NEW top \in Nat, NEW b, NEW g, NEW m \in NaluNumbers,
         Covered(b, n, top, g, FirstOf(m)), Size(b) = NaluSizes[m],
         Size(b) <= Ahead(b.head, b.tail),
         NEW s \in Missing(b, NaluSlots(b)), s \notin DOMAIN b.qos
  PROVE  SkippedNalu(m, g)
<1>1. /\ FirstOf(m + 1) = FirstOf(m) + Size(b) /\ Size(b) \in Nat
      /\ LastPacket[m - 1] \in Nat /\ FirstOf(m) = LastPacket[m - 1] + 1
  BY PacketsOfNalu, LastPackets DEF FirstOf, NaluNumbers
<1>2. s \in NaluSlots(b) /\ b.vpkg[s] = Invalid
  BY DEF Missing
<1>3. PICK tail \in 1 .. top, cur \in 1 .. n : Covers(b, g, FirstOf(m), tail, cur)
  BY DEF Covered
<1>4. b.head = slot_index(FirstOf(m))
  BY <1>3 DEF Covers
<1>5. PICK p \in FirstOf(m) .. FirstOf(m + 1) - 1 : s = slot_index(p)
  BY <1>2, <1>4, NaluSlotsOf
<1>6. Ahead(b.head, b.tail) = tail - FirstOf(m)
  <2>1. tail \in Nat /\ FirstOf(m) \in Nat
    BY <1>1
  <2> QED
    BY <1>3, <2>1, CoversAhead
<1>7. p \in FirstOf(m) .. tail - 1
  BY <1>1, <1>6
<1>8. Known(b, g, p)
  BY <1>3, <1>7 DEF Covers
<1>9. p \in g
  BY <1>2, <1>5, <1>8 DEF Known
<1>10. p \in ToSet(PackagesOf(m))
  <2> DEFINE i == p - LastPacket[m - 1]
  <2>1. i \in 1 .. NaluSizes[m] /\ LastPacket[m - 1] + i = p
    BY <1>1
  <2> HIDE DEF i
  <2> QED
    BY <2>1 DEF ToSet, PackagesOf
<1> QED
  BY <1>9, <1>10 DEF SkippedNalu

\* The head is where it was or behind the NALU that was there, of which a packet
\* was given up.
After(d, n, top, g, m, k) ==
    /\ k \in HeadNumbers /\ Covered(d, n, top, g, FirstOf(k))
    /\ k # m => k = m + 1 /\ SkippedNalu(m, g) /\ FirstOf(k) <= top

\* scan_pkg() skips the NALU at the head only if a packet of it was given up.
LEMMA ScannedOf ==
  ASSUME NEW n \in Nat, NEW top \in Nat, NEW b, NEW low, NEW g, NEW m \in HeadNumbers,
         Sound(b, low, n), Covered(b, n, top, g, FirstOf(m))
  PROVE  \E k : After(Scanned(b).buffer, n, top, g, m, k)
<1> DEFINE F == From(b.head, b.tail)
           there == F \ Missing(b, F)
           missing == Missing(b, NaluSlots(b))
           lost == \E s \in missing : /\ s \notin DOMAIN b.qos
                     /\ \A t \in missing : Ahead(b.head, s) <= Ahead(b.head, t)
           stays == HeadPackage(b) = Invalid \/ Size(b) > Cardinality(there)
           d == Scanned(b).buffer
<1>1. HeadPackage(b) = Invalid \/ IsFirst(HeadPackage(b))
  BY HeadOf
<1>2. Scanned(b) = IF stays THEN [buffer |-> b, more |-> FALSE]
                   ELSE IF missing = {} THEN [buffer |-> b, more |-> TRUE]
                   ELSE IF lost THEN [buffer |-> NextHead(b), more |-> TRUE]
                   ELSE [buffer |-> b, more |-> FALSE]
  BY <1>1 DEF Scanned
<1>3. d = b \/ (d = NextHead(b) /\ ~ stays /\ lost)
  <2> HIDE DEF stays, missing, lost
  <2> QED
    BY <1>2
<1> HIDE DEF d
<1>4. After(b, n, top, g, m, m)
  BY DEF After
<1>5. ASSUME ~ stays, lost
      PROVE  \E k : After(NextHead(b), n, top, g, m, k)
  <2>1. /\ m \in NaluNumbers /\ Size(b) = NaluSizes[m]
        /\ b.head \in Slots /\ b.tail \in Slots
    BY <1>5, HeadOf
  <2>2. Size(b) \in Nat \ {0} /\ m + 1 \in HeadNumbers
    BY <2>1, PacketsOfNalu
  <2>3. Cardinality(there) \in Nat /\ Cardinality(there) <= Ahead(b.head, b.tail)
    BY <2>1, ReceivedBound
  <2>4. Ahead(b.head, b.tail) \in Nat
    BY <2>1, FromSlots
  <2> DEFINE c == Cardinality(there)
  <2>5. Size(b) <= c
    BY <1>5, <2>2, <2>3
  <2> HIDE DEF c
  <2>6. Size(b) <= Ahead(b.head, b.tail)
    BY <2>2, <2>3, <2>4, <2>5 DEF c
  <2>7. NextHead(b) = b \/ Moved(b, NextHead(b))
    BY <2>1, NextHeadOf
  <2>8. CASE Moved(b, NextHead(b))
    <3>1. Covered(NextHead(b), n, top, g, FirstOf(m + 1)) /\ FirstOf(m + 1) <= top
      BY <2>1, <2>6, <2>8, CoveredMoved
    <3>2. PICK s \in missing : s \notin DOMAIN b.qos
      BY <1>5
    <3>3. SkippedNalu(m, g)
      BY <2>1, <2>6, <3>2, LostIsGivenUp
    <3>4. After(NextHead(b), n, top, g, m, m + 1)
      BY <2>2, <3>1, <3>3 DEF After
    <3> QED
      BY <3>4
  <2>9. CASE NextHead(b) = b
    BY <1>4, <2>9
  <2> QED
    BY <2>7, <2>8, <2>9
<1>6. \E k : After(d, n, top, g, m, k)
  <2> HIDE DEF stays, lost
  <2> QED
    BY <1>3, <1>4, <1>5
<1> QED
  BY <1>6 DEF d

-----------------------------------------------------------------------------
(***************************************************************************)
(* The loop of combine_callback().                                         *)
(***************************************************************************)
Begin(b) == [scan |-> Scanned(b), nalus |-> <<>>, misled |-> FALSE]

StepOf(before) ==
    LET left == before.scan.buffer
    IN  IF before.scan.more /\ IsWhole(left)
        THEN [scan |-> Scanned(NextHead(left)),
              nalus |-> Append(before.nalus, Taken(left)),
              misled |-> before.misled \/ ~TailIsBehind(left)]
        ELSE before

\* The recursion that defines Rounds has a solution on every prefix.
LEMMA PartialRounds ==
  ASSUME NEW b, NEW l \in Nat
  PROVE  \A n \in 0 .. l : \E f :
            f = [i \in 0 .. n |-> IF i = 0 THEN Begin(b) ELSE StepOf(f[i - 1])]
<1> DEFINE Solves(f, n) ==
             f = [i \in 0 .. n |-> IF i = 0 THEN Begin(b) ELSE StepOf(f[i - 1])]
           P == {n \in 0 .. l : \E f : Solves(f, n)}
<1>1. 0 \in P
  <2> DEFINE f == [i \in 0 .. 0 |-> Begin(b)]
  <2>1. Solves(f, 0)
    OBVIOUS
  <2>2. \E h : Solves(h, 0)
    BY <2>1
  <2> QED
    BY <2>2
<1>2. ASSUME NEW n \in 1 .. l, n - 1 \in P
      PROVE  n \in P
  <2>1. PICK f : Solves(f, n - 1)
    BY <1>2
  <2> DEFINE g == [i \in 0 .. n |-> IF i = n THEN StepOf(f[n - 1]) ELSE f[i]]
  <2>2. ASSUME NEW i \in 0 .. n
        PROVE  g[i] = IF i = 0 THEN Begin(b) ELSE StepOf(g[i - 1])
    <3>1. CASE i = n
      BY <3>1
    <3>2. CASE i # n
      <4>1. i \in 0 .. n - 1
        BY <3>2
      <4>2. f[i] = IF i = 0 THEN Begin(b) ELSE StepOf(f[i - 1])
        BY <2>1, <4>1
      <4> QED
        BY <3>2, <4>1, <4>2
    <3> QED
      BY <3>1, <3>2
  <2>3. Solves(g, n)
    BY <2>2
  <2>4. \E h : Solves(h, n)
    <3> HIDE DEF Solves, g
    <3> QED
      BY <2>3
  <2> QED
    <3> HIDE DEF Solves
    <3> QED
      BY <2>4
<1>3. P = 0 .. l
  BY <1>1, <1>2, UpTo
<1> QED
  BY <1>3

\* Rounds satisfies the recursion by which it is defined.
LEMMA RoundsAre ==
  ASSUME NEW b
  PROVE  /\ Rounds(b)[0] = Begin(b)
         /\ \A i \in 1 .. QueueSize : Rounds(b)[i] = StepOf(Rounds(b)[i - 1])
<1> DEFINE Solves(f) ==
             f = [i \in 0 .. QueueSize |-> IF i = 0 THEN Begin(b) ELSE StepOf(f[i - 1])]
<1>1. QueueSize \in Nat
  BY Constants
<1>2. \E g : Solves(g)
  <2>1. QueueSize \in 0 .. QueueSize
    BY <1>1
  <2> QED
    BY <1>1, <2>1, PartialRounds
<1>3. Rounds(b) = CHOOSE f : Solves(f)
  BY DEF Rounds, Begin, StepOf
<1>4. Solves(Rounds(b))
  <2> HIDE DEF Solves
  <2> QED
    BY <1>2, <1>3
<1> QED
  BY <1>1, <1>4

\* The NALU given before the i-th, and the i-th, or the one at the head; "l" is
\* the one given before all of them, and "m" the one at the head.
Prev(ns, l, i) == IF i = 1 THEN l ELSE NaluOf[ns[i - 1][1]]
Num(ns, m, i) == IF i = Len(ns) + 1 THEN m ELSE NaluOf[ns[i][1]]

\* They follow each other, and what is between them was skipped for a reason.
Follows(from, to, g) ==
    from < to /\ (from # 0 => \A nalu \in from + 1 .. to - 1 : SkippedNalu(nalu, g))
Chain(ns, l, m, g) ==
    \A i \in 1 .. Len(ns) + 1 : Follows(Prev(ns, l, i), Num(ns, m, i), g)

AreWhole(ns) == \A i \in DOMAIN ns : \E nalu \in NaluNumbers : ns[i] = PackagesOf(nalu)
AreSlots(ns) ==
    \A i \in DOMAIN ns : \E nalu \in NaluNumbers : HasSlotsOf(ns[i], nalu)

\* The number of a whole NALU.
LEMMA WholeNalu ==
  ASSUME NEW m \in NaluNumbers
  PROVE  PackagesOf(m) \in Seq(Packets) /\ NaluOf[PackagesOf(m)[1]] = m
<1>1. /\ NaluSizes[m] \in Nat \ {0} /\ FirstOf(m + 1) = FirstOf(m) + NaluSizes[m]
      /\ FirstOf(m) = LastPacket[m - 1] + 1 /\ LastPacket[m - 1] \in Nat
  BY PacketsOfNalu, LastPackets DEF FirstOf, NaluNumbers
<1>2. ASSUME NEW i \in 1 .. NaluSizes[m]
      PROVE  LastPacket[m - 1] + i \in Packets /\ NaluOf[LastPacket[m - 1] + i] = m
  <2>1. LastPacket[m - 1] + i \in FirstOf(m) .. FirstOf(m + 1) - 1
    BY <1>1
  <2> QED
    BY <2>1, PacketsOfNalu
<1>3. PackagesOf(m) \in Seq(Packets)
  BY <1>1, <1>2 DEF PackagesOf
<1>4. 1 \in 1 .. NaluSizes[m]
  BY <1>1
<1>5. PackagesOf(m)[1] = LastPacket[m - 1] + 1
  BY <1>4 DEF PackagesOf
<1> QED
  BY <1>2, <1>3, <1>4, <1>5

\* One more whole NALU.
LEMMA WholeAppended ==
  ASSUME NEW ns \in Seq(Seq(Packets)), AreWhole(ns), NEW m \in NaluNumbers
  PROVE  /\ Append(ns, PackagesOf(m)) \in Seq(Seq(Packets))
         /\ AreWhole(Append(ns, PackagesOf(m)))
<1> DEFINE x == PackagesOf(m)
           as == Append(ns, x)
           len == Len(ns)
<1>1. x \in Seq(Packets)
  BY WholeNalu
<1> HIDE DEF x
<1>2. /\ as \in Seq(Seq(Packets)) /\ len \in Nat
      /\ DOMAIN as = 1 .. len + 1 /\ DOMAIN ns = 1 .. len
      /\ as[len + 1] = x
      /\ \A i \in 1 .. len : as[i] = ns[i]
  BY <1>1
<1> HIDE DEF as, len
<1>3. ASSUME NEW i \in DOMAIN as
      PROVE  \E nalu \in NaluNumbers : as[i] = PackagesOf(nalu)
  <2>1. CASE i = len + 1
    BY <1>2, <2>1 DEF x
  <2>2. CASE i # len + 1
    <3>1. i \in 1 .. len
      BY <1>2, <2>2
    <3>2. i \in DOMAIN ns /\ as[i] = ns[i]
      BY <1>2, <3>1
    <3> QED
      BY <3>2 DEF AreWhole
  <2> QED
    BY <2>1, <2>2
<1>4. AreWhole(as)
  BY <1>3 DEF AreWhole
<1> QED
  BY <1>2, <1>4 DEF as, x

\* One more that has its slots.
LEMMA SlotsAppended ==
  ASSUME NEW ns \in Seq(Seq(Packets)), AreSlots(ns), NEW x \in Seq(Packets),
         NEW m \in NaluNumbers, HasSlotsOf(x, m)
  PROVE  Append(ns, x) \in Seq(Seq(Packets)) /\ AreSlots(Append(ns, x))
<1> DEFINE as == Append(ns, x)
           len == Len(ns)
<1>1. /\ as \in Seq(Seq(Packets)) /\ len \in Nat
      /\ DOMAIN as = 1 .. len + 1 /\ DOMAIN ns = 1 .. len
      /\ as[len + 1] = x
      /\ \A i \in 1 .. len : as[i] = ns[i]
  OBVIOUS
<1> HIDE DEF as, len
<1>2. ASSUME NEW i \in DOMAIN as
      PROVE  \E nalu \in NaluNumbers : HasSlotsOf(as[i], nalu)
  <2>1. CASE i = len + 1
    BY <1>1, <2>1
  <2>2. CASE i # len + 1
    <3>1. i \in 1 .. len
      BY <1>1, <2>2
    <3>2. i \in DOMAIN ns /\ as[i] = ns[i]
      BY <1>1, <3>1
    <3>3. \E nalu \in NaluNumbers : HasSlotsOf(ns[i], nalu)
      BY <3>2 DEF AreSlots
    <3> QED
      BY <3>2, <3>3
  <2> QED
    BY <2>1, <2>2
<1>3. AreSlots(as)
  BY <1>2 DEF AreSlots
<1> QED
  BY <1>1, <1>3 DEF as

\* The NALU at the head is given, and the head moves on.
LEMMA ChainGiven ==
  ASSUME NEW ns \in Seq(Seq(Packets)), NEW l, NEW g, NEW m \in NaluNumbers,
         Chain(ns, l, m, g)
  PROVE  Chain(Append(ns, PackagesOf(m)), l, m + 1, g)
<1> DEFINE as == Append(ns, PackagesOf(m))
           len == Len(ns)
<1>1. PackagesOf(m) \in Seq(Packets) /\ NaluOf[PackagesOf(m)[1]] = m /\ m \in Nat
  BY WholeNalu, LastPackets DEF NaluNumbers
<1>2. len \in Nat /\ Len(as) = len + 1
  BY <1>1
<1>3. as[len + 1] = PackagesOf(m) /\ \A i \in 1 .. len : as[i] = ns[i]
  BY <1>1
<1> HIDE DEF as, len
<1>4. ASSUME NEW i \in 1 .. len + 2
      PROVE  Follows(Prev(as, l, i), Num(as, m + 1, i), g)
  <2>1. CASE i = len + 2
    <3>1. i # 1 /\ i - 1 = len + 1 /\ i = Len(as) + 1
      BY <1>2, <2>1
    <3>2. Prev(as, l, i) = m
      BY <1>1, <1>3, <3>1 DEF Prev
    <3>3. Num(as, m + 1, i) = m + 1
      BY <3>1 DEF Num
    <3>4. Follows(m, m + 1, g)
      <4>1. m < m + 1 /\ \A nalu \in m + 1 .. (m + 1) - 1 : FALSE
        BY <1>1
      <4> QED
        BY <4>1 DEF Follows
    <3> QED
      BY <3>2, <3>3, <3>4
  <2>2. CASE i # len + 2
    <3>1. i \in 1 .. len + 1 /\ i # Len(as) + 1 /\ Len(ns) = len
      BY <1>2, <2>2 DEF len
    <3>2. Prev(as, l, i) = Prev(ns, l, i)
      <4>1. CASE i = 1
        BY <4>1 DEF Prev
      <4>2. CASE i # 1
        <5>1. i - 1 \in 1 .. len
          BY <1>2, <3>1, <4>2
        <5> QED
          BY <1>3, <4>2, <5>1 DEF Prev
      <4> QED
        BY <4>1, <4>2
    <3>3. Num(as, m + 1, i) = Num(ns, m, i)
      <4>1. CASE i = len + 1
        BY <1>1, <1>3, <3>1, <4>1 DEF Num
      <4>2. CASE i # len + 1
        <5>1. i \in 1 .. len
          BY <1>2, <3>1, <4>2
        <5> QED
          BY <1>3, <3>1, <4>2, <5>1 DEF Num
      <4> QED
        BY <4>1, <4>2
    <3>4. Follows(Prev(ns, l, i), Num(ns, m, i), g)
      BY <3>1 DEF Chain
    <3> QED
      BY <3>2, <3>3, <3>4
  <2> QED
    BY <2>1, <2>2
<1>5. 1 .. Len(as) + 1 = 1 .. len + 2
  BY <1>2
<1>6. Chain(as, l, m + 1, g)
  BY <1>4, <1>5 DEF Chain
<1> QED
  BY <1>6 DEF as

\* The NALU at the head is skipped.
LEMMA ChainSkipped ==
  ASSUME NEW ns \in Seq(Seq(Packets)), NEW l, NEW g, NEW m \in Nat,
         Prev(ns, l, Len(ns) + 1) \in Int, Chain(ns, l, m, g), SkippedNalu(m, g)
  PROVE  Chain(ns, l, m + 1, g)
<1>1. ASSUME NEW i \in 1 .. Len(ns) + 1
      PROVE  Follows(Prev(ns, l, i), Num(ns, m + 1, i), g)
  <2>1. Follows(Prev(ns, l, i), Num(ns, m, i), g)
    BY DEF Chain
  <2>2. CASE i = Len(ns) + 1
    <3>1. Num(ns, m, i) = m /\ Num(ns, m + 1, i) = m + 1
      BY <2>2 DEF Num
    <3>2. Prev(ns, l, i) \in Int
      BY <2>2
    <3> QED
      BY <2>1, <3>1, <3>2 DEF Follows
  <2>3. CASE i # Len(ns) + 1
    BY <2>1, <2>3 DEF Num
  <2> QED
    BY <2>2, <2>3
<1> QED
  BY <1>1 DEF Chain

\* The number before the head.
LEMMA PrevIsNumber ==
  ASSUME NEW ns \in Seq(Seq(Packets)), AreWhole(ns), NEW l \in 0 .. Total,
         NEW i \in 1 .. Len(ns) + 1
  PROVE  /\ Prev(ns, l, i) \in 0 .. Total /\ Prev(ns, l, i) \in Int
         /\ i # 1 => Prev(ns, l, i) \in NaluNumbers
<1>1. CASE i = 1
  BY <1>1 DEF Prev
<1>2. CASE i # 1
  <2>1. i - 1 \in DOMAIN ns
    BY <1>2
  <2>2. PICK nalu \in NaluNumbers : ns[i - 1] = PackagesOf(nalu)
    BY <2>1 DEF AreWhole
  <2>3. Prev(ns, l, i) = nalu
    BY <1>2, <2>2, WholeNalu DEF Prev
  <2> QED
    BY <2>3, LastPackets DEF NaluNumbers
<1> QED
  BY <1>1, <1>2
\* What a round of the loop keeps true of its result r, of which d is the buffer.
\* The rest is known if "good" was so before, and the head was at NALU m.
Given(r) == r.misled \in BOOLEAN /\ r.nalus \in Seq(Seq(Packets)) /\ AreSlots(r.nalus)
Whole(r, d, n, top, g, l, m) ==
    /\ AreWhole(r.nalus)
    /\ \E k \in HeadNumbers : /\ FirstOf(m) <= FirstOf(k) /\ Chain(r.nalus, l, k, g)
                              /\ Covered(d, n, top, g, FirstOf(k))
InLoop(r, good, low, n, top, g, l, m) ==
    /\ Given(r) /\ Sound(r.scan.buffer, low, n)
    /\ r.scan.more => r.scan.buffer.head \in Slots
    /\ good /\ ~ r.misled => Whole(r, r.scan.buffer, n, top, g, l, m)

\* At first it is true.
LEMMA NothingGiven ==
  ASSUME NEW r, r.misled = FALSE, r.nalus = <<>>
  PROVE  Given(r) /\ AreWhole(r.nalus)
<1>1. r.nalus \in Seq(Seq(Packets)) /\ AreWhole(r.nalus) /\ AreSlots(r.nalus)
  BY DEF AreWhole, AreSlots
<1>2. r.misled \in BOOLEAN
  OBVIOUS
<1> QED
  BY <1>1, <1>2 DEF Given

\* The head stays, or moves on from a NALU that was given up.
LEMMA ChainAfter ==
  ASSUME NEW n, NEW top, NEW d, NEW g, NEW m \in HeadNumbers,
         NEW k, After(d, n, top, g, m, k),
         NEW ns \in Seq(Seq(Packets)), AreWhole(ns), NEW l \in 0 .. Total, Chain(ns, l, m, g)
  PROVE  /\ k \in HeadNumbers /\ FirstOf(m) <= FirstOf(k)
         /\ Covered(d, n, top, g, FirstOf(k)) /\ Chain(ns, l, k, g)
<1>1. /\ k \in HeadNumbers /\ Covered(d, n, top, g, FirstOf(k))
      /\ (k # m => k = m + 1 /\ SkippedNalu(m, g))
  BY DEF After
<1>2. m \in Nat /\ FirstOf(m) \in Nat /\ Total \in Nat
  BY FirstPacket, LastPackets
<1>3. CASE k = m
  BY <1>1, <1>2, <1>3
<1>4. CASE k # m
  <2>1. Len(ns) + 1 \in 1 .. Len(ns) + 1
    OBVIOUS
  <2>2. Prev(ns, l, Len(ns) + 1) \in Int
    BY <2>1, PrevIsNumber
  <2>3. Chain(ns, l, k, g)
    BY <1>1, <1>2, <1>4, <2>2, ChainSkipped
  <2>4. m \in NaluNumbers
    BY <1>1, <1>2, <1>4 DEF HeadNumbers, NaluNumbers
  <2>5. FirstOf(k) = FirstOf(m) + NaluSizes[m] /\ NaluSizes[m] \in Nat
    BY <1>1, <1>4, <2>4, PacketsOfNalu
  <2> QED
    BY <1>1, <1>2, <2>3, <2>5
<1> QED
  BY <1>3, <1>4

\* The loop begins.
LEMMA LoopBegins ==
  ASSUME NEW low, NEW n \in Nat, NEW top \in Nat, NEW b, NEW g, NEW m \in HeadNumbers,
         Sound(b, low, n), b.head \in Slots, NEW l \in 0 .. Total,
         NEW good \in BOOLEAN,
         good => Covered(b, n, top, g, FirstOf(m)) /\ Chain(<<>>, l, m, g)
  PROVE  InLoop(Begin(b), good, low, n, top, g, l, m)
<1> DEFINE d == Scanned(b).buffer
           r == Begin(b)
<1>1. r.scan = Scanned(b) /\ r.misled = FALSE /\ r.nalus = <<>>
  BY DEF Begin
<1>2. Sound(d, low, n) /\ (r.scan.more => d.head \in Slots)
  BY <1>1, ScannedSound
<1>3. r.scan.buffer = d
  BY <1>1
<1> HIDE DEF d, r
<1>4. Given(r) /\ AreWhole(r.nalus)
  BY <1>1, NothingGiven
<1>5. ASSUME good
      PROVE  Whole(r, d, n, top, g, l, m)
  <2>1. Covered(b, n, top, g, FirstOf(m)) /\ Chain(r.nalus, l, m, g)
    BY <1>1, <1>5
  <2>2. PICK k : After(d, n, top, g, m, k)
    BY <2>1, ScannedOf DEF d
  <2> QED
    BY <1>4, <2>1, <2>2, ChainAfter DEF Whole, Given
<1>6. InLoop(r, good, low, n, top, g, l, m)
  BY <1>2, <1>3, <1>4, <1>5 DEF InLoop
<1> QED
  BY <1>6 DEF r

\* A whole NALU is given, with the tail behind it, and the head moves on.
LEMMA WholeGiven ==
  ASSUME NEW low, NEW n \in Nat, NEW top \in Nat, NEW r, NEW b, NEW g, NEW l \in 0 .. Total,
         NEW m \in HeadNumbers, Given(r), Sound(b, low, n), Whole(r, b, n, top, g, l, m),
         IsWhole(b), TailIsBehind(b),
         NEW s, s.nalus = Append(r.nalus, Taken(b))
  PROVE  Whole(s, Scanned(NextHead(b)).buffer, n, top, g, l, m)
<1> DEFINE next == NextHead(b)
           d == Scanned(next).buffer
<1>1. PICK k \in HeadNumbers : /\ FirstOf(m) <= FirstOf(k) /\ Chain(r.nalus, l, k, g)
                               /\ Covered(b, n, top, g, FirstOf(k))
  BY DEF Whole
<1>2. AreWhole(r.nalus) /\ r.nalus \in Seq(Seq(Packets))
  BY DEF Whole, Given
<1>3. Size(b) <= Ahead(b.head, b.tail)
  BY DEF TailIsBehind
<1>4. k \in NaluNumbers /\ Size(b) = NaluSizes[k] /\ Taken(b) = PackagesOf(k)
  BY <1>1, <1>3, TakenWhole
<1>5. /\ NaluSizes[k] \in Nat \ {0} /\ k + 1 \in HeadNumbers
      /\ FirstOf(k + 1) = FirstOf(k) + NaluSizes[k]
      /\ FirstOf(k) \in Nat /\ FirstOf(m) \in Nat
  BY <1>1, <1>4, PacketsOfNalu, FirstPacket
<1>6. b.head \in Slots
  BY <1>1, HeadOf
<1>7. Sound(next, low, n) /\ Moved(b, next)
  <2>1. PICK tail \in 1 .. top, cur \in 1 .. n : Covers(b, g, FirstOf(k), tail, cur)
    BY <1>1 DEF Covered
  <2>2. Ahead(b.head, b.tail) = tail - FirstOf(k)
          /\ distance(b.head, b.tail) = 1 + tail - FirstOf(k)
    <3>1. tail \in Nat
      OBVIOUS
    <3> QED
      BY <1>5, <2>1, <3>1, CoversAhead
  <2>3. tail \in Nat
    OBVIOUS
  <2>4. ~ (Size(b) = 0 \/ distance(b.head, b.tail) < Size(b))
    <3> DEFINE x == distance(b.head, b.tail)
               a == Ahead(b.head, b.tail)
    <3>1. x = a + 1 /\ a \in Int /\ Size(b) \in Nat \ {0} /\ Size(b) <= a
      BY <1>3, <1>4, <1>5, <2>2, <2>3
    <3> HIDE DEF x, a
    <3>2. ~ (Size(b) = 0 \/ x < Size(b))
      BY <3>1
    <3> QED
      BY <3>2 DEF x
  <2> QED
    BY <1>6, <2>4, NextHeadOf
<1>8. Covered(next, n, top, g, FirstOf(k + 1))
  BY <1>1, <1>3, <1>4, <1>7, CoveredMoved
<1>9. s.nalus \in Seq(Seq(Packets)) /\ AreWhole(s.nalus)
  BY <1>2, <1>4, WholeAppended
<1>10. Chain(s.nalus, l, k + 1, g)
  BY <1>1, <1>2, <1>4, ChainGiven
<1> HIDE DEF next
<1>11. PICK j : After(d, n, top, g, k + 1, j)
  BY <1>5, <1>7, <1>8, ScannedOf
<1> HIDE DEF d
<1>12. /\ j \in HeadNumbers /\ FirstOf(k + 1) <= FirstOf(j)
       /\ Covered(d, n, top, g, FirstOf(j)) /\ Chain(s.nalus, l, j, g)
  BY <1>5, <1>9, <1>10, <1>11, ChainAfter
<1>13. FirstOf(m) <= FirstOf(j)
  <2>1. FirstOf(j) \in Nat
    BY <1>12, FirstPacket
  <2> DEFINE x == FirstOf(m)
             y == FirstOf(k)
             z == FirstOf(k + 1)
             u == FirstOf(j)
             v == NaluSizes[k]
  <2>2. x \in Nat /\ y \in Nat /\ v \in Nat /\ u \in Nat /\ z = y + v /\ x <= y /\ z <= u
    BY <1>1, <1>5, <1>12, <2>1
  <2> HIDE DEF x, y, z, u, v
  <2>3. x <= u
    BY <2>2
  <2> QED
    BY <2>3 DEF x, u
<1>14. Whole(s, d, n, top, g, l, m)
  BY <1>9, <1>12, <1>13 DEF Whole
<1> QED
  BY <1>14 DEF d, next

\* The loop goes on.
LEMMA LoopGoesOn ==
  ASSUME NEW low, NEW n \in Nat, NEW top \in Nat, NEW r, NEW g, NEW l \in 0 .. Total,
         NEW m \in HeadNumbers, NEW good \in BOOLEAN, InLoop(r, good, low, n, top, g, l, m)
  PROVE  InLoop(StepOf(r), good, low, n, top, g, l, m)
<1> DEFINE left == r.scan.buffer
           next == NextHead(left)
           d == Scanned(next).buffer
           s == StepOf(r)
<1>1. CASE ~ (r.scan.more /\ IsWhole(left))
  BY <1>1 DEF StepOf
<1>2. CASE r.scan.more /\ IsWhole(left)
  <2>1. /\ Given(r) /\ Sound(left, low, n) /\ left.head \in Slots
        /\ good /\ ~ r.misled => Whole(r, left, n, top, g, l, m)
    BY <1>2 DEF InLoop
  <2>2. s = [scan |-> Scanned(next), nalus |-> Append(r.nalus, Taken(left)),
             misled |-> r.misled \/ ~TailIsBehind(left)]
    BY <1>2 DEF StepOf
  <2>3. /\ s.scan = Scanned(next) /\ s.nalus = Append(r.nalus, Taken(left))
        /\ s.misled \in BOOLEAN
        /\ ~ s.misled => ~ r.misled /\ TailIsBehind(left)
    <3> DEFINE misled_ == r.misled \/ ~TailIsBehind(left)
               scan_ == Scanned(next)
               nalus_ == Append(r.nalus, Taken(left))
    <3>1. misled_ \in BOOLEAN
      OBVIOUS
    <3>2. ~ misled_ => ~ r.misled /\ TailIsBehind(left)
      OBVIOUS
    <3>3. s = [scan |-> scan_, nalus |-> nalus_, misled |-> misled_]
      BY <2>2
    <3> HIDE DEF misled_, scan_, nalus_, s
    <3>4. s.scan = scan_ /\ s.nalus = nalus_ /\ s.misled = misled_
      BY <3>3
    <3>5. s.scan = Scanned(next) /\ s.nalus = Append(r.nalus, Taken(left))
      BY <3>4 DEF scan_, nalus_
    <3> QED
      BY <3>1, <3>2, <3>4, <3>5
  <2> HIDE DEF left, s
  <2>4. s.nalus \in Seq(Seq(Packets)) /\ AreSlots(s.nalus)
    BY <1>2, <2>1, <2>3, TakenOf, SlotsAppended DEF Given
  <2>5. Sound(next, low, n) /\ next.head \in Slots
    BY <2>1, NextHeadOf
  <2>6. Sound(d, low, n) /\ (s.scan.more => d.head \in Slots) /\ s.scan.buffer = d
    <3> HIDE DEF next
    <3> QED
      BY <2>3, <2>5, ScannedSound
  <2>7. ASSUME good, ~ s.misled
        PROVE  Whole(s, d, n, top, g, l, m)
    BY <1>2, <2>1, <2>3, <2>7, WholeGiven
  <2>8. Given(s)
    BY <2>3, <2>4 DEF Given
  <2> HIDE DEF d
  <2>9. InLoop(s, good, low, n, top, g, l, m)
    BY <2>6, <2>7, <2>8 DEF InLoop
  <2> QED
    BY <2>9 DEF s
<1> QED
  BY <1>1, <1>2

\* What the handling of a packet may yield.
ResultOK(r, good, low, n, top, g, l, m) ==
    /\ Given(r) /\ Sound(r.buffer, low, n)
    /\ good /\ ~ r.misled => \/ r.buffer.head = none /\ r.nalus = <<>>
                             \/ Whole(r, r.buffer, n, top, g, l, m)

\* NALUs are combined.
LEMMA CombinedOf ==
  ASSUME NEW low, NEW n \in Nat, NEW top \in Nat, NEW b, NEW g, NEW m \in HeadNumbers,
         Sound(b, low, n), b.head \in Slots, NEW l \in 0 .. Total,
         NEW good \in BOOLEAN,
         good => Covered(b, n, top, g, FirstOf(m)) /\ Chain(<<>>, l, m, g)
  PROVE  ResultOK(Combined(b), good, low, n, top, g, l, m)
<1> DEFINE r == Rounds(b)
           end == r[QueueSize]
           P == {i \in 0 .. QueueSize : InLoop(r[i], good, low, n, top, g, l, m)}
           c == Combined(b)
<1>1. QueueSize \in Nat
  BY Constants
<1>2. r[0] = Begin(b) /\ \A i \in 1 .. QueueSize : r[i] = StepOf(r[i - 1])
  BY RoundsAre
<1> HIDE DEF r
<1>3. 0 \in P
  <2>1. InLoop(Begin(b), good, low, n, top, g, l, m)
    BY LoopBegins
  <2> QED
    BY <1>1, <1>2, <2>1
<1>4. ASSUME NEW i \in 1 .. QueueSize, i - 1 \in P
      PROVE  i \in P
  <2>1. InLoop(r[i - 1], good, low, n, top, g, l, m)
    BY <1>4
  <2>2. InLoop(StepOf(r[i - 1]), good, low, n, top, g, l, m)
    BY <2>1, LoopGoesOn
  <2>3. r[i] = StepOf(r[i - 1]) /\ i \in 0 .. QueueSize
    BY <1>1, <1>2
  <2> QED
    BY <2>2, <2>3
<1>5. P = 0 .. QueueSize
  <2> HIDE DEF P
  <2> QED
    BY <1>1, <1>3, <1>4, UpTo DEF P
<1>6. InLoop(end, good, low, n, top, g, l, m)
  BY <1>1, <1>5
<1>7. c.buffer = end.scan.buffer /\ c.nalus = end.nalus /\ c.misled = end.misled
  BY DEF Combined, Result, r
<1> HIDE DEF end, c
<1>8. ResultOK(c, good, low, n, top, g, l, m)
  BY <1>6, <1>7 DEF InLoop, ResultOK, Given, Whole
<1> QED
  BY <1>8 DEF c

\* Unless there are too many packets for the window.
LEMMA CombineCallbackOf ==
  ASSUME NEW n \in Nat, NEW top \in Nat, NEW b, NEW g, NEW m \in HeadNumbers,
         Sound(b, 1, n), b.head \in Slots, NEW l \in 0 .. Total, NEW good \in BOOLEAN,
         good => /\ HasOverflowed(b) \/ Covered(b, n, top, g, FirstOf(m))
                 /\ Chain(<<>>, l, m, g)
  PROVE  ResultOK(CombineCallback(b), good, 0, n, top, g, l, m)
<1> DEFINE d == CountedDown(b)
           e == ResetPackets(d, From(b.head, b.tail) \cup {b.tail})
           r == CombineCallback(b)
<1>1. /\ Sound(d, 0, n) /\ SameEnds(b, d) /\ d.vpkg = b.vpkg /\ DOMAIN d.qos = DOMAIN b.qos
  BY CountedDownSound
<1> HIDE DEF d
<1>2. CASE HasOverflowed(b)
  <2>1. Sound(e, 0, n)
    BY <1>1, ResetPacketsSound
  <2>2. r = Result(Reset(e), <<>>, FALSE)
    BY <1>2 DEF CombineCallback, d
  <2> HIDE DEF e, r
  <2>3. Sound(Reset(e), 0, n) /\ Reset(e).head = none
    BY <2>1, ResetSound
  <2>4. r.buffer = Reset(e) /\ r.nalus = <<>> /\ r.misled = FALSE
    BY <2>2 DEF Result
  <2>5. Given(r)
    BY <2>4, NothingGiven
  <2>6. ResultOK(r, good, 0, n, top, g, l, m)
    BY <2>3, <2>4, <2>5 DEF ResultOK
  <2> QED
    BY <2>6 DEF r
<1>3. CASE ~ HasOverflowed(b)
  <2>1. r = Combined(d)
    BY <1>3 DEF CombineCallback, d
  <2>2. d.head \in Slots
    BY <1>1 DEF SameEnds
  <2>3. ASSUME good
        PROVE  Covered(d, n, top, g, FirstOf(m)) /\ Chain(<<>>, l, m, g)
    <3>1. Covered(b, n, top, g, FirstOf(m))
      BY <1>3, <2>3
    <3>2. \A p \in Nat \ {0} : Known(b, g, p) => Known(d, g, p)
      BY <1>1 DEF Known
    <3>3. FirstOf(m) \in Nat \ {0}
      BY FirstPacket
    <3> DEFINE f == FirstOf(m)
    <3> HIDE DEF f
    <3>4. Covered(d, n, top, g, f)
      <4>1. n <= n /\ top <= top
        OBVIOUS
      <4>2. f \in Nat \ {0} /\ Covered(b, n, top, g, f)
        BY <3>1, <3>3 DEF f
      <4> QED
        BY <1>1, <3>2, <4>1, <4>2, StillCovered
    <3> QED
      BY <2>3, <3>4 DEF f
  <2>4. ResultOK(Combined(d), good, 0, n, top, g, l, m)
    BY <1>1, <2>2, <2>3, CombinedOf
  <2> QED
    BY <2>1, <2>4
<1> QED
  BY <1>2, <1>3

-----------------------------------------------------------------------------
(***************************************************************************)
(* A packet is put in its place.                                           *)
(***************************************************************************)

\* distance() of the slots of two packets, whichever is first.
Apart(p, q) == IF p <= q THEN q - p ELSE p - q
Around(d) == 1 + (IF d < QueueSize - d THEN d ELSE QueueSize - d)

\* It is the shorter way around the ring.
LEMMA DistanceApart ==
  ASSUME NEW p \in Nat, NEW q \in Nat, Near(p, q)
  PROVE  distance(slot_index(p), slot_index(q)) = Around(Apart(p, q))
<1>1. p - q < QueueSize /\ q - p < QueueSize
  BY DEF Near
<1>2. CASE p <= q
  BY <1>1, <1>2, DistanceOf DEF Around, Apart
<1>3. CASE ~ (p <= q)
  <2>1. q <= p
    BY <1>3
  <2>2. distance(slot_index(p), slot_index(q)) = Around(p - q)
    BY <1>1, <2>1, DistanceOf DEF Around
  <2> QED
    BY <1>3, <2>2 DEF Apart
<1> QED
  BY <1>2, <1>3

\* What handle_lost() compares.
Extends(h, t, p) ==
    Around(Apart(h, p)) + 1 = Around(Apart(t, p)) + Around(Apart(h, t))
       /\ Around(Apart(t, p)) < WindowSize
Precedes(h, t, p) == Around(Apart(h, p)) + Around(Apart(h, t)) = Around(Apart(t, p)) + 1

\* A packet that is not far behind the tail extends the buffer, and one between
\* head and tail is not taken for one before the head.
LEMMA Comparisons ==
  ASSUME NEW h \in Nat, NEW t \in Nat, NEW p \in Nat,
         h <= t, t - h < WindowSize, p # h, p # t, ~ Extends(h, t, p)
  PROVE  /\ p < h \/ p < t \/ p >= t + WindowSize - 1
         /\ Precedes(h, t, p) => p < h \/ p >= t + WindowSize - 1
<1> DEFINE Q == QueueSize
           W == WindowSize
<1>1. /\ Q \in Nat \ {0} /\ W \in Nat \ {0} /\ 4 * W <= Q
      /\ t - h < W
  BY Constants
<1>2. Apart(h, t) = t - h /\ Around(t - h) = 1 + (t - h)
  BY <1>1 DEF Apart, Around
<1>3. ASSUME p > t, p < t + W - 1
      PROVE  FALSE
  <2>1. Apart(h, p) = p - h /\ Apart(t, p) = p - t
    BY <1>1, <1>3 DEF Apart
  <2>2. Around(p - h) = 1 + (p - h) /\ Around(p - t) = 1 + (p - t)
    BY <1>1, <1>3 DEF Around
  <2> QED
    BY <1>1, <1>2, <1>3, <2>1, <2>2 DEF Extends
<1>4. ASSUME p > h, p < t, Precedes(h, t, p)
      PROVE  FALSE
  <2>1. Apart(h, p) = p - h /\ Apart(t, p) = t - p
    BY <1>1, <1>4 DEF Apart
  <2>2. Around(p - h) = 1 + (p - h) /\ Around(t - p) = 1 + (t - p)
    BY <1>1, <1>4 DEF Around
  <2> QED
    BY <1>1, <1>2, <1>4, <2>1, <2>2 DEF Precedes
<1> QED
  BY <1>1, <1>3, <1>4

\* The tail is not before the head, and no further behind it than the window.
LEMMA TailInWindow ==
  ASSUME NEW h \in Nat, NEW p \in Nat, h - p < Half, p - h < Half,
         Ahead(slot_index(h), slot_index(p)) < Half,
         ~ (distance(slot_index(h), slot_index(p)) > WindowSize)
  PROVE  h <= p /\ p - h < WindowSize
<1> DEFINE a == Ahead(slot_index(h), slot_index(p))
           d == distance(slot_index(h), slot_index(p))
<1>1. /\ Half \in Nat /\ 2 * Half <= QueueSize /\ QueueSize \in Nat \ {0}
      /\ WindowSize \in Nat
  BY HalfOf, Constants
<1>2. Near(h, p)
  BY <1>1 DEF Near
<1>3. (p >= h => a = p - h) /\ (p < h => a = QueueSize - (h - p))
  BY <1>2, AheadOf
<1>4. d = Around(Apart(h, p))
  BY <1>2, DistanceApart
<1>5. a < Half /\ ~ (d > WindowSize)
  OBVIOUS
<1> HIDE DEF a, d
<1>6. h <= p
  BY <1>1, <1>3, <1>5
<1>7. d = 1 + (p - h)
  BY <1>1, <1>4, <1>6 DEF Apart, Around
<1> QED
  BY <1>1, <1>5, <1>6, <1>7

\* The packet is stored, and the current one.
Arrived(b, p) == [Stored(b, p) EXCEPT !.current = slot_index(p)]

\* Nothing else changes then.
LEMMA ArrivedSound ==
  ASSUME NEW n, NEW b, Sound(b, 1, n), NEW p \in Packets, p <= n
  PROVE  LET d == Arrived(b, p)
         IN  /\ Sound(d, 1, n) /\ d.head = b.head /\ d.tail = b.tail
             /\ d.current = slot_index(p) /\ d.qos = b.qos
             /\ slot_index(p) \in Slots /\ d.vpkg[slot_index(p)] = p
             /\ \A s \in Slots : d.vpkg[s] = IF s = slot_index(p) THEN p ELSE b.vpkg[s]
<1> DEFINE e == Stored(b, p)
           d == Ended(e, b.head, b.tail, slot_index(p))
<1>1. /\ Sound(e, 1, n) /\ SameEnds(b, e) /\ e.qos = b.qos
      /\ \A s \in Slots : e.vpkg[s] = IF s = slot_index(p) THEN p ELSE b.vpkg[s]
  BY StoredSound
<1>2. slot_index(p) \in Slots /\ slot_index(p) # none
  BY PacketNumbers, SlotOf, Constants
<1>3. Arrived(b, p) = [e EXCEPT !.current = slot_index(p)]
  BY DEF Arrived
<1> HIDE DEF e
<1>4. Arrived(b, p) = d
  BY <1>1, <1>3 DEF Ended, Sound, Buffers, SameEnds
<1>5. /\ {b.head, b.tail, slot_index(p)} \subseteq Slots \cup {none}
      /\ b.head = none <=> b.tail = none
      /\ b.head # none => slot_index(p) # none
  BY <1>2 DEF Sound, Buffers, HasEnds
<1>6. /\ Sound(d, 1, n) /\ d.vpkg = e.vpkg /\ d.qos = e.qos
      /\ d.head = b.head /\ d.tail = b.tail /\ d.current = slot_index(p)
  BY <1>1, <1>5, SoundEnds
<1> HIDE DEF d
<1> QED
  BY <1>1, <1>2, <1>4, <1>6

\* handle_normal_pkg(): it becomes the tail, and the head if there was none.
LEMMA NormalSound ==
  ASSUME NEW n, NEW b, Sound(b, 1, n), b.current \in Slots
  PROVE  LET d == NormalHandled(b)
         IN  /\ Sound(d, 1, n) /\ d.vpkg = b.vpkg /\ d.qos = b.qos
             /\ d.tail = b.current /\ d.current = b.current
             /\ d.head = IF b.head = none THEN b.current ELSE b.head
<1> DEFINE h == IF b.head = none THEN b.current ELSE b.head
           d == Ended(b, h, b.current, b.current)
<1>1. NormalHandled(b) = d
  BY DEF NormalHandled, Ended, Sound, Buffers
<1>2. h \in Slots /\ h # none /\ b.current # none
  BY Constants DEF Sound, Buffers
<1>3. /\ {h, b.current, b.current} \subseteq Slots \cup {none}
      /\ h = none <=> b.current = none
      /\ h # none => b.current # none
  BY <1>2
<1> HIDE DEF h
<1>4. /\ Sound(d, 1, n) /\ d.vpkg = b.vpkg /\ d.qos = b.qos
      /\ d.head = h /\ d.tail = b.current /\ d.current = b.current
  BY <1>3, SoundEnds
<1> HIDE DEF d
<1> QED
  BY <1>1, <1>4 DEF h

\* The tail is where the packet is, and what is missing before it is asked for.
Extended(b) ==
    Requested(Ended(b, b.head, b.current, b.current), From(b.head, b.current))

\* And nothing else changes.
LEMMA ExtendedSound ==
  ASSUME NEW n, NEW b, Sound(b, 1, n), b.head \in Slots, b.current \in Slots
  PROVE  LET d == Extended(b)
         IN  /\ Sound(d, 1, n) /\ d.vpkg = b.vpkg
             /\ d.head = b.head /\ d.tail = b.current /\ d.current = b.current
             /\ DOMAIN d.qos = DOMAIN b.qos \cup Missing(b, From(b.head, b.current))
<1> DEFINE e == Ended(b, b.head, b.current, b.current)
           F == From(b.head, b.current)
           d == Requested(e, F)
<1>1. b.head # none /\ b.current # none /\ F \subseteq Slots
  BY FromSlots, Constants
<1>2. /\ {b.head, b.current, b.current} \subseteq Slots \cup {none}
      /\ b.head = none <=> b.current = none
      /\ b.head # none => b.current # none
  BY <1>1
<1> HIDE DEF F
<1>3. /\ Sound(e, 1, n) /\ e.vpkg = b.vpkg /\ e.qos = b.qos
      /\ e.head = b.head /\ e.tail = b.current /\ e.current = b.current
  BY <1>2, SoundEnds
<1> HIDE DEF e
<1>4. /\ Sound(d, 1, n) /\ SameEnds(e, d) /\ d.vpkg = e.vpkg
      /\ DOMAIN d.qos = DOMAIN e.qos \cup Missing(e, F)
  BY <1>1, <1>3, RequestedSound
<1>5. Missing(e, F) = Missing(b, F)
  BY <1>3 DEF Missing
<1>6. Extended(b) = d
  BY DEF Extended, e, F
<1> HIDE DEF d
<1> QED
  BY <1>3, <1>4, <1>5, <1>6 DEF SameEnds, F

\* handle_lost() chooses what to do.
LEMMA LostCases ==
  ASSUME NEW b, NEW low, NEW n, Sound(b, low, n)
  PROVE  LET d_h == distance(b.head, b.current)
             d_t == distance(b.tail, b.current)
             d_ht == distance(b.head, b.tail)
             extends == d_h + 1 = d_t + d_ht /\ d_t < WindowSize
             precedes == d_h + d_ht = d_t + 1
         IN  \/ LostHandled(b) = b
                /\ (b.current \in {b.head, b.tail} \/ (~ extends /\ ~ precedes))
             \/ LostHandled(b) = Extended(b) /\ b.current \notin {b.head, b.tail} /\ extends
             \/ LostHandled(b) = ResetPackets(b, {b.current})
                /\ b.current \notin {b.head, b.tail} /\ ~ extends /\ precedes
<1> DEFINE e == [b EXCEPT !.tail = b.current]
<1>1. e = Ended(b, b.head, b.current, b.current)
  BY DEF Ended, Sound, Buffers
<1>2. Extended(b) = Requested(e, From(b.head, b.current))
  BY <1>1 DEF Extended
<1> QED
  BY <1>2 DEF LostHandled

\* The buffer keeps its type.
LEMMA LostSound ==
  ASSUME NEW n, NEW b, Sound(b, 1, n), b.head \in Slots, b.current \in Slots
  PROVE  LET d == LostHandled(b)
         IN  Sound(d, 1, n) /\ d.head = b.head /\ d.current = b.current
<1> DEFINE d == LostHandled(b)
           r == ResetPackets(b, {b.current})
<1>1. d = b \/ d = Extended(b) \/ d = r
  BY LostCases
<1>2. Sound(Extended(b), 1, n) /\ Extended(b).head = b.head
        /\ Extended(b).current = b.current
  BY ExtendedSound
<1>3. Sound(r, 1, n) /\ r.head = b.head /\ r.current = b.current
  BY ResetPacketsSound DEF SameEnds
<1> HIDE DEF d, r
<1>4. Sound(d, 1, n) /\ d.head = b.head /\ d.current = b.current
  BY <1>1, <1>2, <1>3
<1> QED
  BY <1>4 DEF d

\* What is known stays known when a packet arrives, which is known then.
LEMMA ArrivedKnown ==
  ASSUME NEW n, NEW b, Sound(b, 1, n), NEW p \in Packets, p <= n, NEW g,
         NEW q \in Nat, Known(b, g, q) \/ q = p
  PROVE  Known(Arrived(b, p), g, q)
<1> DEFINE d == Arrived(b, p)
<1>1. /\ d.qos = b.qos /\ d.vpkg[slot_index(p)] = p
      /\ \A s \in Slots : d.vpkg[s] = IF s = slot_index(p) THEN p ELSE b.vpkg[s]
  BY ArrivedSound
<1>2. p # Invalid /\ slot_index(q) \in Slots
  BY PacketNumbers, Constants, SlotOf
<1> HIDE DEF d
<1>3. Known(d, g, q)
  BY <1>1, <1>2 DEF Known
<1> QED
  BY <1>3 DEF d

\* A packet was put in its place, of n that were sent; the head is at packet
\* "head", and the tail in its window.
InWindow(b, n, g, head) ==
    \E top \in 1 .. n : top - head < WindowSize /\ Covered(b, n, top, g, head)

\* So it is, if that packet is neither too late nor too early, and nothing in use
\* is of another round.
LEMMA PlacedCovers ==
  ASSUME NEW n \in Nat, NEW b, NEW g, NEW head \in Nat \ {0}, NEW tail \in 1 .. n,
         NEW p \in 1 .. n, p >= n - MaxLate, p - head < Half,
         b.head = slot_index(head), b.tail = slot_index(tail), b.current = slot_index(p),
         head <= tail, tail - head < WindowSize, ~ HasStale(b, head),
         \A q \in head .. tail - 1 : Known(b, g, q),
         p < head \/ p >= tail + WindowSize - 1 \/ \A q \in head .. p : Known(b, g, q)
  PROVE  InWindow(b, n, g, head)
<1>1. MaxLate \in Nat
  BY HalfOf
<1>2. tail - p <= MaxLate /\ tail \in Nat /\ tail \in 1 .. tail
  BY <1>1
<1>3. \A q \in head .. tail : b.vpkg[slot_index(q)] \in {Invalid, q}
  BY <1>2, NoneIsStale
<1>4. Covers(b, g, head, tail, p)
  BY <1>2, <1>3 DEF Covers
<1>5. Covered(b, n, tail, g, head)
  BY <1>2, <1>4 DEF Covered
<1> QED
  BY <1>5 DEF InWindow

\* A packet arrived out of order in a buffer that was covered; unless the tail
\* is before the head now, or too far behind it, or something of another round
\* is between them, the buffer still is.
LEMMA LostCovered ==
  ASSUME NEW n \in Nat, NEW k \in Nat, k <= n, NEW b, Sound(b, 1, n),
         NEW p \in Packets, p <= n, p >= n - MaxLate, NEW g, NEW head \in Nat \ {0},
         NEW tail \in 1 .. k, NEW cur \in 1 .. k,
         Covers(b, g, head, tail, cur), p - head < Half,
         ~ IsAstray(LostHandled(Arrived(b, p))), ~ HasOverflowed(LostHandled(Arrived(b, p))),
         ~ HasStale(LostHandled(Arrived(b, p)), head)
  PROVE  InWindow(LostHandled(Arrived(b, p)), n, g, head)
<1> DEFINE e == Arrived(b, p)
           r == LostHandled(e)
<1>1. p \in Nat \ {0} /\ p \in 1 .. n
  BY PacketNumbers
<1>2. /\ Sound(e, 1, n) /\ e.head = slot_index(head) /\ e.tail = slot_index(tail)
      /\ e.current = slot_index(p) /\ slot_index(p) \in Slots
      /\ head <= tail /\ tail - head < WindowSize
  BY <1>1, ArrivedSound DEF Covers
<1>3. tail \in 1 .. n /\ tail \in Nat /\ head \in Nat
  OBVIOUS
<1>4. \A q \in head .. tail - 1 : Known(e, g, q)
  <2>1. ASSUME NEW q \in head .. tail - 1
        PROVE  Known(e, g, q)
    <3>1. q \in Nat
      BY <1>3
    <3>2. Known(b, g, q)
      BY DEF Covers
    <3> QED
      BY <3>1, <3>2, ArrivedKnown
  <2> QED
    BY <2>1
<1>5. Known(e, g, p)
  BY <1>1, ArrivedKnown
<1>6. ~ IsAstray(r) /\ ~ HasOverflowed(r) /\ ~ HasStale(r, head)
  OBVIOUS
<1>7. /\ Half \in Nat /\ MaxLate \in Nat /\ MaxLate + 2 <= Half /\ 2 * WindowSize <= Half
      /\ 2 * Half <= QueueSize /\ WindowSize \in Nat \ {0} /\ QueueSize \in Nat
  BY HalfOf, Constants
<1>8. head - p < Half
  BY <1>1, <1>2, <1>3, <1>7
<1>9. Near(head, p) /\ Near(tail, p) /\ Near(head, tail)
  BY <1>1, <1>2, <1>3, <1>7, <1>8 DEF Near
<1> HIDE DEF e
<1> DEFINE h == Around(Apart(head, p))
           t == Around(Apart(tail, p))
           x == Around(Apart(head, tail))
<1>10. /\ distance(e.head, e.current) = h /\ distance(e.tail, e.current) = t
       /\ distance(e.head, e.tail) = x
  BY <1>1, <1>2, <1>3, <1>9, DistanceApart
<1>11. (Extends(head, tail, p) <=> h + 1 = t + x /\ t < WindowSize)
        /\ (Precedes(head, tail, p) <=> h + x = t + 1)
  BY DEF Extends, Precedes
<1> HIDE DEF h, t, x
<1>12. e.current \in {e.head, e.tail} <=> p \in {head, tail}
  BY <1>1, <1>2, <1>3, <1>9, SlotsDiffer
<1>13. \/ r = e /\ (p \in {head, tail} \/ (~ Extends(head, tail, p) /\ ~ Precedes(head, tail, p)))
       \/ r = Extended(e) /\ p \notin {head, tail} /\ Extends(head, tail, p)
       \/ r = ResetPackets(e, {slot_index(p)})
          /\ p \notin {head, tail} /\ ~ Extends(head, tail, p) /\ Precedes(head, tail, p)
  BY <1>2, <1>10, <1>11, <1>12, LostCases
<1>14. SUFFICES InWindow(r, n, g, head)
  BY DEF r, e
<1> HIDE DEF r
<1>15. ASSUME r = e, p < head \/ p <= tail \/ p >= tail + WindowSize - 1
       PROVE  InWindow(r, n, g, head)
  <2>1. p < head \/ p >= tail + WindowSize - 1 \/ \A q \in head .. p : Known(r, g, q)
    BY <1>1, <1>3, <1>4, <1>5, <1>15
  <2>2. \A q \in head .. tail - 1 : Known(r, g, q)
    BY <1>4, <1>15
  <2>3. r.head = slot_index(head) /\ r.tail = slot_index(tail) /\ r.current = slot_index(p)
    BY <1>2, <1>15
  <2> QED
    BY <1>1, <1>2, <1>3, <1>6, <2>1, <2>2, <2>3, PlacedCovers
<1>16. CASE r = e /\ (p \in {head, tail} \/ (~ Extends(head, tail, p) /\ ~ Precedes(head, tail, p)))
  <2>1. CASE p \in {head, tail}
    <3>1. p <= tail
      BY <1>2, <1>3, <2>1
    <3> QED
      BY <1>15, <1>16, <3>1
  <2>2. CASE p \notin {head, tail} /\ ~ Extends(head, tail, p)
    <3>1. p < head \/ p < tail \/ p >= tail + WindowSize - 1
      BY <1>1, <1>2, <1>3, <2>2, Comparisons
    <3>2. p < head \/ p <= tail \/ p >= tail + WindowSize - 1
      BY <1>1, <1>3, <3>1
    <3> QED
      BY <1>15, <1>16, <3>2
  <2> QED
    BY <1>16, <2>1, <2>2
<1>17. CASE r = Extended(e) /\ p \notin {head, tail} /\ Extends(head, tail, p)
  <2>1. e.head \in Slots /\ e.current \in Slots
    BY <1>2, <1>3, SlotOf
  <2>2. /\ r.vpkg = e.vpkg /\ r.head = slot_index(head) /\ r.tail = slot_index(p)
        /\ r.current = slot_index(p)
        /\ DOMAIN r.qos = DOMAIN e.qos \cup Missing(e, From(slot_index(head), slot_index(p)))
    BY <1>2, <1>17, <2>1, ExtendedSound
  <2>3. Ahead(slot_index(head), slot_index(p)) < Half
          /\ ~ (distance(slot_index(head), slot_index(p)) > WindowSize)
    <3> DEFINE a == Ahead(slot_index(head), slot_index(p))
    <3>1. a \in Nat
      BY <2>1, <1>2, FromSlots, Constants
    <3>2. ~ (a >= Half) /\ ~ (distance(slot_index(head), slot_index(p)) > WindowSize)
      BY <1>6, <2>2 DEF IsAstray, HasOverflowed, Half
    <3> HIDE DEF a
    <3>3. a < Half
      BY <1>7, <3>1, <3>2
    <3> QED
      BY <3>2, <3>3 DEF a
  <2>4. head <= p /\ p - head < WindowSize
    BY <1>1, <1>3, <1>8, <2>3, TailInWindow
  <2>5. ASSUME NEW q \in head .. p - 1
        PROVE  Known(r, g, q)
    <3>1. p - head < QueueSize
      BY <1>1, <1>3, <1>7, <2>4
    <3>2. slot_index(q) \in From(slot_index(head), slot_index(p))
      BY <1>1, <1>3, <2>4, <3>1, FromOf
    <3>3. r.vpkg[slot_index(q)] # Invalid \/ slot_index(q) \in DOMAIN r.qos
      BY <2>2, <3>2 DEF Missing
    <3> QED
      BY <3>3 DEF Known
  <2>6. Known(r, g, p)
    BY <1>5, <2>2 DEF Known
  <2>7. \A q \in head .. p : Known(r, g, q)
    BY <1>1, <1>3, <2>5, <2>6
  <2> QED
    BY <1>1, <1>6, <2>2, <2>4, <2>5, <2>7, PlacedCovers
<1>18. CASE r = ResetPackets(e, {slot_index(p)}) /\ p \notin {head, tail}
              /\ ~ Extends(head, tail, p) /\ Precedes(head, tail, p)
  <2>1. p < head \/ p >= tail + WindowSize - 1
    BY <1>1, <1>2, <1>3, <1>18, Comparisons
  <2>2. /\ SameEnds(e, r) /\ r.qos = e.qos
        /\ \A s \in Slots : r.vpkg[s] = IF s \in {slot_index(p)} THEN Invalid ELSE e.vpkg[s]
    BY <1>2, <1>18, ResetPacketsSound
  <2>3. ASSUME NEW q \in head .. tail - 1
        PROVE  Known(r, g, q)
    <3>1. q \in Nat /\ q # p /\ Near(q, p)
      BY <1>1, <1>2, <1>3, <1>7, <1>8, <2>1 DEF Near
    <3>2. slot_index(q) \in Slots
      BY <3>1, SlotOf
    <3>3. slot_index(q) # slot_index(p)
      BY <1>1, <3>1, SlotsDiffer
    <3>4. Known(e, g, q)
      BY <1>4
    <3> QED
      BY <2>2, <3>2, <3>3, <3>4 DEF Known
  <2>4. r.head = slot_index(head) /\ r.tail = slot_index(tail) /\ r.current = slot_index(p)
    BY <1>2, <2>2 DEF SameEnds
  <2> QED
    BY <1>1, <1>2, <1>3, <1>6, <2>1, <2>3, <2>4, PlacedCovers
<1> QED
  BY <1>13, <1>16, <1>17, <1>18

\* A packet arrived in order.
LEMMA NormalCovered ==
  ASSUME NEW n \in Nat, NEW k \in Nat, k <= n, NEW b, Sound(b, 1, n),
         NEW p \in Packets, p <= n, p >= n - MaxLate, NEW g, NEW head \in Nat \ {0},
         NEW tail \in 1 .. k, NEW cur \in 1 .. k,
         Covers(b, g, head, tail, cur), p - head < Half, b.current = pre_index(slot_index(p)),
         ~ IsAstray(NormalHandled(Arrived(b, p))), ~ HasOverflowed(NormalHandled(Arrived(b, p))),
         ~ HasStale(NormalHandled(Arrived(b, p)), head)
  PROVE  InWindow(NormalHandled(Arrived(b, p)), n, g, head)
<1> DEFINE e == Arrived(b, p)
           r == NormalHandled(e)
<1>1. p \in Nat \ {0} /\ p \in 1 .. n
  BY PacketNumbers
<1>2. /\ Sound(e, 1, n) /\ e.head = slot_index(head) /\ e.current = slot_index(p)
      /\ slot_index(p) \in Slots
      /\ head <= tail /\ tail - head < WindowSize /\ tail - cur <= MaxLate /\ cur - head < Half
  BY <1>1, ArrivedSound DEF Covers
<1>3. tail \in Nat /\ head \in Nat /\ cur \in Nat /\ tail <= n
  OBVIOUS
<1>4. \A q \in Nat : Known(b, g, q) \/ q = p => Known(e, g, q)
  BY <1>1, ArrivedKnown
<1>5. ~ IsAstray(r) /\ ~ HasOverflowed(r) /\ ~ HasStale(r, head)
  OBVIOUS
<1>6. SUFFICES InWindow(r, n, g, head)
  BY DEF r, e
<1> HIDE DEF e
<1>7. slot_index(head) \in Slots /\ slot_index(head) # none
  BY <1>3, SlotOf, Constants
<1>8. /\ r.vpkg = e.vpkg /\ r.qos = e.qos /\ r.head = slot_index(head)
      /\ r.tail = slot_index(p) /\ r.current = slot_index(p)
  BY <1>2, <1>7, NormalSound
<1> HIDE DEF r
<1>9. /\ Half \in Nat /\ MaxLate \in Nat /\ MaxLate + 2 <= Half /\ 2 * WindowSize <= Half
      /\ 2 * Half <= QueueSize /\ WindowSize \in Nat \ {0} /\ QueueSize \in Nat
  BY HalfOf, Constants
<1>10. head - p < Half
  BY <1>1, <1>2, <1>3, <1>9
<1>11. Ahead(slot_index(head), slot_index(p)) < Half
        /\ ~ (distance(slot_index(head), slot_index(p)) > WindowSize)
  <2> DEFINE a == Ahead(slot_index(head), slot_index(p))
  <2>1. a \in Nat
    BY <1>2, <1>7, FromSlots, Constants
  <2>2. ~ (a >= Half) /\ ~ (distance(slot_index(head), slot_index(p)) > WindowSize)
    BY <1>5, <1>8 DEF IsAstray, HasOverflowed, Half
  <2> HIDE DEF a
  <2>3. a < Half
    BY <1>9, <2>1, <2>2
  <2> QED
    BY <2>2, <2>3 DEF a
<1>12. head <= p /\ p - head < WindowSize
  BY <1>1, <1>3, <1>10, <1>11, TailInWindow
<1>13. cur = p - 1
  <2>1. slot_index(cur) = slot_index(p - 1)
    BY <1>1, PreOf DEF Covers
  <2>2. p - 1 \in Nat /\ Near(cur, p - 1)
    BY <1>1, <1>2, <1>3, <1>9, <1>12 DEF Near
  <2> QED
    BY <1>3, <2>1, <2>2, SlotsDiffer
<1>14. ASSUME NEW q \in head .. p
       PROVE  Known(e, g, q)
  <2>1. q \in Nat
    BY <1>1, <1>3
  <2>2. CASE q = p
    BY <1>4, <2>1, <2>2
  <2>3. CASE q # p
    <3>1. q \in head .. cur /\ ~ (cur < head)
      BY <1>1, <1>3, <1>13, <2>3
    <3>2. ~ (cur >= tail + WindowSize - 1)
      BY <1>1, <1>2, <1>3, <1>9, <1>12, <1>13
    <3>3. Known(b, g, q)
      BY <3>1, <3>2 DEF Covers
    <3> QED
      BY <1>4, <2>1, <3>3
  <2> QED
    BY <2>2, <2>3
<1>15. \A q \in head .. p : Known(r, g, q)
  BY <1>8, <1>14 DEF Known
<1>16. \A q \in head .. p - 1 : Known(r, g, q)
  BY <1>1, <1>3, <1>15
<1> QED
  BY <1>1, <1>5, <1>8, <1>12, <1>15, <1>16, PlacedCovers

\* The first packet in the buffer.
LEMMA FirstCovered ==
  ASSUME NEW n \in Nat, NEW b, NEW g, NEW p \in 1 .. n, p >= n - MaxLate,
         b.head = slot_index(p), b.tail = slot_index(p), b.current = slot_index(p),
         b.vpkg[slot_index(p)] = p
  PROVE  InWindow(b, n, g, p)
<1>1. p # Invalid /\ p \in Nat \ {0} /\ WindowSize \in Nat \ {0}
  BY Constants
<1>2. Half \in Nat \ {0} /\ MaxLate \in Nat
  BY HalfOf
<1>3. Known(b, g, p)
  BY <1>1 DEF Known
<1>4. /\ \A q \in p .. p : q = p
      /\ \A q \in p .. p - 1 : FALSE
      /\ p <= p /\ p - p < WindowSize /\ p - p <= MaxLate /\ p - p < Half /\ p \in 1 .. p
  BY <1>1, <1>2
<1>5. Covers(b, g, p, p, p)
  BY <1>3, <1>4 DEF Covers
<1>6. Covered(b, n, p, g, p)
  BY <1>4, <1>5 DEF Covered
<1> QED
  BY <1>4, <1>6 DEF InWindow

\* A packet is put in its place.
LEMMA PlacedOf ==
  ASSUME NEW n \in Nat, NEW k \in Nat, k <= n, NEW b, Sound(b, 1, n),
         NEW p \in Packets, p <= n, p >= n - MaxLate, NEW g
  PROVE  LET d == Placed(b, p)
         IN  /\ Sound(d, 1, n)
             /\ b.head # none => d.head = b.head
             /\ b.head = none /\ d.head # none =>
                   IsFirst(p) /\ d.head = slot_index(p) /\ InWindow(d, n, g, p)
             /\ \A head \in Nat \ {0} :
                   /\ b.head # none /\ Covered(b, k, k, g, head) /\ p - head < Half
                   /\ ~ IsAstray(d) /\ ~ HasOverflowed(d) /\ ~ HasStale(d, head)
                   => InWindow(d, n, g, head)
<1> DEFINE s == slot_index(p)
           e == Arrived(b, p)
           d == Placed(b, p)
<1>1. p \in Nat \ {0} /\ p \in 1 .. n
  BY PacketNumbers
<1>2. /\ Sound(e, 1, n) /\ e.head = b.head /\ e.current = s /\ s \in Slots
      /\ e.vpkg[s] = p
  BY ArrivedSound
<1>3. s # none
  BY <1>2, Constants
<1>4. d = IF b.head # none /\ b.current # pre_index(s) THEN LostHandled(e)
          ELSE IF b.head # none \/ IsFirst(p) THEN NormalHandled(e)
          ELSE e
  BY DEF Placed, Arrived
<1>5. ASSUME NEW head \in Nat \ {0}, b.head # none, Covered(b, k, k, g, head),
             p - head < Half, ~ IsAstray(d), ~ HasOverflowed(d), ~ HasStale(d, head)
      PROVE  InWindow(d, n, g, head)
  <2>1. PICK tail \in 1 .. k, cur \in 1 .. k : Covers(b, g, head, tail, cur)
    BY <1>5 DEF Covered
  <2>2. CASE b.current # pre_index(s)
    <3>1. d = LostHandled(e)
      BY <1>4, <1>5, <2>2
    <3> HIDE DEF d
    <3>2. /\ ~ IsAstray(LostHandled(Arrived(b, p))) /\ ~ HasOverflowed(LostHandled(Arrived(b, p)))
          /\ ~ HasStale(LostHandled(Arrived(b, p)), head)
      BY <1>5, <3>1
    <3>3. InWindow(LostHandled(Arrived(b, p)), n, g, head)
      BY <1>5, <2>1, <3>2, LostCovered
    <3> QED
      BY <3>1, <3>3
  <2>3. CASE b.current = pre_index(s)
    <3>1. d = NormalHandled(e)
      BY <1>4, <1>5, <2>3
    <3> HIDE DEF d
    <3>2. /\ ~ IsAstray(NormalHandled(Arrived(b, p)))
          /\ ~ HasOverflowed(NormalHandled(Arrived(b, p)))
          /\ ~ HasStale(NormalHandled(Arrived(b, p)), head)
      BY <1>5, <3>1
    <3>3. InWindow(NormalHandled(Arrived(b, p)), n, g, head)
      BY <1>5, <2>1, <2>3, <3>2, NormalCovered
    <3> QED
      BY <3>1, <3>3
  <2> QED
    BY <2>2, <2>3
<1> HIDE DEF e, d, s
<1>6. b.head \in Slots \cup {none}
  BY DEF Sound, Buffers
<1>7. ASSUME b.head # none
      PROVE  Sound(d, 1, n) /\ d.head = b.head
  <2>1. b.head \in Slots
    BY <1>6, <1>7
  <2>2. Sound(LostHandled(e), 1, n) /\ LostHandled(e).head = b.head
    BY <1>2, <2>1, LostSound
  <2>3. Sound(NormalHandled(e), 1, n) /\ NormalHandled(e).head = b.head
    BY <1>2, <1>7, NormalSound
  <2> QED
    BY <1>4, <1>7, <2>2, <2>3
<1>8. ASSUME b.head = none, ~ IsFirst(p)
      PROVE  Sound(d, 1, n) /\ d.head = none
  BY <1>2, <1>4, <1>8
<1>9. ASSUME b.head = none, IsFirst(p)
      PROVE  Sound(d, 1, n) /\ d.head = s /\ InWindow(d, n, g, p)
  <2>1. d = NormalHandled(e)
    BY <1>4, <1>9
  <2>2. /\ Sound(d, 1, n) /\ d.vpkg = e.vpkg /\ d.head = s /\ d.tail = s /\ d.current = s
    BY <1>2, <1>9, <2>1, NormalSound
  <2>3. d.vpkg[s] = p
    BY <1>2, <2>2
  <2> QED
    BY <1>1, <2>2, <2>3, FirstCovered DEF s
<1> QED
  BY <1>5, <1>7, <1>8, <1>9 DEF d, s

\* What the handling of a packet may yield, when the head was, or was set, at the
\* first packet of NALU m; "good" is whether nothing misled the receiver so far.
HandledOK(r, good, n, g, l, m) ==
    /\ Given(r) /\ Sound(r.buffer, 0, n)
    /\ good /\ ~ r.misled =>
          \/ r.buffer.head = none /\ r.nalus = <<>>
          \/ \E top \in 1 .. n : /\ top - FirstOf(m) < WindowSize
                                 /\ Whole(r, r.buffer, n, top, g, l, m)

\* So it is if the result was reached with the tail in the window.
LEMMA ResultIsOK ==
  ASSUME NEW r, NEW good \in BOOLEAN, NEW n, NEW top \in 1 .. n, NEW g, NEW l, NEW m,
         ResultOK(r, good, 0, n, top, g, l, m),
         good => r.buffer.head = none \/ top - FirstOf(m) < WindowSize
  PROVE  HandledOK(r, good, n, g, l, m)
<1>1. ASSUME good, ~ r.misled, ~ (r.buffer.head = none /\ r.nalus = <<>>)
      PROVE  \E t \in 1 .. n : t - FirstOf(m) < WindowSize /\ Whole(r, r.buffer, n, t, g, l, m)
  <2>1. Whole(r, r.buffer, n, top, g, l, m)
    BY <1>1 DEF ResultOK
  <2>2. PICK k \in HeadNumbers : Covered(r.buffer, n, top, g, FirstOf(k))
    BY <2>1 DEF Whole
  <2>3. r.buffer.head \in Slots
    <3>1. PICK tail \in 1 .. top, cur \in 1 .. n : Covers(r.buffer, g, FirstOf(k), tail, cur)
      BY <2>2 DEF Covered
    <3>2. FirstOf(k) \in Nat
      BY FirstPacket
    <3> QED
      BY <3>1, <3>2, SlotOf DEF Covers
  <2>4. r.buffer.head # none
    BY <2>3, Constants
  <2>5. top - FirstOf(m) < WindowSize
    BY <1>1, <2>4
  <2> QED
    BY <2>1, <2>5
<1>2. Given(r) /\ Sound(r.buffer, 0, n)
  BY DEF ResultOK
<1> QED
  BY <1>1, <1>2 DEF HandledOK

\* Nothing was given yet, and the NALU at the head is the first.
LEMMA ChainBegins ==
  ASSUME NEW l, NEW m, NEW g, Follows(l, m, g)
  PROVE  Chain(<<>>, l, m, g)
<1>1. ASSUME NEW i \in 1 .. Len(<<>>) + 1
      PROVE  Prev(<<>>, l, i) = l /\ Num(<<>>, m, i) = m
  <2>1. i = 1 /\ i = Len(<<>>) + 1
    OBVIOUS
  <2> QED
    BY <2>1 DEF Prev, Num
<1> QED
  BY <1>1 DEF Chain

\* pkg_handler(), for a packet that is not sent again.
LEMMA HandlePackageOf ==
  ASSUME NEW n \in Nat, NEW k \in Nat, k <= n, NEW b, NEW g, NEW good \in BOOLEAN,
         NEW l \in 0 .. Total, NEW m \in HeadNumbers, Sound(b, 1, n),
         NEW p \in Packets, p <= n, p >= n - MaxLate,
         b.head = none => l = 0 /\ (IsFirst(p) => p = FirstOf(m)),
         good /\ b.head # none =>
            /\ Covered(b, k, k, g, FirstOf(m)) /\ Chain(<<>>, l, m, g)
            /\ p - FirstOf(m) < Half
            /\ ~ IsAstray(Placed(b, p)) /\ ~ HasStale(Placed(b, p), FirstOf(m))
  PROVE  HandledOK(HandlePackage(b, p), good, n, g, l, m)
<1> DEFINE d == Placed(b, p)
           r == HandlePackage(b, p)
<1>1. /\ Sound(d, 1, n)
      /\ b.head # none => d.head = b.head
      /\ b.head = none /\ d.head # none =>
            IsFirst(p) /\ d.head = slot_index(p) /\ InWindow(d, n, g, p)
      /\ \A head \in Nat \ {0} :
            /\ b.head # none /\ Covered(b, k, k, g, head) /\ p - head < Half
            /\ ~ IsAstray(d) /\ ~ HasOverflowed(d) /\ ~ HasStale(d, head)
            => InWindow(d, n, g, head)
  BY PlacedOf
<1>2. r = IF d.head = none THEN Result(d, <<>>, FALSE) ELSE CombineCallback(d)
  BY DEF HandlePackage
<1>3. good /\ b.head # none =>
            /\ Covered(b, k, k, g, FirstOf(m)) /\ Chain(<<>>, l, m, g)
            /\ p - FirstOf(m) < Half
            /\ ~ IsAstray(d) /\ ~ HasStale(d, FirstOf(m))
  OBVIOUS
<1> HIDE DEF d
<1>4. CASE d.head = none
  <2>1. r = Result(d, <<>>, FALSE)
    BY <1>2, <1>4
  <2> HIDE DEF r
  <2>2. r.buffer = d /\ r.nalus = <<>> /\ r.misled = FALSE
    BY <2>1 DEF Result
  <2>3. Sound(d, 0, n)
    BY <1>1, SoundLower
  <2>4. Given(r)
    BY <2>2, NothingGiven
  <2>5. HandledOK(r, good, n, g, l, m)
    BY <1>4, <2>2, <2>3, <2>4 DEF HandledOK
  <2> QED
    BY <2>5 DEF r
<1>5. CASE d.head # none
  <2>1. r = CombineCallback(d)
    BY <1>2, <1>5
  <2>2. d.head \in Slots
    BY <1>1, <1>5 DEF Sound, Buffers
  <2>3. FirstOf(m) \in Nat \ {0} /\ m \in Nat \ {0}
    BY FirstPacket
  <2>4. ASSUME good
        PROVE  (HasOverflowed(d) \/ InWindow(d, n, g, FirstOf(m))) /\ Chain(<<>>, l, m, g)
    <3>1. CASE b.head = none
      <4>1. p = FirstOf(m) /\ l = 0 /\ InWindow(d, n, g, p)
        BY <1>1, <1>5, <3>1
      <4>2. Follows(0, m, g)
        BY <2>3 DEF Follows
      <4> QED
        BY <4>1, <4>2, ChainBegins
    <3>2. CASE b.head # none
      BY <1>1, <1>3, <2>3, <2>4, <3>2
    <3> QED
      BY <3>1, <3>2
  <2>5. PICK top \in 1 .. n :
             good => /\ HasOverflowed(d) \/ Covered(d, n, top, g, FirstOf(m))
                     /\ HasOverflowed(d) \/ top - FirstOf(m) < WindowSize
    <3>1. n \in 1 .. n
      BY PacketNumbers
    <3>2. CASE good /\ ~ HasOverflowed(d)
      BY <2>4, <3>2 DEF InWindow
    <3>3. CASE ~ (good /\ ~ HasOverflowed(d))
      BY <3>1, <3>3
    <3> QED
      BY <3>2, <3>3
  <2>6. ResultOK(CombineCallback(d), good, 0, n, top, g, l, m)
    <3>1. top \in Nat
      OBVIOUS
    <3> QED
      BY <1>1, <2>2, <2>4, <2>5, <3>1, CombineCallbackOf
  <2>7. HasOverflowed(d) => CombineCallback(d).buffer.head = none
    <3>1. ASSUME HasOverflowed(d)
          PROVE  CombineCallback(d).buffer.head = none
      <4> DEFINE e == ResetPackets(CountedDown(d), From(d.head, d.tail) \cup {d.tail})
                 c == CombineCallback(d)
      <4>1. c = Result(Reset(e), <<>>, FALSE)
        BY <3>1 DEF CombineCallback
      <4>2. Sound(e, 0, n)
        BY <1>1, CountedDownSound, ResetPacketsSound
      <4> HIDE DEF e, c
      <4>3. c.buffer = Reset(e)
        BY <4>1 DEF Result
      <4>4. c.buffer.head = none
        BY <4>2, <4>3, ResetSound
      <4> QED
        BY <4>4 DEF c
    <3> QED
      BY <3>1
  <2> HIDE DEF r
  <2>8. HandledOK(r, good, n, g, l, m)
    BY <2>1, <2>5, <2>6, <2>7, ResultIsOK
  <2> QED
    BY <2>8 DEF r
<1> QED
  BY <1>4, <1>5

\* pkg_handler(), for a packet that is sent again.
LEMMA HandleResentOf ==
  ASSUME NEW n \in Nat, NEW b, NEW g, NEW good \in BOOLEAN,
         NEW l \in 0 .. Total, NEW m \in HeadNumbers, Sound(b, 1, n),
         NEW p \in Packets, p <= n,
         good /\ b.head # none =>
            /\ Covered(b, n, n, g, FirstOf(m)) /\ Chain(<<>>, l, m, g)
            /\ ~ HasStale(Stored(b, p), FirstOf(m))
  PROVE  HandledOK(HandleResent(b, p), good, n, g, l, m)
<1> DEFINE e == Stored(b, p)
           d == Erase(e, {slot_index(p)})
           r == HandleResent(b, p)
           f == FirstOf(m)
<1>1. p \in Nat \ {0} /\ p # Invalid /\ f \in Nat \ {0}
  BY PacketNumbers, Constants, FirstPacket
<1>2. /\ Sound(e, 1, n) /\ SameEnds(b, e) /\ e.qos = b.qos
      /\ \A s \in Slots : e.vpkg[s] = IF s = slot_index(p) THEN p ELSE b.vpkg[s]
  BY StoredSound
<1>3. good /\ b.head # none =>
            /\ Covered(b, n, n, g, f) /\ Chain(<<>>, l, m, g) /\ ~ HasStale(e, f)
  OBVIOUS
<1> HIDE DEF e
<1>4. /\ Sound(d, 1, n) /\ SameEnds(e, d) /\ d.vpkg = e.vpkg
      /\ DOMAIN d.qos = DOMAIN e.qos \ {slot_index(p)}
  BY <1>2, EraseSound
<1>5. r.buffer = d /\ r.nalus = <<>> /\ r.misled = FALSE
  BY DEF HandleResent, Result, e
<1> HIDE DEF d, r
<1>6. Sound(d, 0, n)
  BY <1>4, SoundLower
<1>7. Given(r) /\ AreWhole(r.nalus)
  BY <1>5, NothingGiven
<1>8. ASSUME good, d.head # none
      PROVE  \E top \in 1 .. n : top - f < WindowSize /\ Whole(r, d, n, top, g, l, m)
  <2>1. b.head # none /\ d.head = b.head /\ d.tail = b.tail /\ d.current = b.current
    BY <1>2, <1>4, <1>8 DEF SameEnds
  <2>2. Covered(b, n, n, g, f) /\ Chain(<<>>, l, m, g) /\ ~ HasStale(e, f)
    BY <1>3, <1>8, <2>1
  <2> HIDE DEF f
  <2>3. PICK tail \in 1 .. n, cur \in 1 .. n : Covers(b, g, f, tail, cur)
    BY <2>2 DEF Covered
  <2>4. ASSUME NEW q \in Nat, Known(b, g, q)
        PROVE  Known(d, g, q)
    <3>1. slot_index(q) \in Slots
      BY SlotOf
    <3> QED
      BY <1>1, <1>2, <1>4, <2>4, <3>1 DEF Known
  <2>5. /\ d.head = slot_index(f) /\ d.tail = slot_index(tail) /\ d.current = slot_index(cur)
        /\ f <= tail /\ tail - f < WindowSize /\ tail - cur <= MaxLate /\ cur - f < Half
    BY <2>1, <2>3 DEF Covers
  <2>6. \A q \in f .. tail : d.vpkg[slot_index(q)] \in {Invalid, q}
    <3>1. e.head = slot_index(f) /\ e.tail = slot_index(tail)
      BY <1>4, <2>5 DEF SameEnds
    <3>2. tail \in Nat /\ f \in Nat
      BY <1>1
    <3>3. \A q \in f .. tail : e.vpkg[slot_index(q)] \in {Invalid, q}
      BY <2>2, <2>5, <3>1, <3>2, NoneIsStale
    <3> QED
      BY <1>4, <3>3
  <2>7. \A q \in f .. tail - 1 : Known(d, g, q)
    <3>1. ASSUME NEW q \in f .. tail - 1
          PROVE  Known(d, g, q)
      <4>1. q \in Nat /\ Known(b, g, q)
        BY <1>1, <2>3 DEF Covers
      <4> QED
        BY <2>4, <4>1
    <3> QED
      BY <3>1
  <2>8. cur < f \/ cur >= tail + WindowSize - 1 \/ \A q \in f .. cur : Known(d, g, q)
    <3>1. ASSUME \A q \in f .. cur : Known(b, g, q), NEW q \in f .. cur
          PROVE  Known(d, g, q)
      <4>1. q \in Nat
        BY <1>1
      <4> QED
        BY <2>4, <3>1, <4>1
    <3> QED
      BY <2>3, <3>1 DEF Covers
  <2>9. Covers(d, g, f, tail, cur)
    BY <2>5, <2>6, <2>7, <2>8 DEF Covers
  <2>10. Covered(d, n, tail, g, f) /\ tail - f < WindowSize /\ f <= f
    BY <1>1, <2>5, <2>9 DEF Covered
  <2>11. Whole(r, d, n, tail, g, l, m)
    BY <1>5, <1>7, <2>2, <2>10 DEF Whole, f
  <2> QED
    BY <2>10, <2>11
<1>9. d.head = none => d.head = none /\ r.nalus = <<>>
  BY <1>5
<1>10. HandledOK(r, good, n, g, l, m)
  BY <1>5, <1>6, <1>7, <1>8, <1>9 DEF HandledOK
<1> QED
  BY <1>10 DEF r

-----------------------------------------------------------------------------
(***************************************************************************)
(* The protocol.                                                           *)
(***************************************************************************)

\* Until the receiver was misled, what it gave is whole, and the head stands for
\* the first packet of a NALU that follows it.
Order ==
    ~ misled =>
       /\ AreWhole(nalus)
       /\ buffer.head = none => nalus = <<>>
       /\ buffer.head # none =>
             \E m \in HeadNumbers :
                /\ first = FirstOf(m) /\ Covered(buffer, sent, sent, givenUp, FirstOf(m))
                /\ Chain(nalus, last, m, givenUp)

ProtocolInv ==
    /\ sent \in 0 .. LastPacket[Total] /\ restarts \in 0 .. MaxRestarts
    /\ started \in 0 .. sent /\ telling \in BOOLEAN
    /\ delayed \subseteq 1 .. sent /\ delayed \subseteq InTime(sent)
    /\ givenUp \subseteq 1 .. sent /\ first \in Int
    /\ requests \subseteq Slots /\ misled \in BOOLEAN /\ last \in 0 .. Total
    /\ nalus \in Seq(Seq(Packets)) /\ AreSlots(nalus)
    /\ Sound(buffer, 1, sent)
    /\ Order

\* The NALU given last, what is still given up, and whether nothing misled the
\* receiver before the packet that is handled now, nor that packet.
LastGiven ==
    IF buffer.head = none THEN 0
    ELSE IF nalus = <<>> THEN last ELSE NaluOf[nalus[Len(nalus)][1]]
StillGivenUp == {p \in givenUp : NaluOf[p] > LastGiven}
Fine(mishap) == (buffer.head = none \/ ~ misled) /\ ~ mishap

\* NALU m is at the head, before packet p is handled.
IsHead(p, m) ==
    IF buffer.head = none THEN p = FirstOf(m)
    ELSE first = FirstOf(m) /\ buffer.head = slot_index(FirstOf(m))

\* What belongs to a NALU that was skipped.
LEMMA SkippedOf ==
  ASSUME NEW nalu \in NaluNumbers, NEW g, SkippedNalu(nalu, g)
  PROVE  \E p \in g : p \in ToSet(PackagesOf(nalu)) /\ NaluOf[p] = nalu
<1>1. PICK p : p \in ToSet(PackagesOf(nalu)) /\ p \in g
  BY DEF SkippedNalu
<1>2. PICK i \in 1 .. NaluSizes[nalu] : p = LastPacket[nalu - 1] + i
  BY <1>1 DEF ToSet, PackagesOf
<1>3. /\ NaluSizes[nalu] \in Nat \ {0} /\ FirstOf(nalu + 1) = FirstOf(nalu) + NaluSizes[nalu]
      /\ FirstOf(nalu) = LastPacket[nalu - 1] + 1 /\ LastPacket[nalu - 1] \in Nat
  BY PacketsOfNalu, LastPackets DEF FirstOf, NaluNumbers
<1>4. p \in FirstOf(nalu) .. FirstOf(nalu + 1) - 1
  BY <1>2, <1>3
<1>5. NaluOf[p] = nalu
  BY <1>4, PacketsOfNalu
<1> QED
  BY <1>1, <1>5

\* More may be given up.
LEMMA ChainLater ==
  ASSUME NEW ns, NEW l, NEW m, NEW g, NEW e, g \subseteq e, Chain(ns, l, m, g)
  PROVE  Chain(ns, l, m, e)
<1>1. \A nalu : SkippedNalu(nalu, g) => SkippedNalu(nalu, e)
  BY DEF SkippedNalu
<1>2. ASSUME NEW from, NEW to, Follows(from, to, g)
      PROVE  Follows(from, to, e)
  BY <1>1, <1>2 DEF Follows
<1> QED
  BY <1>2 DEF Chain

\* The head is behind what was given.
LEMMA ChainGrows ==
  ASSUME NEW ns \in Seq(Seq(Packets)), AreWhole(ns), NEW l \in 0 .. Total,
         NEW m \in Nat, NEW g, Chain(ns, l, m, g)
  PROVE  l < m
<1> DEFINE len == Len(ns)
           P == {i \in 0 .. len : l <= Prev(ns, l, i + 1)}
<1>1. len \in Nat /\ l \in Int
  BY LastPackets
<1>2. 0 \in P
  BY <1>1 DEF Prev
<1>3. ASSUME NEW i \in 1 .. len, i - 1 \in P
      PROVE  i \in P
  <2>1. (i - 1) + 1 = i /\ i \in 1 .. len + 1 /\ i + 1 \in 1 .. len + 1 /\ i # len + 1
          /\ i + 1 # 1 /\ (i + 1) - 1 = i /\ i \in 0 .. len
    BY <1>1
  <2>2. Prev(ns, l, i + 1) = Num(ns, m, i)
    BY <2>1 DEF Prev, Num
  <2>3. Prev(ns, l, i) < Num(ns, m, i)
    BY <2>1 DEF Chain, Follows
  <2>4. l <= Prev(ns, l, i)
    BY <1>3, <2>1
  <2>5. Prev(ns, l, i) \in Int /\ Prev(ns, l, i + 1) \in Int
    BY <2>1, PrevIsNumber
  <2> QED
    BY <1>1, <2>1, <2>2, <2>3, <2>4, <2>5
<1>4. P = 0 .. len
  <2> HIDE DEF P
  <2> QED
    BY <1>1, <1>2, <1>3, UpTo DEF P
<1>5. l <= Prev(ns, l, len + 1)
  BY <1>1, <1>4
<1>6. len + 1 \in 1 .. len + 1
  BY <1>1
<1>7. Prev(ns, l, len + 1) < m /\ Prev(ns, l, len + 1) \in Int
  BY <1>6, PrevIsNumber DEF Chain, Follows, Num
<1> QED
  BY <1>1, <1>5, <1>7

\* What is known when a packet is handled: NALU m is at the head.
ReadyFor(m) ==
    /\ Covered(buffer, sent, sent, StillGivenUp, FirstOf(m))
    /\ Chain(<<>>, LastGiven, m, StillGivenUp)
    /\ first = FirstOf(m) /\ buffer.head = slot_index(FirstOf(m))

\* The number of the NALU given last.
LEMMA LastGivenOf ==
  ASSUME ProtocolInv
  PROVE  /\ buffer.head = none => LastGiven = 0
         /\ buffer.head # none /\ AreWhole(nalus) =>
               LastGiven = Prev(nalus, last, Len(nalus) + 1)
         /\ LastGiven \in 0 .. Total
<1> DEFINE len == Len(nalus)
<1>1. nalus \in Seq(Seq(Packets)) /\ AreSlots(nalus) /\ last \in 0 .. Total
  BY DEF ProtocolInv
<1>2. len \in Nat /\ (nalus = <<>> <=> len + 1 = 1) /\ (len + 1) - 1 = len
        /\ (nalus # <<>> => len \in DOMAIN nalus)
  BY <1>1
<1>3. buffer.head # none => LastGiven = Prev(nalus, last, len + 1)
  BY <1>2 DEF LastGiven, Prev
<1>4. Prev(nalus, last, len + 1) \in 0 .. Total
  <2>1. CASE nalus = <<>>
    BY <1>1, <1>2, <2>1 DEF Prev
  <2>2. CASE nalus # <<>>
    <3>1. PICK nalu \in NaluNumbers : HasSlotsOf(nalus[len], nalu)
      BY <1>1, <1>2, <2>2 DEF AreSlots
    <3>2. nalus[len] \in Seq(Packets)
      BY <1>1, <1>2, <2>2
    <3>3. Len(nalus[len]) = NaluSizes[nalu] /\ NaluSizes[nalu] \in Nat \ {0}
      BY <3>1, PacketsOfNalu DEF HasSlotsOf
    <3>4. nalus[len][1] \in Packets
      BY <3>2, <3>3
    <3>5. NaluOf[nalus[len][1]] \in NaluNumbers
      BY <3>4, NaluOfPacket
    <3> QED
      BY <1>2, <2>2, <3>5, LastPackets DEF Prev, NaluNumbers
  <2> QED
    BY <2>1, <2>2
<1>5. buffer.head = none => LastGiven = 0
  BY DEF LastGiven
<1> QED
  BY <1>3, <1>4, <1>5, LastPackets

\* A packet can be handled.
LEMMA ReadyNow ==
  ASSUME ProtocolInv, buffer.head # none, ~ misled
  PROVE  \E m \in HeadNumbers : ReadyFor(m)
<1> DEFINE len == Len(nalus)
<1>1. /\ nalus \in Seq(Seq(Packets)) /\ AreWhole(nalus)
      /\ Sound(buffer, 1, sent) /\ sent \in 0 .. LastPacket[Total]
  BY DEF ProtocolInv, Order
<1>2. PICK m \in HeadNumbers :
           /\ first = FirstOf(m) /\ Covered(buffer, sent, sent, givenUp, FirstOf(m))
           /\ Chain(nalus, last, m, givenUp)
  BY DEF ProtocolInv, Order
<1>3. sent \in Nat
  BY <1>1, PacketNumbers
<1>4. LastGiven = Prev(nalus, last, len + 1) /\ LastGiven \in 0 .. Total
  BY <1>1, LastGivenOf
<1>5. Follows(LastGiven, m, givenUp)
  <2>1. Num(nalus, m, len + 1) = m
    BY DEF Num
  <2>2. len + 1 \in 1 .. len + 1
    BY <1>1
  <2> QED
    BY <1>2, <1>4, <2>1, <2>2 DEF Chain
<1>6. LastGiven < m /\ LastGiven \in Int /\ m \in Nat /\ m <= Total + 1
  BY <1>4, <1>5, FirstPacket, LastPackets DEF Follows, HeadNumbers
<1>7. ASSUME LastGiven # 0, NEW nalu \in LastGiven + 1 .. m - 1
      PROVE  SkippedNalu(nalu, StillGivenUp)
  <2>1. nalu \in NaluNumbers /\ nalu > LastGiven
    BY <1>4, <1>6, <1>7, LastPackets DEF NaluNumbers
  <2>2. SkippedNalu(nalu, givenUp)
    BY <1>5, <1>7 DEF Follows
  <2>3. PICK p \in givenUp : p \in ToSet(PackagesOf(nalu)) /\ NaluOf[p] = nalu
    BY <2>1, <2>2, SkippedOf
  <2> QED
    BY <2>1, <2>3 DEF StillGivenUp, SkippedNalu
<1>8. Follows(LastGiven, m, StillGivenUp)
  BY <1>6, <1>7 DEF Follows
<1>9. Chain(<<>>, LastGiven, m, StillGivenUp)
  BY <1>8, ChainBegins
<1> DEFINE f == FirstOf(m)
<1>10. f \in Nat \ {0}
  BY FirstPacket
<1>11. ASSUME NEW p \in Nat \ {0}, f <= p, p <= sent, Known(buffer, givenUp, p)
       PROVE  Known(buffer, StillGivenUp, p)
  <2>1. p \in Packets
    BY <1>1, <1>11, PacketNumbers
  <2>2. m <= NaluOf[p] /\ NaluOf[p] \in Int
    BY <1>11, <2>1, LaterPackets, NaluOfPacket, LastPackets DEF NaluNumbers
  <2>3. NaluOf[p] > LastGiven
    BY <1>6, <2>2
  <2> QED
    BY <1>11, <2>3 DEF Known, StillGivenUp
<1>12. Covered(buffer, sent, sent, givenUp, f)
  BY <1>2
<1> HIDE DEF f
<1>13. Covered(buffer, sent, sent, StillGivenUp, f)
  <2>1. sent <= sent /\ SameEnds(buffer, buffer)
    BY <1>3 DEF SameEnds
  <2> QED
    BY <1>3, <1>10, <1>11, <1>12, <2>1, StillCovered
<1>14. buffer.head = slot_index(f)
  BY <1>12 DEF Covered, Covers
<1> QED
  BY <1>2, <1>9, <1>13, <1>14 DEF ReadyFor, f

\* The packet for which the head of a buffer stands, if it moved less than the
\* window from where it was.
LEMMA HeadForOf ==
  ASSUME NEW b, NEW p, NEW m \in HeadNumbers, NEW k \in HeadNumbers, IsHead(p, m),
         FirstOf(m) <= FirstOf(k), FirstOf(k) - FirstOf(m) < WindowSize,
         b.head = slot_index(FirstOf(k))
  PROVE  HeadFor(b, p) = FirstOf(k) /\ b.head # none
<1> DEFINE x == FirstOf(m)
           y == FirstOf(k)
           a == Ahead(slot_index(x), slot_index(y))
<1>1. x \in Nat /\ y \in Nat
  BY FirstPacket
<1>2. /\ x <= y /\ y - x < WindowSize /\ b.head = slot_index(y)
      /\ IF buffer.head = none THEN p = x ELSE first = x /\ buffer.head = slot_index(x)
  BY DEF IsHead
<1>3. /\ WindowSize \in Nat \ {0} /\ Half \in Nat /\ 2 * WindowSize <= Half
      /\ 2 * Half <= QueueSize /\ QueueSize \in Nat
  BY HalfOf, Constants
<1> HIDE DEF x, y
<1>4. Near(x, y)
  BY <1>1, <1>2, <1>3 DEF Near
<1>5. a = y - x
  BY <1>1, <1>2, <1>4, AheadOf
<1>6. b.head # none
  BY <1>1, <1>2, SlotOf, Constants
<1> DEFINE from == IF buffer.head = none THEN slot_index(p) ELSE buffer.head
           before == IF buffer.head = none THEN p ELSE first
<1>7. from = slot_index(x) /\ before = x
  BY <1>2
<1>8. HeadFor(b, p) = before + (IF Ahead(from, b.head) < Half THEN Ahead(from, b.head)
                                ELSE Ahead(from, b.head) - QueueSize)
  BY <1>6 DEF HeadFor, Half
<1> HIDE DEF from, before
<1>9. HeadFor(b, p) = x + (IF a < Half THEN a ELSE a - QueueSize)
  BY <1>2, <1>7, <1>8
<1> HIDE DEF a
<1>10. HeadFor(b, p) = y
  BY <1>1, <1>2, <1>3, <1>5, <1>9
<1> QED
  BY <1>6, <1>10 DEF y

\* The packet for which the head stands is a number.
LEMMA HeadForType ==
  ASSUME first \in Int, NEW b, NEW p \in Int, Sound(buffer, 1, sent), NEW low, NEW n,
         Sound(b, low, n)
  PROVE  HeadFor(b, p) \in Int
<1>1. buffer.head \in Slots \cup {none} /\ b.head \in Slots \cup {none}
  BY DEF Sound, Buffers
<1> DEFINE from == IF buffer.head = none THEN slot_index(p) ELSE buffer.head
           before == IF buffer.head = none THEN p ELSE first
           a == Ahead(from, b.head)
<1>2. QueueSize \in Nat \ {0} /\ FirstSlot \in Nat
  BY Constants
<1>3. from \in Int /\ before \in Int
  <2>1. slot_index(p) \in Int
    BY <1>2 DEF slot_index
  <2> QED
    BY <1>1, <2>1 DEF Slots
<1>4. b.head \in Int
  BY <1>1, <1>2 DEF Slots, none
<1> HIDE DEF from, before
<1>5. a \in Int
  BY <1>2, <1>3, <1>4 DEF Ahead
<1>6. HeadFor(b, p) = IF b.head = none THEN 0
                      ELSE before + (IF a < Half THEN a ELSE a - QueueSize)
  BY DEF HeadFor, Half, from, before, a
<1> HIDE DEF a
<1> QED
  BY <1>2, <1>3, <1>5, <1>6

\* A packet was handled: the invariant holds again.
LEMMA AfterHandled ==
  ASSUME ProtocolInv, NEW n \in 0 .. LastPacket[Total], NEW result, NEW p \in Int, NEW mishap,
         NEW tooLate, Handled(result, p, mishap, n, tooLate), sent <= n, sent' = n,
         restarts' \in 0 .. MaxRestarts, started' \in 0 .. n, telling' \in BOOLEAN,
         delayed' \subseteq 1 .. n, delayed' \subseteq InTime(n),
         NEW m \in HeadNumbers,
         HandledOK(result, Fine(mishap), n, StillGivenUp, LastGiven, m),
         Fine(mishap) /\ result.buffer.head # none => IsHead(p, m)
  PROVE  ProtocolInv'
<1> DEFINE b == result.buffer
           S == StillGivenUp
           l == LastGiven
           G == givenUp'
           d == buffer'
           f == first'
<1>1. /\ d = RequestsSent(b) /\ nalus' = result.nalus /\ last' = l
      /\ requests' = (requests \ tooLate) \cup DueSlots(b)
      /\ f = HeadFor(b, p)
      /\ G = IF b.head = none THEN {}
             ELSE {q \in givenUp \cup LeftOut(b, f, n) : NaluOf[q] > last'}
      /\ misled' = ((misled /\ buffer.head # none) \/ result.misled \/ mishap)
  BY DEF Handled, LastGiven
<1>2. /\ Given(result) /\ Sound(b, 0, n)
      /\ Fine(mishap) /\ ~ result.misled =>
            \/ b.head = none /\ result.nalus = <<>>
            \/ \E top \in 1 .. n : /\ top - FirstOf(m) < WindowSize
                                   /\ Whole(result, b, n, top, S, l, m)
  BY DEF HandledOK
<1>3. /\ sent \in Int /\ n \in Int /\ l \in 0 .. Total /\ l \in Int
      /\ givenUp \subseteq 1 .. sent /\ n \in Nat
  BY LastGivenOf, PacketNumbers, LastPackets DEF ProtocolInv
<1>4. b.head # none /\ Fine(mishap) => IsHead(p, m)
  OBVIOUS
<1>5. f \in Int
  BY <1>1, <1>2, HeadForType DEF ProtocolInv
<1> HIDE DEF b, l
<1>6. /\ Sound(d, 1, n) /\ SameEnds(b, d) /\ d.vpkg = b.vpkg
      /\ DOMAIN d.qos = DOMAIN b.qos \ GivenUpSlots(b)
  BY <1>1, <1>2, RequestsSentSound
<1> HIDE DEF d, f
<1>7. G \subseteq 1 .. n
  <2>1. LeftOut(b, f, n) \subseteq 1 .. n
    BY DEF LeftOut
  <2>2. givenUp \subseteq 1 .. n
    BY <1>3
  <2> QED
    BY <1>1, <2>1, <2>2
<1>8. b.head # none => S \subseteq G
  BY <1>1 DEF StillGivenUp, l
<1>9. requests' \subseteq Slots
  <2>1. b.qos \in SomeRecords(0)
    BY <1>2 DEF Sound, Buffers
  <2>2. DueSlots(b) \subseteq Slots
    BY <2>1, RecordsAre DEF DueSlots
  <2> QED
    BY <1>1, <2>2 DEF ProtocolInv
<1>10. misled' \in BOOLEAN
  BY <1>1
<1>11. ~ misled' => Fine(mishap) /\ ~ result.misled
  BY <1>1 DEF Fine
<1> HIDE DEF S
<1>12. ASSUME ~ misled', b.head # none
       PROVE  /\ AreWhole(nalus')
              /\ \E k \in HeadNumbers :
                   /\ f = FirstOf(k) /\ Covered(d, n, n, G, FirstOf(k))
                   /\ Chain(nalus', last', k, G)
  <2>1. PICK top \in 1 .. n : /\ top - FirstOf(m) < WindowSize
                              /\ Whole(result, b, n, top, S, l, m)
    BY <1>2, <1>11, <1>12
  <2>2. AreWhole(nalus') /\ nalus' \in Seq(Seq(Packets))
    BY <1>1, <1>2, <2>1 DEF Whole, Given
  <2>3. PICK k \in HeadNumbers : /\ FirstOf(m) <= FirstOf(k) /\ Chain(nalus', l, k, S)
                                 /\ Covered(b, n, top, S, FirstOf(k))
    BY <1>1, <2>1 DEF Whole
  <2> DEFINE h == FirstOf(k)
             h0 == FirstOf(m)
  <2>4. h \in Nat \ {0} /\ k \in Nat /\ h0 \in Nat
    BY FirstPacket
  <2>5. PICK tail \in 1 .. top, cur \in 1 .. n : Covers(b, S, h, tail, cur)
    BY <2>3 DEF Covered
  <2>6. b.head = slot_index(h) /\ h <= tail
    BY <2>5 DEF Covers
  <2>7. h - h0 < WindowSize
    <3>1. top - h0 < WindowSize /\ h <= top /\ WindowSize \in Nat
      BY <2>1, <2>4, <2>6, Constants
    <3> HIDE DEF h, h0
    <3> QED
      BY <2>4, <3>1
  <2>8. HeadFor(b, p) = h
    BY <1>4, <1>11, <1>12, <2>3, <2>6, <2>7, HeadForOf
  <2>9. f = h
    BY <1>1, <2>8
  <2>10. Chain(nalus', last', k, G)
    BY <1>1, <1>8, <1>12, <2>3, ChainLater
  <2>11. l < k
    BY <1>3, <2>2, <2>3, <2>4, ChainGrows
  <2>12. /\ Half \in Nat /\ 2 * Half <= QueueSize /\ QueueSize \in Nat \ {0}
    BY HalfOf, Constants
  <2>13. ASSUME NEW q \in Nat \ {0}, h <= q, q < h + Half, q <= n, Known(b, S, q)
         PROVE  Known(d, G, q)
    <3>1. q \in Packets
      BY <2>13, PacketNumbers
    <3>2. k <= NaluOf[q] /\ NaluOf[q] \in Int
      BY <2>13, <3>1, LaterPackets, NaluOfPacket, LastPackets DEF NaluNumbers
    <3>3. NaluOf[q] > last'
      BY <1>1, <1>3, <2>4, <2>11, <3>2
    <3>4. CASE slot_index(q) \in GivenUpSlots(b)
      <4> HIDE DEF h
      <4>1. Near(h, q)
        BY <2>4, <2>12, <2>13 DEF Near
      <4>2. Ahead(b.head, slot_index(q)) = q - h
        BY <2>4, <2>6, <2>13, <4>1, AheadOf
      <4>3. q = f + Ahead(b.head, slot_index(q)) /\ q \in 1 .. n
        BY <2>4, <2>9, <2>13, <4>2
      <4>4. q \in LeftOut(b, f, n)
        BY <3>4, <4>3 DEF LeftOut
      <4>5. q \in G
        BY <1>1, <1>12, <3>3, <4>4
      <4> QED
        BY <4>5 DEF Known
    <3>5. CASE slot_index(q) \notin GivenUpSlots(b)
      BY <1>6, <1>8, <1>12, <2>13, <3>5 DEF Known
    <3> QED
      BY <3>4, <3>5
  <2>14. Covered(b, n, top, S, h) /\ top <= n /\ top \in Nat /\ n <= n
    BY <1>3, <2>3
  <2> HIDE DEF h
  <2>15. ASSUME NEW q \in Nat \ {0}, h <= q, q < h + Half, q <= n \/ q <= top, Known(b, S, q)
         PROVE  Known(d, G, q)
    <3>1. q <= n
      BY <1>3, <2>14, <2>15
    <3> QED
      BY <2>13, <2>15, <3>1
  <2>16. Covered(d, n, n, G, h)
    BY <1>3, <1>6, <2>4, <2>14, <2>15, StillCovered
  <2> QED
    BY <2>2, <2>9, <2>10, <2>16 DEF h
<1>13. ASSUME ~ misled', b.head = none
       PROVE  AreWhole(nalus') /\ nalus' = <<>>
  <2>1. CASE result.nalus = <<>>
    BY <1>1, <2>1 DEF AreWhole
  <2>2. CASE result.nalus # <<>>
    <3>1. PICK top \in 1 .. n : Whole(result, b, n, top, S, l, m)
      BY <1>2, <1>11, <1>13, <2>2
    <3>2. PICK k \in HeadNumbers : Covered(b, n, top, S, FirstOf(k))
      BY <3>1 DEF Whole
    <3>3. FirstOf(k) \in Nat /\ b.head = slot_index(FirstOf(k))
      BY <3>2, FirstPacket DEF Covered, Covers
    <3>4. b.head # none
      BY <3>3, SlotOf, Constants
    <3> QED
      BY <1>13, <3>4
  <2> QED
    BY <2>1, <2>2
<1>14. d.head = b.head
  BY <1>6 DEF SameEnds
<1> HIDE DEF G
<1>15. Order'
  BY <1>12, <1>13, <1>14 DEF Order, d, G, f
<1>16. nalus' \in Seq(Seq(Packets)) /\ AreSlots(nalus') /\ last' \in 0 .. Total
  BY <1>1, <1>2, <1>3 DEF Given
<1> QED
  BY <1>5, <1>6, <1>7, <1>9, <1>10, <1>15, <1>16 DEF ProtocolInv, d, G, f

\* A packet is received: it is as AfterHandled needs.
LEMMA Received ==
  ASSUME ProtocolInv, NEW n \in 0 .. LastPacket[Total], sent <= n,
         NEW p \in Packets, p <= n, p >= n - MaxLate, NEW mishap,
         mishap = Misled(Placed(buffer, p), p)
  PROVE  \E m \in HeadNumbers :
            /\ HandledOK(HandlePackage(buffer, p), Fine(mishap), n, StillGivenUp, LastGiven, m)
            /\ Fine(mishap) /\ HandlePackage(buffer, p).buffer.head # none => IsHead(p, m)
<1> DEFINE b == buffer
           d == Placed(b, p)
           r == HandlePackage(b, p)
           g == StillGivenUp
           l == LastGiven
           good == Fine(mishap)
<1>1. /\ sent \in Nat /\ n \in Nat /\ sent \in Int /\ n \in Int /\ p \in Nat \ {0} /\ p \in Int
      /\ Sound(b, 1, sent)
  BY PacketNumbers DEF ProtocolInv
<1>2. Sound(b, 1, n)
  BY <1>1, SoundLater
<1>3. /\ Sound(d, 1, n)
      /\ b.head # none => d.head = b.head
      /\ b.head = none /\ d.head # none => IsFirst(p)
  BY <1>1, <1>2, PlacedOf
<1>4. l \in 0 .. Total /\ (b.head = none => l = 0)
  BY LastGivenOf
<1>5. good \in BOOLEAN
  BY DEF Fine
<1>6. NaluOf[p] \in HeadNumbers /\ (IsFirst(p) => p = FirstOf(NaluOf[p]))
  BY NaluOfPacket, PacketsOfNalu, FirstPackets
<1>7. r.buffer.head # none => d.head # none
  <2>1. ASSUME d.head = none
        PROVE  r.buffer.head = none
    <3>1. r = Result(d, <<>>, FALSE)
      BY <2>1 DEF HandlePackage
    <3> HIDE DEF r, d
    <3>2. r.buffer = d
      BY <3>1 DEF Result
    <3> QED
      BY <2>1, <3>2
  <2> QED
    BY <2>1
<1>8. CASE b.head = none
  <2>1. HandledOK(r, good, n, g, l, NaluOf[p])
    <3> DEFINE m == NaluOf[p]
    <3>1. m \in HeadNumbers /\ (IsFirst(p) => p = FirstOf(m))
      BY <1>6
    <3> HIDE DEF m, good, g, l
    <3>2. HandledOK(r, good, n, g, l, m)
      BY <1>1, <1>2, <1>4, <1>5, <1>8, <3>1, HandlePackageOf
    <3> QED
      BY <3>2 DEF m
  <2>2. r.buffer.head # none => IsHead(p, NaluOf[p])
    BY <1>3, <1>6, <1>7, <1>8 DEF IsHead
  <2> QED
    BY <1>6, <2>1, <2>2
<1>9. CASE b.head # none /\ ~ good
  <2>1. HandledOK(r, good, n, g, l, NaluOf[p])
    <3> DEFINE m == NaluOf[p]
    <3>1. m \in HeadNumbers
      BY <1>6
    <3> HIDE DEF m, good, g, l
    <3>2. HandledOK(r, good, n, g, l, m)
      BY <1>1, <1>2, <1>4, <1>5, <1>9, <3>1, HandlePackageOf
    <3> QED
      BY <3>2 DEF m
  <2> QED
    BY <1>6, <1>9, <2>1
<1>10. CASE b.head # none /\ good
  <2>1. ~ misled /\ ~ mishap
    BY <1>10 DEF Fine
  <2>2. PICK m \in HeadNumbers : ReadyFor(m)
    BY <1>10, <2>1, ReadyNow
  <2> DEFINE f == FirstOf(m)
  <2>3. f \in Nat \ {0}
    BY FirstPacket
  <2>4. /\ Covered(b, sent, sent, g, f) /\ Chain(<<>>, l, m, g)
        /\ first = f /\ b.head = slot_index(f)
    BY <2>2 DEF ReadyFor
  <2>5. IsHead(p, m)
    BY <1>10, <2>4 DEF IsHead
  <2>6. d.head = slot_index(f) /\ d.head # none
    BY <1>3, <1>10, <2>4
  <2>7. HeadFor(d, p) = f
    <3>1. f <= f /\ f - f < WindowSize
      BY <2>3, Constants
    <3> QED
      BY <2>5, <2>6, <3>1, HeadForOf
  <2>8. ~ IsAstray(d) /\ ~ HasStale(d, f) /\ p - f < Half
    <3>1. ~ IsAstray(d) /\ ~ HasStale(d, f) /\ ~ (p - f >= Half)
      BY <2>1, <2>6, <2>7 DEF Misled, Half
    <3>2. p - f < Half
      <4>1. Half \in Nat
        BY HalfOf
      <4> HIDE DEF f
      <4> QED
        BY <1>1, <2>3, <3>1, <4>1
    <3> QED
      BY <3>1, <3>2
  <2>9. HandledOK(r, good, n, g, l, m)
    <3> HIDE DEF good, g, l
    <3> QED
      BY <1>1, <1>2, <1>4, <1>5, <1>10, <2>4, <2>8, HandlePackageOf
  <2> QED
    BY <2>5, <2>9
<1> QED
  BY <1>8, <1>9, <1>10

-----------------------------------------------------------------------------
(***************************************************************************)
(* What each step of the protocol preserves.                               *)
(***************************************************************************)

\* At first nothing was received.
LEMMA ProtocolBegins ==
  ASSUME ProtocolInit
  PROVE  ProtocolInv
<1>1. /\ sent = 0 /\ started = 0 /\ telling = FALSE /\ restarts = 0
      /\ delayed = {} /\ requests = {} /\ buffer = EmptyBuffer /\ nalus = <<>>
      /\ first = 0 /\ last = 0 /\ givenUp = {} /\ misled = FALSE
  BY DEF ProtocolInit
<1>2. sent \in 0 .. LastPacket[Total] /\ last \in 0 .. Total
  BY <1>1, PacketNumbers, LastPackets
<1>3. restarts \in 0 .. MaxRestarts
  BY <1>1, ProtocolAssumption
<1>4. /\ delayed \subseteq 1 .. sent /\ delayed \subseteq InTime(sent)
      /\ givenUp \subseteq 1 .. sent /\ requests \subseteq Slots
      /\ started \in 0 .. sent /\ first \in Int
  BY <1>1
<1>5. nalus \in Seq(Seq(Packets)) /\ AreWhole(nalus) /\ AreSlots(nalus)
  BY <1>1 DEF AreWhole, AreSlots
<1>6. /\ EmptyBuffer.head = none /\ EmptyBuffer.tail = none /\ EmptyBuffer.current = none
      /\ EmptyBuffer.qos = <<>> /\ EmptyBuffer.vpkg = [s \in Slots |-> Invalid]
  BY DEF EmptyBuffer
<1>7. <<>> \in SomeRecords(1)
  <2>1. DOMAIN <<>> = {} /\ <<>> = [s \in {} |-> <<>>[s]]
    OBVIOUS
  <2> QED
    BY <2>1, RecordsAre
<1>8. EmptyBuffer \in Buffers(1)
  BY <1>7 DEF Buffers, EmptyBuffer
<1>9. Sound(EmptyBuffer, 1, sent)
  BY <1>6, <1>8 DEF Sound, InSlots, HasEnds
<1>10. Order
  BY <1>1, <1>5, <1>6 DEF Order
<1>11. misled \in BOOLEAN /\ telling \in BOOLEAN
  BY <1>1
<1> QED
  BY <1>1, <1>2, <1>3, <1>4, <1>5, <1>9, <1>10, <1>11 DEF ProtocolInv

\* What is still on its way when n packets have been sent.
LEMMA InTimeOf ==
  ASSUME ProtocolInv, NEW n \in Nat, sent <= n, NEW d,
         d \subseteq (delayed \cap InTime(n)) \cup {n}, n \in d => n # 0
  PROVE  d \subseteq 1 .. n /\ d \subseteq InTime(n)
<1>1. sent \in Nat /\ delayed \subseteq 1 .. sent
  BY PacketNumbers DEF ProtocolInv
<1>2. MaxLate \in Nat
  BY HalfOf
<1>3. n \in InTime(n)
  BY <1>2 DEF InTime
<1>4. ASSUME NEW q \in d
      PROVE  q \in 1 .. n /\ q \in InTime(n)
  <2>1. CASE q = n
    BY <1>3, <1>4, <2>1
  <2>2. CASE q # n
    <3>1. q \in 1 .. sent /\ q \in InTime(n)
      BY <1>1, <2>2
    <3> QED
      BY <1>1, <3>1
  <2> QED
    BY <2>1, <2>2
<1> QED
  BY <1>4

\* Nothing is received, and perhaps more was sent.
LEMMA NothingReceived ==
  ASSUME ProtocolInv, UNCHANGED receiverVars, NEW n \in 0 .. LastPacket[Total], sent <= n,
         sent' = n, restarts' \in 0 .. MaxRestarts, started' \in 0 .. n,
         telling' \in BOOLEAN, requests' \subseteq Slots,
         delayed' \subseteq 1 .. n, delayed' \subseteq InTime(n)
  PROVE  ProtocolInv'
<1>1. UNCHANGED <<buffer, nalus, first, last, givenUp, misled>>
  BY DEF receiverVars
<1>2. /\ Sound(buffer, 1, sent) /\ givenUp \subseteq 1 .. sent
      /\ misled \in BOOLEAN /\ last \in 0 .. Total /\ first \in Int
      /\ nalus \in Seq(Seq(Packets)) /\ AreSlots(nalus) /\ Order
  BY DEF ProtocolInv
<1>3. sent \in Nat /\ n \in Nat /\ sent \in Int /\ n \in Int
  BY PacketNumbers DEF ProtocolInv
<1>4. Sound(buffer, 1, n)
  BY <1>2, <1>3, SoundLater
<1>5. givenUp \subseteq 1 .. n
  BY <1>2, <1>3
<1>6. ASSUME NEW m \in HeadNumbers, Covered(buffer, sent, sent, givenUp, FirstOf(m))
      PROVE  Covered(buffer, n, n, givenUp, FirstOf(m))
  <2> DEFINE f == FirstOf(m)
  <2>1. f \in Nat \ {0} /\ SameEnds(buffer, buffer)
    BY FirstPacket DEF SameEnds
  <2>2. Covered(buffer, sent, sent, givenUp, f)
    BY <1>6
  <2> HIDE DEF f
  <2>3. Covered(buffer, n, n, givenUp, f)
    BY <1>3, <2>1, <2>2, StillCovered
  <2> QED
    BY <2>3 DEF f
<1>7. Order'
  BY <1>1, <1>2, <1>6 DEF Order
<1> QED
  BY <1>1, <1>2, <1>4, <1>5, <1>7 DEF ProtocolInv

\* The packet that was sent last is not late.
LEMMA NotLate == \A n \in Int : n >= n - MaxLate
<1>1. MaxLate \in Nat
  BY HalfOf
<1> QED
  BY <1>1

\* A packet is sent, and is received, lost or delayed.
LEMMA SendPreserves ==
  ASSUME ProtocolInv, Send
  PROVE  ProtocolInv'
<1> DEFINE n == sent'
<1>1. /\ sent < LastPacket[Total] /\ n = sent + 1
      /\ restarts' = restarts /\ started' = started /\ telling' = telling
      /\ \/ /\ Receive(n, n, TooLate(n))
            /\ delayed' = delayed \cap InTime(n)
         \/ /\ delayed' \subseteq (delayed \cap InTime(n)) \cup {n}
            /\ requests' = requests \ TooLate(n)
            /\ UNCHANGED receiverVars
  BY PacketNumbers DEF Send
<1>2. /\ sent \in Nat /\ n \in 0 .. LastPacket[Total] /\ n \in Nat \ {0} /\ n \in Int
      /\ sent <= n /\ n \in Packets /\ n <= n
  BY <1>1, PacketNumbers DEF ProtocolInv
<1>3. delayed' \subseteq 1 .. n /\ delayed' \subseteq InTime(n)
  <2>1. delayed' \subseteq (delayed \cap InTime(n)) \cup {n}
    BY <1>1
  <2> HIDE DEF n
  <2> QED
    BY <1>2, <2>1, InTimeOf
<1>4. restarts' \in 0 .. MaxRestarts /\ started' \in 0 .. n /\ telling' \in BOOLEAN
        /\ requests \subseteq Slots
  BY <1>1, <1>2 DEF ProtocolInv
<1>5. CASE Receive(n, n, TooLate(n))
  <2> DEFINE mishap == Misled(Placed(buffer, n), n)
  <2>1. n >= n - MaxLate
    BY <1>2, NotLate
  <2>2. PICK m \in HeadNumbers :
            /\ HandledOK(HandlePackage(buffer, n), Fine(mishap), n, StillGivenUp, LastGiven, m)
            /\ Fine(mishap) /\ HandlePackage(buffer, n).buffer.head # none => IsHead(n, m)
    BY <1>2, <2>1, Received
  <2>3. Handled(HandlePackage(buffer, n), n, mishap, n, TooLate(n))
    BY <1>5 DEF Receive
  <2> HIDE DEF mishap
  <2> QED
    BY <1>2, <1>3, <1>4, <2>2, <2>3, AfterHandled
<1>6. CASE requests' = requests \ TooLate(n) /\ UNCHANGED receiverVars
  <2>1. requests' \subseteq Slots
    BY <1>4, <1>6
  <2> QED
    BY <1>2, <1>3, <1>4, <1>6, <2>1, NothingReceived
<1> QED
  BY <1>1, <1>5, <1>6

\* A packet arrives late.
LEMMA DelayedArrivesPreserves ==
  ASSUME ProtocolInv, NEW p \in Packets, DelayedArrives(p)
  PROVE  ProtocolInv'
<1> DEFINE mishap == Misled(Placed(buffer, p), p)
<1>1. /\ p \in delayed /\ delayed' = delayed \ {p}
      /\ sent' = sent /\ started' = started /\ telling' = telling /\ restarts' = restarts
      /\ Handled(HandlePackage(buffer, p), p, mishap, sent, {})
  BY DEF DelayedArrives, Receive, senderVars
<1>2. /\ sent \in 0 .. LastPacket[Total] /\ p \in 1 .. sent /\ p \in InTime(sent)
      /\ delayed' \subseteq 1 .. sent /\ delayed' \subseteq InTime(sent)
      /\ restarts' \in 0 .. MaxRestarts /\ started' \in 0 .. sent /\ telling' \in BOOLEAN
  BY <1>1 DEF ProtocolInv
<1>3. sent <= sent /\ p >= sent - MaxLate /\ p \in Int /\ p <= sent
  BY <1>2, PacketNumbers, HalfOf DEF InTime
<1>4. PICK m \in HeadNumbers :
          /\ HandledOK(HandlePackage(buffer, p), Fine(mishap), sent, StillGivenUp, LastGiven, m)
          /\ Fine(mishap) /\ HandlePackage(buffer, p).buffer.head # none => IsHead(p, m)
  BY <1>2, <1>3, Received
<1> HIDE DEF mishap
<1> QED
  BY <1>1, <1>2, <1>3, <1>4, AfterHandled

\* The answer of a request arrives.
LEMMA ResentArrivesPreserves ==
  ASSUME ProtocolInv, NEW p \in Packets, ResentArrives(p)
  PROVE  ProtocolInv'
<1> DEFINE mishap == buffer.head # none /\ HasStale(Stored(buffer, p), first)
           r == HandleResent(buffer, p)
           g == StillGivenUp
           l == LastGiven
           good == Fine(mishap)
<1>1. /\ p \in SentIn(slot_index(p)) /\ delayed' = delayed
      /\ sent' = sent /\ started' = started /\ telling' = telling /\ restarts' = restarts
      /\ Handled(r, p, mishap, sent, {})
  BY DEF ResentArrives, senderVars
<1>2. /\ sent \in 0 .. LastPacket[Total] /\ Sound(buffer, 1, sent)
      /\ delayed' \subseteq 1 .. sent /\ delayed' \subseteq InTime(sent)
      /\ restarts' \in 0 .. MaxRestarts /\ started' \in 0 .. sent /\ telling' \in BOOLEAN
  BY <1>1 DEF ProtocolInv
<1>3. sent \in Nat /\ sent <= sent /\ p \in Int /\ p <= sent
  BY <1>1, <1>2, PacketNumbers, Constants DEF SentIn, LastIn
<1>4. l \in 0 .. Total
  BY LastGivenOf
<1>5. good \in BOOLEAN
  BY DEF Fine
<1>6. \E m \in HeadNumbers :
         HandledOK(r, good, sent, g, l, m) /\ (good /\ r.buffer.head # none => IsHead(p, m))
  <2>1. NaluOf[p] \in HeadNumbers
    BY NaluOfPacket, PacketsOfNalu
  <2>2. CASE buffer.head # none /\ good
    <3>1. ~ misled /\ ~ mishap
      BY <2>2 DEF Fine
    <3>2. PICK m \in HeadNumbers : ReadyFor(m)
      BY <2>2, <3>1, ReadyNow
    <3>3. /\ Covered(buffer, sent, sent, g, FirstOf(m)) /\ Chain(<<>>, l, m, g)
          /\ ~ HasStale(Stored(buffer, p), FirstOf(m)) /\ IsHead(p, m)
      BY <2>2, <3>1, <3>2 DEF ReadyFor, IsHead
    <3> HIDE DEF g, l, good
    <3>4. HandledOK(r, good, sent, g, l, m)
      BY <1>2, <1>3, <1>4, <1>5, <3>3, HandleResentOf
    <3> QED
      BY <3>3, <3>4
  <2>3. CASE ~ (buffer.head # none /\ good)
    <3> DEFINE m == NaluOf[p]
    <3>1. m \in HeadNumbers
      BY <2>1
    <3> HIDE DEF m, g, l, good
    <3>2. HandledOK(r, good, sent, g, l, m)
      BY <1>2, <1>3, <1>4, <1>5, <2>3, <3>1, HandleResentOf
    <3>3. good => r.buffer.head = none
      <4>1. ASSUME buffer.head = none
            PROVE  r.buffer.head = none
        <5> DEFINE e == Stored(buffer, p)
                   d == Erase(e, {slot_index(p)})
        <5>1. Sound(e, 1, sent) /\ SameEnds(buffer, e)
          BY <1>2, <1>3, StoredSound
        <5> HIDE DEF e
        <5>2. SameEnds(e, d)
          BY <5>1, EraseSound
        <5>3. r.buffer = d
          BY DEF HandleResent, Result, e
        <5> HIDE DEF d, r
        <5> QED
          BY <4>1, <5>1, <5>2, <5>3 DEF SameEnds
      <4> QED
        BY <2>3, <4>1
    <3> QED
      BY <3>1, <3>2, <3>3
  <2> QED
    BY <2>2, <2>3
<1>7. PICK m \in HeadNumbers :
         HandledOK(r, good, sent, g, l, m) /\ (good /\ r.buffer.head # none => IsHead(p, m))
  BY <1>6
<1> HIDE DEF mishap, r
<1> QED
  BY <1>1, <1>2, <1>3, <1>7, AfterHandled

\* The sender starts anew.
LEMMA RestartPreserves ==
  ASSUME ProtocolInv, Restart
  PROVE  ProtocolInv'
<1>1. PICK n \in sent .. sent + QueueSize - 1 : n + 1 \in Packets /\ sent' = n
  BY DEF Restart
<1>2. /\ restarts < MaxRestarts /\ restarts' = restarts + 1 /\ started' = sent'
      /\ telling' = TRUE /\ requests' = {} /\ UNCHANGED receiverVars
      /\ delayed' = delayed \cap InTime(sent')
  BY DEF Restart
<1>3. sent \in Nat /\ n \in Nat /\ n \in 0 .. LastPacket[Total] /\ sent <= n
  BY <1>1, PacketNumbers, Constants DEF ProtocolInv
<1>4. delayed' \subseteq 1 .. n /\ delayed' \subseteq InTime(n)
  <2>1. delayed' \subseteq (delayed \cap InTime(n)) \cup {n}
    BY <1>1, <1>2
  <2>2. n \in delayed' => n # 0
    BY <1>2, PacketNumbers DEF ProtocolInv
  <2> QED
    BY <1>3, <2>1, <2>2, InTimeOf
<1>5. /\ restarts' \in 0 .. MaxRestarts /\ started' \in 0 .. n /\ telling' \in BOOLEAN
      /\ requests' \subseteq Slots
  BY <1>1, <1>2, <1>3, ProtocolAssumption DEF ProtocolInv
<1> QED
  BY <1>1, <1>2, <1>3, <1>4, <1>5, NothingReceived

\* The receiver is told so, and resets its buffer.
LEMMA ReinitPreserves ==
  ASSUME ProtocolInv, Reinit
  PROVE  ProtocolInv'
<1> DEFINE d == Reset(buffer)
           r == Result(d, <<>>, FALSE)
           mishap == FALSE
           m == Total + 1
<1>1. /\ telling' = FALSE /\ Handled(r, 0, mishap, sent, {})
      /\ sent' = sent /\ started' = started /\ restarts' = restarts /\ delayed' = delayed
  BY DEF Reinit
<1>2. Sound(buffer, 0, sent)
  BY SoundLower DEF ProtocolInv
<1>3. Sound(d, 0, sent) /\ d.head = none
  BY <1>2, ResetSound
<1> HIDE DEF d
<1>4. r.buffer = d /\ r.nalus = <<>> /\ r.misled = FALSE
  BY DEF Result
<1> HIDE DEF r, mishap
<1>5. Given(r)
  BY <1>4, NothingGiven
<1>6. m \in HeadNumbers
  BY LastPackets DEF HeadNumbers
<1> HIDE DEF m
<1>7. HandledOK(r, Fine(mishap), sent, StillGivenUp, LastGiven, m)
  BY <1>3, <1>4, <1>5 DEF HandledOK
<1>8. Fine(mishap) /\ r.buffer.head # none => IsHead(0, m)
  BY <1>3, <1>4
<1>9. /\ sent \in 0 .. LastPacket[Total] /\ sent \in Nat
      /\ delayed \subseteq 1 .. sent /\ delayed \subseteq InTime(sent)
      /\ restarts \in 0 .. MaxRestarts /\ started \in 0 .. sent
  BY PacketNumbers DEF ProtocolInv
<1>10. /\ sent <= sent /\ restarts' \in 0 .. MaxRestarts /\ started' \in 0 .. sent
       /\ telling' \in BOOLEAN
       /\ delayed' \subseteq 1 .. sent /\ delayed' \subseteq InTime(sent)
  <2>1. sent <= sent /\ restarts' \in 0 .. MaxRestarts /\ started' \in 0 .. sent
    <3>1. sent <= sent
      BY <1>9
    <3>2. restarts' = restarts /\ started' = started
      BY <1>1
    <3> QED
      BY <1>9, <3>1, <3>2
  <2>2. telling' \in BOOLEAN
    BY <1>1
  <2>3. delayed' = delayed
    BY <1>1
  <2>4. delayed' \subseteq 1 .. sent /\ delayed' \subseteq InTime(sent)
    BY <1>9, <2>3
  <2> QED
    BY <2>1, <2>2, <2>4
<1>11. Handled(r, 0, mishap, sent, {}) /\ sent' = sent
  BY <1>1
<1> QED
  BY <1>6, <1>7, <1>8, <1>9, <1>10, <1>11, AfterHandled

\* What is known of the buffer and of what was given holds in every state.
THEOREM ProtocolInvariant == ProtocolSpec => []ProtocolInv
<1>1. ProtocolInit => ProtocolInv
  BY ProtocolBegins
<1>2. ProtocolInv /\ [ProtocolNext]_protocolVars => ProtocolInv'
  <2> SUFFICES ASSUME ProtocolInv, [ProtocolNext]_protocolVars
               PROVE  ProtocolInv'
    OBVIOUS
  <2>1. CASE Send
    BY <2>1, SendPreserves
  <2>2. CASE Restart
    BY <2>2, RestartPreserves
  <2>3. CASE Reinit
    BY <2>3, ReinitPreserves
  <2>4. CASE \E p \in Packets : DelayedArrives(p)
    BY <2>4, DelayedArrivesPreserves
  <2>5. CASE \E p \in Packets : ResentArrives(p)
    BY <2>5, ResentArrivesPreserves
  <2>6. CASE UNCHANGED protocolVars
    <3>1. UNCHANGED <<sent, started, telling, restarts, delayed, requests, buffer, nalus,
                      first, last, givenUp, misled>>
      BY <2>6 DEF protocolVars, senderVars, receiverVars
    <3>2. Order'
      BY <3>1 DEF ProtocolInv, Order
    <3> QED
      BY <3>1, <3>2 DEF ProtocolInv
  <2> QED
    BY <2>1, <2>2, <2>3, <2>4, <2>5, <2>6 DEF ProtocolNext
<1> QED
  BY <1>1, <1>2, PTL DEF ProtocolSpec

-----------------------------------------------------------------------------
(***************************************************************************)
(* What the invariant says of the properties.                              *)
(***************************************************************************)

\* The records of requests are as BufferOK() says.
LEMMA BufferIsOK ==
  ASSUME ProtocolInv
  PROVE  BufferOK
<1>1. buffer \in Buffers(1) /\ HasEnds(buffer)
  BY DEF ProtocolInv, Sound
<1>2. /\ buffer.vpkg \in [Slots -> Packets \cup {Invalid}] /\ buffer.qos \in SomeRecords(1)
      /\ {buffer.head, buffer.tail, buffer.current} \subseteq Slots \cup {none}
      /\ buffer.head = none <=> buffer.tail = none
  BY <1>1 DEF Buffers, HasEnds
<1>3. /\ DOMAIN buffer.qos \subseteq Slots
      /\ \A s \in DOMAIN buffer.qos : buffer.qos[s] \in Records(1)
  BY <1>2, RecordsAre
<1>4. ASSUME NEW s \in DOMAIN buffer.qos
      PROVE  /\ buffer.qos[s].request_count \in 0 .. MaxRequests + 1
             /\ buffer.qos[s].countdown \in 1 .. Countdown
  BY <1>3 DEF Records
<1> QED
  BY <1>2, <1>3, <1>4 DEF BufferOK

\* The buffer of the receiver, what is on its way and the records of requests
\* keep their shape (TBuf and Tqos_records of pkg_buf.h).
THEOREM ProtocolTypeCorrect == ProtocolSpec => []ProtocolTypeOK
<1>1. ProtocolInv => ProtocolTypeOK
  <2> SUFFICES ASSUME ProtocolInv PROVE ProtocolTypeOK
    OBVIOUS
  <2>1. /\ sent \in 0 .. Cardinality(Packets) /\ restarts \in 0 .. MaxRestarts
        /\ started \in 0 .. sent /\ telling \in BOOLEAN
        /\ delayed \cup givenUp \subseteq 1 .. sent
        /\ requests \subseteq Slots /\ misled \in BOOLEAN /\ first \in Int
    BY PacketNumbers DEF ProtocolInv
  <2>2. nalus \in Seq(Seq(Packets)) /\ last \in 0 .. Len(NaluSizes)
    BY DEF ProtocolInv, Total
  <2> QED
    BY <2>1, <2>2, BufferIsOK DEF ProtocolTypeOK
<1> QED
  BY <1>1, ProtocolInvariant, PTL

\* A NALU as it was sent has its own slots.
LEMMA OwnSlots ==
  ASSUME NEW nalu \in NaluNumbers
  PROVE  HasSlotsOf(PackagesOf(nalu), nalu)
<1> DEFINE x == PackagesOf(nalu)
           z == NaluSizes[nalu]
<1>1. z \in Nat \ {0} /\ LastPacket[nalu - 1] \in Nat
  BY PacketsOfNalu, LastPackets DEF NaluNumbers
<1>2. x = [i \in 1 .. z |-> LastPacket[nalu - 1] + i]
  BY DEF PackagesOf
<1>3. Len(x) = z /\ \A i \in 1 .. z : x[i] \in Int
  BY <1>1, <1>2
<1> HIDE DEF x
<1>4. HasSlotsOf(x, nalu)
  BY <1>3, Constants DEF HasSlotsOf, x
<1> QED
  BY <1>4 DEF x

\* Whatever is lost, late or sent again, in whatever order, and however often slots
\* are used again, the callback is given packets that have the slots of a NALU,
\* all of them and in order: get_current_nalu() never returns a part of one.  Until
\* the receiver was misled it is that NALU, with nothing of another round in it.
THEOREM WholeNalusGiven == ProtocolSpec => NalusAreWhole
<1>1. ProtocolInv' => [\A i \in DOMAIN nalus' :
                          \E nalu \in 1 .. Len(NaluSizes) :
                             /\ HasSlotsOf(nalus'[i], nalu)
                             /\ ~misled' => nalus'[i] = PackagesOf(nalu)]_protocolVars
  <2> SUFFICES ASSUME ProtocolInv', NEW i \in DOMAIN nalus'
               PROVE  \E nalu \in 1 .. Len(NaluSizes) :
                         /\ HasSlotsOf(nalus'[i], nalu)
                         /\ ~misled' => nalus'[i] = PackagesOf(nalu)
    OBVIOUS
  <2>1. CASE misled'
    BY <2>1 DEF ProtocolInv, AreSlots, NaluNumbers, Total
  <2>2. CASE ~ misled'
    <3>1. PICK nalu \in NaluNumbers : nalus'[i] = PackagesOf(nalu)
      BY <2>2 DEF ProtocolInv, Order, AreWhole
    <3>2. HasSlotsOf(nalus'[i], nalu)
      BY <3>1, OwnSlots
    <3> QED
      BY <3>1, <3>2 DEF NaluNumbers, Total
  <2> QED
    BY <2>1, <2>2
<1> QED
  BY <1>1, ProtocolInvariant, PTL DEF NalusAreWhole

\* Two NALUs that are given one after the other.
LEMMA OneAfterTheOther ==
  ASSUME ProtocolInv, ~ misled, NEW i \in DOMAIN nalus
  PROVE  Follows(Before(i), Numbers[i], givenUp)
<1>1. nalus \in Seq(Seq(Packets))
  BY DEF ProtocolInv
<1>2. /\ i \in 1 .. Len(nalus) + 1 /\ i # Len(nalus) + 1
      /\ i # 1 => i - 1 \in DOMAIN nalus
  BY <1>1
<1>3. nalus # <<>>
  BY <1>2
<1>4. PICK m \in HeadNumbers : Chain(nalus, last, m, givenUp)
  BY <1>3 DEF ProtocolInv, Order
<1>5. Follows(Prev(nalus, last, i), Num(nalus, m, i), givenUp)
  BY <1>2, <1>4 DEF Chain
<1>6. Numbers[i] = Num(nalus, m, i)
  BY <1>2 DEF Numbers, Num
<1>7. Before(i) = Prev(nalus, last, i)
  BY <1>2 DEF Before, Numbers, Prev
<1> QED
  BY <1>5, <1>6, <1>7

\* Packets that are late or are sent again change neither the order in which
\* NALUs are given to the callback, nor make one be given twice, until one of the
\* mishaps of Misled, or a NALU behind which the tail was not.
THEOREM NalusInOrder == ProtocolSpec => []InOrder
<1>1. ProtocolInv => InOrder
  <2> SUFFICES ASSUME ProtocolInv, ~ misled, NEW i \in DOMAIN nalus
               PROVE  Numbers[i] > Before(i)
    BY DEF InOrder
  <2>1. Before(i) < Numbers[i]
    BY OneAfterTheOther DEF Follows
  <2>2. nalus \in Seq(Seq(Packets)) /\ AreWhole(nalus) /\ last \in 0 .. Total
    BY DEF ProtocolInv, Order
  <2>3. ASSUME NEW j \in DOMAIN nalus
        PROVE  Numbers[j] \in Int
    <3>1. j + 1 \in 1 .. Len(nalus) + 1 /\ j + 1 # 1 /\ (j + 1) - 1 = j
      BY <2>2
    <3>2. Prev(nalus, last, j + 1) \in Int
      BY <2>2, <3>1, PrevIsNumber
    <3> QED
      BY <3>1, <3>2 DEF Prev, Numbers
  <2>4. Before(i) \in Int
    <3>1. i # 1 => i - 1 \in DOMAIN nalus
      BY <2>2
    <3> QED
      BY <2>2, <2>3, <3>1 DEF Before
  <2> QED
    BY <2>1, <2>3, <2>4
<1> QED
  BY <1>1, ProtocolInvariant, PTL

\* Until then, what is lost between head and tail is asked for until it is given
\* up, and a NALU is skipped only when that happened to a packet of it: scan_pkg()
\* never takes for lost a packet that was not asked for.
THEOREM OnlyGivenUpSkipped == ProtocolSpec => []SkippedIfGivenUp
<1>1. ProtocolInv => SkippedIfGivenUp
  <2> SUFFICES ASSUME ProtocolInv, ~ misled
               PROVE  /\ \A i \in DOMAIN nalus : Before(i) # 0 =>
                           \A nalu \in Before(i) + 1 .. Numbers[i] - 1 :
                              ToSet(PackagesOf(nalu)) \cap givenUp # {}
                      /\ buffer.head # none =>
                           \A s \in Missing(buffer, From(buffer.head, buffer.tail)) :
                              \/ s \in DOMAIN buffer.qos
                              \/ first + Ahead(buffer.head, s) \in givenUp
    BY DEF SkippedIfGivenUp
  <2>1. ASSUME NEW i \in DOMAIN nalus, Before(i) # 0,
               NEW nalu \in Before(i) + 1 .. Numbers[i] - 1
        PROVE  ToSet(PackagesOf(nalu)) \cap givenUp # {}
    BY <2>1, OneAfterTheOther DEF Follows, SkippedNalu
  <2>2. ASSUME buffer.head # none,
               NEW s \in Missing(buffer, From(buffer.head, buffer.tail))
        PROVE  s \in DOMAIN buffer.qos \/ first + Ahead(buffer.head, s) \in givenUp
    <3>1. sent \in Nat
      BY PacketNumbers DEF ProtocolInv
    <3>2. PICK m \in HeadNumbers :
               first = FirstOf(m) /\ Covered(buffer, sent, sent, givenUp, FirstOf(m))
      BY <2>2 DEF ProtocolInv, Order
    <3>3. first \in Nat \ {0} /\ Covered(buffer, sent, sent, givenUp, first)
      BY <3>2, FirstPacket
    <3>4. s \in From(buffer.head, buffer.tail) /\ buffer.vpkg[s] = Invalid
      BY <2>2 DEF Missing
    <3> DEFINE f == first
    <3>5. f \in Nat \ {0} /\ Covered(buffer, sent, sent, givenUp, f)
      BY <3>3
    <3> HIDE DEF f
    <3>6. \A t \in From(buffer.head, buffer.tail) : \E p \in Nat :
             t = slot_index(p) /\ p = f + Ahead(buffer.head, t) /\ Known(buffer, givenUp, p)
      BY <3>1, <3>5, CoveredFrom
    <3>7. PICK p \in Nat : /\ s = slot_index(p) /\ p = f + Ahead(buffer.head, s)
                           /\ Known(buffer, givenUp, p)
      BY <3>4, <3>6
    <3> QED
      BY <3>4, <3>7 DEF Known, f
  <2> QED
    BY <2>1, <2>2
<1> QED
  BY <1>1, ProtocolInvariant, PTL

-----------------------------------------------------------------------------
(***************************************************************************)
(* The queue of a source, between the thread of the receiver and the event *)
(* loop.                                                                   *)
(***************************************************************************)
Owners ==
    /\ receiver.source # NULL <=> receiver.at # "idle"
    /\ receiver.source # NULL => receiver.source \in Live
    /\ loop.at # "idle" => loop.source \in Live
    /\ loop.nalu # NULL <=> loop.at \in {"popped", "deliver"}
    /\ callback # NULL => callback \in Live
    /\ loop.at = "free" => callback = NULL /\ receiver.at = "idle"
    /\ \A s \in Live : ~ (InsertHolds(s) /\ PopHolds(s))

Polling ==
    /\ \A s \in Sources :
          polls[s] > 0 => /\ s \in Live /\ polls[s] = 1
                          /\ sources[s]._started => sources[s].awaiting
    /\ loop.at \in {"register", "start", "pop", "popped", "deliver"} =>
          polls[loop.source] = 0
    /\ loop.at \in {"pop", "popped", "deliver"} => sources[loop.source].awaiting

\* The nalu that the receiver has is newer than any in a queue.
Queues ==
    /\ NoneLostOnTheWay
    /\ receiver.at # "idle" => received > 0
    /\ \A s \in Live : \A n \in sources[s].inserted :
          n <= received /\ (receiver.at # "idle" => n < received)
    /\ loop.at = "popped" => /\ sources[loop.source]._buf_list # <<>>
                             /\ loop.nalu = Head(sources[loop.source]._buf_list)

IInv == TypeOK /\ Owners /\ Polling /\ Queues

-----------------------------------------------------------------------------
\* What remains of a queue without its first element.
LEMMA QueueTail ==
  ASSUME NEW S, NEW q \in Seq(S), q # <<>>
  PROVE  /\ Head(q) \in S /\ Head(q) = q[1] /\ 1 \in DOMAIN q
         /\ Tail(q) \in Seq(S)
         /\ \A i \in DOMAIN Tail(q) : i + 1 \in DOMAIN q /\ Tail(q)[i] = q[i + 1]
         /\ ToSet(q) = {Head(q)} \cup ToSet(Tail(q))
<1>1. Len(q) \in Nat /\ Len(q) # 0 /\ DOMAIN q = 1 .. Len(q)
  OBVIOUS
<1>2. /\ Head(q) \in S /\ Head(q) = q[1] /\ 1 \in DOMAIN q
      /\ Tail(q) \in Seq(S) /\ Len(Tail(q)) = Len(q) - 1
      /\ DOMAIN Tail(q) = 1 .. Len(q) - 1
      /\ \A i \in 1 .. Len(q) - 1 : Tail(q)[i] = q[i + 1]
  BY <1>1
<1>3. ASSUME NEW i \in DOMAIN Tail(q)
      PROVE  i + 1 \in DOMAIN q /\ Tail(q)[i] = q[i + 1]
  BY <1>1, <1>2
<1>4. ASSUME NEW i \in DOMAIN q, i # 1
      PROVE  i - 1 \in DOMAIN Tail(q) /\ q[i] = Tail(q)[i - 1]
  <2>1. i - 1 \in DOMAIN Tail(q) /\ (i - 1) + 1 = i
    BY <1>1, <1>2, <1>4
  <2> QED
    BY <1>3, <2>1
<1>5. ToSet(q) \subseteq {Head(q)} \cup ToSet(Tail(q))
  BY <1>2, <1>4 DEF ToSet
<1>6. {Head(q)} \cup ToSet(Tail(q)) \subseteq ToSet(q)
  BY <1>2, <1>3 DEF ToSet
<1> QED
  BY <1>2, <1>3, <1>5, <1>6

\* A queue to which an element was appended.
LEMMA Appended ==
  ASSUME NEW S, NEW q \in Seq(S), NEW e \in S
  PROVE  /\ Append(q, e) \in Seq(S) /\ Append(q, e) # <<>>
         /\ \A i \in DOMAIN Append(q, e) :
               \/ i \in DOMAIN q /\ Append(q, e)[i] = q[i]
               \/ i = Len(q) + 1 /\ Append(q, e)[i] = e
         /\ ToSet(Append(q, e)) = ToSet(q) \cup {e}
<1>1. /\ Append(q, e) \in Seq(S) /\ Len(Append(q, e)) = Len(q) + 1
      /\ DOMAIN Append(q, e) = 1 .. Len(q) + 1 /\ DOMAIN q = 1 .. Len(q)
      /\ \A i \in 1 .. Len(q) : Append(q, e)[i] = q[i]
      /\ Append(q, e)[Len(q) + 1] = e /\ Len(q) \in Nat
  OBVIOUS
<1>2. \A i \in DOMAIN Append(q, e) :
         \/ i \in DOMAIN q /\ Append(q, e)[i] = q[i]
         \/ i = Len(q) + 1 /\ Append(q, e)[i] = e
  BY <1>1
<1>3. ToSet(Append(q, e)) \subseteq ToSet(q) \cup {e}
  BY <1>2 DEF ToSet
<1>4. ToSet(q) \cup {e} \subseteq ToSet(Append(q, e))
  BY <1>1 DEF ToSet
<1> QED
  BY <1>1, <1>2, <1>3, <1>4

-----------------------------------------------------------------------------
LEMMA Initially == Init => IInv
BY SourceAssumption
DEF Init, IInv, TypeOK, Owners, Polling, Queues, NoneLostOnTheWay, Idle, Point, Holding, Live,
    Sources, Nalus, InsertHolds, PopHolds

LEMMA NaluReceivedKeeps ==
  ASSUME IInv, NaluReceived
  PROVE  IInv'
<1> USE SourceAssumption DEF IInv
<1>1. TypeOK'
  BY DEF NaluReceived, TypeOK, Idle, Point, Holding, Live, Sources
<1>2. Owners'
  BY DEF NaluReceived, TypeOK, Owners, Idle, Point, Holding, Live, InsertHolds, PopHolds
<1>3. Polling'
  BY DEF NaluReceived, Polling, Live
<1>4. NoneLostOnTheWay'
  BY SMTT(30) DEF NaluReceived, Queues, NoneLostOnTheWay, Held, Waiting, PopHolds, Live
<1>5. \A s \in Live' : \A n \in sources'[s].inserted :
         n <= received' /\ n < received'
  BY DEF NaluReceived, TypeOK, SourceRecords, Queues, Live, Nalus
<1>6. received' > 0
  BY DEF NaluReceived, TypeOK
<1> QED
  BY <1>1, <1>2, <1>3, <1>4, <1>5, <1>6 DEF NaluReceived, Queues

LEMMA CallBackKeeps ==
  ASSUME IInv, CallBack \/ LockQueue
  PROVE  IInv'
<1> USE SourceAssumption DEF IInv, CallBack, LockQueue
<1>1. TypeOK'
  BY SMTT(30) DEF TypeOK, Idle, Point, Holding, Live, Sources
<1>2. Owners'
  BY DEF TypeOK, Owners, Idle, Point, Holding, Live, InsertHolds, PopHolds
<1>3. Polling'
  BY DEF Polling, Live
<1>4. NoneLostOnTheWay'
  BY SMTT(30) DEF Queues, NoneLostOnTheWay, Held, Waiting, PopHolds, Live
<1>5. receiver.at # "idle"
  OBVIOUS
<1> QED
  BY <1>1, <1>2, <1>3, <1>4, <1>5 DEF Queues, Live
\* The sources after an action that gives one of them another record.
LEMMA Updated ==
  ASSUME TypeOK, NEW s \in Live, NEW r, sources' = [sources EXCEPT ![s] = r]
  PROVE  /\ Live' = Live /\ sources'[s] = r
         /\ \A t \in Live : t # s => sources'[t] = sources[t]
BY DEF Live

\* What TypeOK says of sources is that they are such records.
LEMMA RecordsOfSources ==
  ASSUME TypeOK
  PROVE  \A s \in Live : sources[s] \in SourceRecords /\ s \in Sources /\ s # NULL
<1> SUFFICES ASSUME NEW s \in Live
             PROVE  sources[s] \in SourceRecords /\ s \in Sources /\ s # NULL
  OBVIOUS
<1>1. s \in 1 .. created /\ created \in 0 .. MaxSources /\ sources[s] \in SourceRecords
  BY DEF TypeOK
<1> QED
  BY <1>1, SourceAssumption DEF Sources

LEMMA InsertKeeps ==
  ASSUME IInv, Insert, NEW s, s = receiver.source
  PROVE  IInv'
<1> USE SourceAssumption DEF IInv
<1> DEFINE q == sources[s]._buf_list
           full == Len(q) >= _max_nalu_queue
           p == IF full THEN Tail(q) ELSE q
           r == [_started |-> sources[s]._started,
                 _buf_list |-> Append(p, received),
                 awaiting |-> sources[s].awaiting,
                 inserted |-> sources[s].inserted \cup {received},
                 given |-> sources[s].given,
                 discarded |-> IF full THEN sources[s].discarded \cup {Head(q)}
                               ELSE sources[s].discarded]
<1>1. /\ s \in Live /\ s \in Sources /\ ~PopHolds(s) /\ received \in Nalus
      /\ q \in Seq(Nalus) /\ receiver.at = "insert"
  <2>1. s \in Live /\ ~PopHolds(s) /\ receiver.at = "insert"
    BY DEF Insert, Owners, InsertHolds
  <2>2. received \in Nalus
    BY <2>1 DEF TypeOK, Queues, Nalus
  <2> QED
    BY <2>1, <2>2, RecordsOfSources DEF SourceRecords
<1>2. sources' = [sources EXCEPT ![s] = r] /\ receiver' = Idle
      /\ UNCHANGED <<created, polls, callback, received, loop>>
  <2>1. sources[s] \in [_started : BOOLEAN, _buf_list : Seq(Nalus),
                       awaiting : BOOLEAN, inserted : SUBSET Nalus,
                       given : SUBSET Nalus, discarded : SUBSET Nalus]
    BY <1>1 DEF TypeOK, SourceRecords
  <2>2. r = [sources[s] EXCEPT !._buf_list = Append(p, received),
                              !.inserted = @ \cup {received},
                              !.discarded = IF full THEN @ \cup {Head(q)} ELSE @]
    <3> DEFINE new == Append(p, received)
               more == sources[s].inserted \cup {received}
               out == IF full THEN sources[s].discarded \cup {Head(q)}
                      ELSE sources[s].discarded
               y == [sources[s] EXCEPT !._buf_list = new, !.inserted = more,
                                       !.discarded = out]
    <3> HIDE DEF new, more, out
    <3>1. y \in [_started : {sources[s]._started}, _buf_list : {new},
                awaiting : {sources[s].awaiting}, inserted : {more},
                given : {sources[s].given}, discarded : {out}]
      BY <2>1
    <3> HIDE DEF y
    <3>2. y = [_started |-> sources[s]._started, _buf_list |-> new,
               awaiting |-> sources[s].awaiting, inserted |-> more,
               given |-> sources[s].given, discarded |-> out]
      BY <3>1
    <3> QED
      BY <3>2 DEF y, new, more, out
  <2> HIDE DEF r
  <2>3. sources' = [sources EXCEPT ![s] = r]
    BY <2>2 DEF Insert
  <2> QED
    BY <2>3 DEF Insert
<1>3. /\ full => q # <<>>
      /\ p \in Seq(Nalus)
      /\ \A i, j \in DOMAIN p : i < j => p[i] < p[j]
      /\ ToSet(p) \subseteq ToSet(q)
      /\ ToSet(q) = IF full THEN ToSet(p) \cup {Head(q)} ELSE ToSet(p)
      /\ full => Head(q) \in Nalus /\ Head(q) \in ToSet(q)
      /\ full => \A late \in ToSet(p) : Head(q) < late
  <2>1. \A i, j \in DOMAIN q : i < j => q[i] < q[j]
    BY <1>1 DEF Queues, NoneLostOnTheWay, Waiting
  <2>2. full => q # <<>>
    BY <1>1
  <2>3. CASE ~full
    BY <1>1, <2>1, <2>3
  <2>4. CASE full
    <3>1. /\ Tail(q) \in Seq(Nalus) /\ Head(q) \in Nalus
          /\ \A i \in DOMAIN Tail(q) : i + 1 \in DOMAIN q /\ Tail(q)[i] = q[i + 1]
          /\ ToSet(q) = {Head(q)} \cup ToSet(Tail(q))
      BY <1>1, <2>2, <2>4, QueueTail
    <3>2. ASSUME NEW i \in DOMAIN Tail(q), NEW j \in DOMAIN Tail(q), i < j
          PROVE  Tail(q)[i] < Tail(q)[j]
      <4>1. DOMAIN Tail(q) \subseteq Int
        BY <3>1
      <4>2. i + 1 < j + 1
        BY <3>2, <4>1
      <4> QED
        BY <2>1, <3>1, <4>2
    <3>3. ASSUME NEW i \in DOMAIN Tail(q)
          PROVE  Head(q) < Tail(q)[i]
      <4>1. /\ Head(q) = q[1] /\ 1 \in DOMAIN q /\ i + 1 \in DOMAIN q
            /\ Tail(q)[i] = q[i + 1] /\ 1 < i + 1
        BY <1>1, <2>2, <2>4, QueueTail
      <4> QED
        BY <2>1, <4>1
    <3>4. \A late \in ToSet(Tail(q)) : Head(q) < late
      BY <3>3 DEF ToSet
    <3> QED
      BY <2>2, <2>4, <3>1, <3>2, <3>4
  <2> QED
    BY <2>3, <2>4
<1>4. /\ Append(p, received) \in Seq(Nalus)
      /\ \A i \in DOMAIN Append(p, received) :
            \/ i \in DOMAIN p /\ Append(p, received)[i] = p[i]
            \/ i = Len(p) + 1 /\ Append(p, received)[i] = received
      /\ ToSet(Append(p, received)) = ToSet(p) \cup {received}
  <2> HIDE DEF p
  <2> QED
    BY SMTT(30), <1>1, <1>3, Appended
<1>5. r \in SourceRecords
  BY <1>1, <1>3, <1>4 DEF TypeOK, SourceRecords
<1>6. /\ Live' = Live /\ sources'[s] = r
      /\ \A t \in Live : t # s => sources'[t] = sources[t]
  <2> HIDE DEF r
  <2> QED
    BY <1>1, <1>2, Updated
<1>7. TypeOK'
  <2> HIDE DEF r
  <2> QED
    BY <1>2, <1>5, <1>6 DEF TypeOK, Idle, Point, Holding
<1>8. Owners'
  BY SMTT(30), <1>2, <1>6 DEF Owners, Idle, Point, Holding, InsertHolds, PopHolds
<1>9. Polling'
  <2>1. \A t \in Live : /\ sources'[t]._started = sources[t]._started
                        /\ sources'[t].awaiting = sources[t].awaiting
    BY <1>6
  <2> QED
    BY <1>2, <1>6, <2>1 DEF Polling, Owners
<1>10. \A n \in sources[s].inserted : n < received
  BY <1>1 DEF Queues
<1>11. NoneLostOnTheWay'
  <2> SUFFICES ASSUME NEW t \in Live
               PROVE  /\ sources'[t].inserted =
                             (sources'[t].given \cup Held(t)')
                             \cup sources'[t].discarded \cup ToSet(Waiting(t)')
                      /\ (sources'[t].given \cup Held(t)') \cap sources'[t].discarded = {}
                      /\ \A i, j \in DOMAIN Waiting(t)' :
                            i < j => Waiting(t)'[i] < Waiting(t)'[j]
                      /\ \A early \in (sources'[t].given \cup Held(t)')
                                       \cup sources'[t].discarded,
                            late \in ToSet(Waiting(t)') : early < late
    BY <1>6 DEF NoneLostOnTheWay
  <2>1. Held(t)' = Held(t)
    BY <1>2 DEF Held
  <2>2. CASE t # s
    <3>1. Waiting(t)' = Waiting(t) /\ sources'[t] = sources[t]
      BY <1>2, <1>6, <2>2 DEF Waiting, PopHolds
    <3> QED
      BY <2>1, <3>1 DEF Queues, NoneLostOnTheWay
  <2>3. CASE t = s
    <3> DEFINE gone == sources[s].given \cup Held(s)
    <3>1. Waiting(s) = q /\ Waiting(s)' = Append(p, received)
      <4>1. ~PopHolds(s) /\ ~PopHolds(s)'
        BY <1>1, <1>2 DEF PopHolds
      <4>2. sources'[s]._buf_list = Append(p, received)
        <5> HIDE DEF p, full, q
        <5> QED
          BY <1>6
      <4> QED
        BY <4>1, <4>2 DEF Waiting
    <3>2. /\ sources[s].inserted = gone \cup sources[s].discarded \cup ToSet(q)
          /\ gone \cap sources[s].discarded = {}
          /\ \A early \in gone \cup sources[s].discarded, late \in ToSet(q) :
                early < late
      BY <1>1, <3>1 DEF Queues, NoneLostOnTheWay
    <3>3. /\ sources'[s].inserted = sources[s].inserted \cup {received}
          /\ sources'[s].given = sources[s].given
          /\ sources'[s].discarded = IF full THEN sources[s].discarded \cup {Head(q)}
                                     ELSE sources[s].discarded
      BY <1>6
    <3> HIDE DEF r, p, full, q
    <3>4. full => Head(q) \notin gone
      <4>1. full => ~ (Head(q) < Head(q))
        BY <1>3 DEF Nalus
      <4> QED
        BY <1>3, <3>2, <4>1
    <3>5. \A i, j \in DOMAIN Append(p, received) :
             i < j => Append(p, received)[i] < Append(p, received)[j]
      <4>1. \A i \in DOMAIN p : i \in 1 .. Len(p) /\ p[i] \in ToSet(p)
        BY <1>3 DEF ToSet
      <4>2. \A n \in ToSet(p) : n < received
        BY <1>3, <1>10, <3>2
      <4>3. Len(p) \in Nat
        BY <1>3
      <4> QED
        BY <1>3, <1>4, <4>1, <4>2, <4>3
    <3>6. \A early \in gone \cup sources[s].discarded,
             late \in ToSet(p) \cup {received} : early < late
      BY <1>3, <1>10, <3>2
    <3>7. full => \A late \in ToSet(p) \cup {received} : Head(q) < late
      BY <1>3, <1>10, <3>2
    <3> QED
      BY <1>3, <1>4, <2>1, <2>3, <3>1, <3>2, <3>3, <3>4, <3>5, <3>6,
         <3>7
  <2> QED
    BY <2>2, <2>3
<1>12. \A t \in Live : \A n \in sources'[t].inserted : n <= received
  <2>1. sources'[s].inserted = sources[s].inserted \cup {received}
    BY <1>6
  <2>2. received <= received
    BY <1>1 DEF Nalus
  <2> HIDE DEF r
  <2> QED
    BY <1>6, <2>1, <2>2 DEF Queues
<1>13. loop'.at = "popped" => /\ loop.source # s /\ loop.source \in Live
                             /\ sources'[loop.source] = sources[loop.source]
  BY <1>1, <1>2, <1>6 DEF Owners, PopHolds
<1>14. Queues'
  <2>1. receiver'.at = "idle"
    BY <1>2 DEF Idle, Point, Holding
  <2> HIDE DEF r, p, full, q
  <2> QED
    BY <1>2, <1>6, <1>11, <1>12, <1>13, <2>1 DEF Queues
<1> QED
  BY <1>7, <1>8, <1>9, <1>14

-----------------------------------------------------------------------------
\* Actions that leave all queues as they are, with no nalu in between.
SameQueues ==
    /\ Live' = Live
    /\ \A t \in Live : /\ sources'[t]._buf_list = sources[t]._buf_list
                      /\ sources'[t].inserted = sources[t].inserted
                      /\ sources'[t].given = sources[t].given
                      /\ sources'[t].discarded = sources[t].discarded

LEMMA SameQueuesKeep ==
  ASSUME IInv, SameQueues, UNCHANGED <<received, receiver>>,
         loop.nalu = NULL, loop'.nalu = NULL, loop'.at # "popped"
  PROVE  Queues'
<1>1. loop.at # "popped"
  BY DEF IInv, Owners
<1>2. \A t \in Live : Held(t)' = Held(t) /\ Waiting(t)' = Waiting(t)
  BY <1>1 DEF Held, Waiting, PopHolds, SameQueues
<1>3. NoneLostOnTheWay'
  BY <1>2 DEF SameQueues, IInv, Queues, NoneLostOnTheWay
<1> QED
  BY <1>3 DEF SameQueues, IInv, Queues

\* The flags of one source change, and nothing else of it.
LEMMA FlagsChanged ==
  ASSUME IInv, NEW s \in Live, NEW r \in SourceRecords,
         sources' = [sources EXCEPT ![s] = r],
         r._buf_list = sources[s]._buf_list, r.inserted = sources[s].inserted,
         r.given = sources[s].given, r.discarded = sources[s].discarded
  PROVE  /\ SameQueues /\ sources'[s] = r
         /\ \A t \in Live : sources'[t] \in SourceRecords
         /\ \A t \in Live : t # s => sources'[t] = sources[t]
<1>1. /\ Live' = Live /\ sources'[s] = r
      /\ \A t \in Live : t # s => sources'[t] = sources[t]
  BY Updated DEF IInv
<1>2. \A t \in Live : sources[t] \in SourceRecords
  BY DEF IInv, TypeOK, SourceRecords
<1> QED
  BY <1>1, <1>2 DEF SameQueues

LEMMA StartKeeps ==
  ASSUME IInv, Start, NEW s, s = loop.source
  PROVE  IInv'
<1> USE SourceAssumption
<1> DEFINE r == [sources[s] EXCEPT !._started = TRUE]
<1>1. s \in Live /\ loop.at = "start" /\ loop.nalu = NULL /\ loop' = Idle
      /\ sources[s] \in SourceRecords
  BY RecordsOfSources DEF IInv, Owners, Start
<1>2. /\ r \in SourceRecords /\ r._started = TRUE /\ r.awaiting = sources[s].awaiting
      /\ r._buf_list = sources[s]._buf_list /\ r.inserted = sources[s].inserted
      /\ r.given = sources[s].given /\ r.discarded = sources[s].discarded
  BY <1>1 DEF SourceRecords
<1>3. sources' = [sources EXCEPT ![s] = r]
  BY DEF Start
<1> HIDE DEF r
<1>4. /\ SameQueues /\ sources'[s] = r
      /\ \A t \in Live : sources'[t] \in SourceRecords
      /\ \A t \in Live : t # s => sources'[t] = sources[t]
  BY <1>1, <1>2, <1>3, FlagsChanged
<1>5. TypeOK'
  <2>1. UNCHANGED <<created, polls, callback, received, receiver>>
    BY DEF Start
  <2> QED
    BY <1>1, <1>4, <2>1 DEF IInv, TypeOK, SameQueues, Idle, Point, Holding
<1>6. Owners'
  BY <1>1, <1>4 DEF IInv, Owners, SameQueues, Start, Idle, Point, Holding,
                    InsertHolds, PopHolds
<1>7. Polling'
  <2>1. polls[s] = 0
    BY <1>1 DEF IInv, Polling
  <2> QED
    BY <1>1, <1>4, <2>1 DEF IInv, Polling, SameQueues, Start, Idle, Point, Holding
<1>8. Queues'
  BY <1>1, <1>4, SameQueuesKeep DEF Start, Idle, Point, Holding
<1> QED
  BY <1>5, <1>6, <1>7, <1>8 DEF IInv

LEMMA GetNextFrameKeeps ==
  ASSUME IInv, NEW s \in Live, GetNextFrame(s)
  PROVE  IInv'
<1> USE SourceAssumption
<1> DEFINE r == [sources[s] EXCEPT !.awaiting = TRUE]
<1>1. /\ loop.at = "idle" /\ loop.nalu = NULL /\ ~sources[s].awaiting
      /\ sources[s] \in SourceRecords /\ s \in Sources /\ s # NULL
  BY RecordsOfSources DEF IInv, Owners, GetNextFrame, Idle, Point, Holding
<1>2. /\ r \in SourceRecords /\ r._started = sources[s]._started /\ r.awaiting = TRUE
      /\ r._buf_list = sources[s]._buf_list /\ r.inserted = sources[s].inserted
      /\ r.given = sources[s].given /\ r.discarded = sources[s].discarded
  BY <1>1 DEF SourceRecords
<1>3. sources' = [sources EXCEPT ![s] = r]
  BY DEF GetNextFrame
<1> HIDE DEF r
<1>4. /\ SameQueues /\ sources'[s] = r
      /\ \A t \in Live : sources'[t] \in SourceRecords
      /\ \A t \in Live : t # s => sources'[t] = sources[t]
  BY <1>1, <1>2, <1>3, FlagsChanged
<1>5. loop' \in {Idle, Point("pop", s)} /\ (loop' # Idle => sources[s]._started)
  BY DEF GetNextFrame, GetNextFrame1
<1>6. TypeOK'
  <2>1. UNCHANGED <<created, polls, callback, received, receiver>>
    BY DEF GetNextFrame
  <2> QED
    BY <1>1, <1>4, <1>5, <2>1 DEF IInv, TypeOK, SameQueues, Idle, Point, Holding
<1>7. Owners'
  BY <1>1, <1>4, <1>5 DEF IInv, Owners, SameQueues, GetNextFrame, Idle, Point, Holding,
                          InsertHolds, PopHolds
<1>8. Polling'
  <2>1. sources[s]._started => ~ (polls[s] > 0)
    BY <1>1 DEF IInv, Polling
  <2>2. polls[s] \in Nat
    BY <1>1 DEF IInv, TypeOK
  <2>3. polls' = polls
    BY DEF GetNextFrame
  <2> QED
    BY <1>2, <1>4, <1>5, <2>1, <2>2, <2>3
    DEF IInv, Polling, SameQueues, Idle, Point, Holding
<1>9. Queues'
  BY <1>1, <1>4, <1>5, SameQueuesKeep DEF GetNextFrame, Idle, Point, Holding
<1> QED
  BY <1>6, <1>7, <1>8, <1>9 DEF IInv

LEMMA StopKeeps ==
  ASSUME IInv, NEW s \in Live, StopGettingFrames(s)
  PROVE  IInv'
<1> USE SourceAssumption
<1> DEFINE r == [sources[s] EXCEPT !.awaiting = FALSE, !._started = FALSE]
<1>1. /\ loop.at = "idle" /\ loop.nalu = NULL
      /\ sources[s] \in SourceRecords /\ s \in Sources /\ s # NULL
  BY RecordsOfSources DEF IInv, Owners, StopGettingFrames, Idle, Point, Holding
<1>2. /\ r \in SourceRecords /\ r._started = FALSE
      /\ r._buf_list = sources[s]._buf_list /\ r.inserted = sources[s].inserted
      /\ r.given = sources[s].given /\ r.discarded = sources[s].discarded
  BY <1>1 DEF SourceRecords
<1>3. sources' = [sources EXCEPT ![s] = r]
  BY DEF StopGettingFrames
<1> HIDE DEF r
<1>4. /\ SameQueues /\ sources'[s] = r
      /\ \A t \in Live : sources'[t] \in SourceRecords
      /\ \A t \in Live : t # s => sources'[t] = sources[t]
  BY <1>1, <1>2, <1>3, FlagsChanged
<1>5. UNCHANGED <<created, polls, callback, received, receiver, loop>>
  BY DEF StopGettingFrames
<1>6. TypeOK'
  BY <1>4, <1>5 DEF IInv, TypeOK, SameQueues
<1>7. Owners'
  BY <1>1, <1>4, <1>5 DEF IInv, Owners, SameQueues, InsertHolds, PopHolds
<1>8. Polling'
  BY <1>1, <1>2, <1>4, <1>5 DEF IInv, Polling, SameQueues
<1>9. Queues'
  BY <1>1, <1>4, <1>5, SameQueuesKeep
<1> QED
  BY <1>6, <1>7, <1>8, <1>9 DEF IInv

\* A new source has a number that no source had before.
LEMMA CreateKeeps ==
  ASSUME IInv, Create, NEW c, c = created + 1
  PROVE  IInv'
<1> USE SourceAssumption
<1>1. /\ c \in Sources /\ c \notin Live /\ c # NULL /\ created' = c /\ polls[c] = 0
      /\ created \in Nat
      /\ loop.at = "idle" /\ loop.nalu = NULL
      /\ loop' = Point("register", c)
      /\ UNCHANGED <<polls, callback, received, receiver>>
  <2>1. /\ created \in 0 .. MaxSources /\ created < MaxSources
        /\ Live \subseteq 1 .. created /\ polls \in [Sources -> Nat]
    BY DEF Create, IInv, TypeOK
  <2>2. c \in Sources /\ c \notin Live /\ c # NULL
    BY <2>1 DEF Sources
  <2>3. polls[c] = 0
    BY <2>1, <2>2 DEF IInv, Polling
  <2> QED
    BY <2>1, <2>2, <2>3 DEF Create, IInv, Owners, Idle, Point, Holding
<1>2. /\ Live' = Live \cup {c} /\ sources'[c] = NewSource
      /\ \A t \in Live : sources'[t] = sources[t]
  BY <1>1 DEF Create, Live
<1>3. NewSource \in SourceRecords
  BY DEF NewSource, SourceRecords
<1>4. TypeOK'
  BY <1>1, <1>2, <1>3 DEF IInv, TypeOK, Point, Holding, Sources
<1>5. Owners'
  BY <1>1, <1>2 DEF IInv, Owners, Point, Holding, InsertHolds, PopHolds
<1>6. Polling'
  BY <1>1, <1>2 DEF IInv, Polling, Point, Holding
<1>7. NoneLostOnTheWay'
  <2>1. \A t \in Live : Held(t)' = Held(t) /\ Waiting(t)' = Waiting(t)
    BY <1>1, <1>2 DEF Held, Waiting, PopHolds, Point, Holding
  <2>2. Held(c)' = {} /\ Waiting(c)' = <<>> /\ ToSet(<<>>) = {} /\ DOMAIN <<>> = {}
    BY <1>1, <1>2 DEF Held, Waiting, PopHolds, Point, Holding, NewSource, ToSet
  <2>3. \A t \in Live : t # c
    BY <1>1
  <2> QED
    BY <1>2, <2>1, <2>2, <2>3 DEF IInv, Queues, NoneLostOnTheWay, NewSource
<1>8. Queues'
  BY <1>1, <1>2, <1>7 DEF IInv, Queues, NewSource, Point, Holding
<1> QED
  BY <1>4, <1>5, <1>6, <1>8 DEF IInv

\* The event loop goes on to another point; no source changes.
LEMMA RegisterKeeps ==
  ASSUME IInv, Register
  PROVE  IInv'
<1> USE SourceAssumption
<1>1. /\ loop.at = "register" /\ loop.nalu = NULL /\ loop.source \in Live
      /\ loop' = Point("start", loop.source) /\ callback' = loop.source
      /\ loop.source \in Sources
      /\ UNCHANGED <<created, sources, polls, received, receiver>>
  BY RecordsOfSources DEF Register, IInv, Owners
<1>2. SameQueues
  BY <1>1 DEF SameQueues, Live
<1>3. TypeOK'
  BY <1>1, <1>2 DEF IInv, TypeOK, SameQueues, Point, Holding
<1>4. Owners'
  BY <1>1, <1>2 DEF IInv, Owners, SameQueues, Point, Holding, InsertHolds, PopHolds
<1>5. Polling'
  BY <1>1, <1>2 DEF IInv, Polling, SameQueues, Point, Holding
<1>6. Queues'
  BY <1>1, <1>2, SameQueuesKeep DEF Point, Holding
<1> QED
  BY <1>3, <1>4, <1>5, <1>6 DEF IInv

LEMMA PollFiresKeeps ==
  ASSUME IInv, NEW s \in Sources, PollFires(s)
  PROVE  IInv'
<1> USE SourceAssumption
<1>1. /\ loop.at = "idle" /\ loop.nalu = NULL /\ s \in Live
      /\ polls[s] = 1 /\ (sources[s]._started => sources[s].awaiting) /\ s # NULL
      /\ UNCHANGED <<created, sources, callback, received, receiver>>
  BY DEF PollFires, IInv, Owners, Polling, Idle, Point, Holding, Sources
<1>2. loop' \in {Idle, Point("pop", s)} /\ (loop' # Idle => sources[s].awaiting)
  BY <1>1 DEF PollFires, GetNextFrame1
<1>3. polls' \in [Sources -> Nat] /\ polls' = [polls EXCEPT ![s] = 0]
  BY <1>1 DEF PollFires, IInv, TypeOK
<1>4. SameQueues
  BY <1>1 DEF SameQueues, Live
<1>5. TypeOK'
  BY <1>1, <1>2, <1>3, <1>4 DEF IInv, TypeOK, SameQueues, Idle, Point, Holding
<1>6. Owners'
  BY <1>1, <1>2, <1>4 DEF IInv, Owners, SameQueues, Idle, Point, Holding,
                          InsertHolds, PopHolds
<1>7. Polling'
  BY <1>1, <1>2, <1>3, <1>4 DEF IInv, TypeOK, Polling, SameQueues, Idle, Point, Holding
<1>8. Queues'
  BY <1>1, <1>2, <1>4, SameQueuesKeep DEF Idle, Point, Holding
<1> QED
  BY <1>5, <1>6, <1>7, <1>8 DEF IInv

LEMMA CloseKeeps ==
  ASSUME IInv, NEW s \in Live, Close(s)
  PROVE  IInv'
<1> USE SourceAssumption
<1>1. /\ loop.at = "idle" /\ loop.nalu = NULL /\ s \in Sources /\ s # NULL
      /\ loop' = Point("unregister", s)
      /\ UNCHANGED <<created, sources, polls, callback, received, receiver>>
  BY RecordsOfSources DEF Close, IInv, Owners, Idle, Point, Holding
<1>2. SameQueues
  BY <1>1 DEF SameQueues, Live
<1>3. TypeOK'
  BY <1>1, <1>2 DEF IInv, TypeOK, SameQueues, Point, Holding
<1>4. Owners'
  BY <1>1, <1>2 DEF IInv, Owners, SameQueues, Point, Holding, InsertHolds, PopHolds
<1>5. Polling'
  BY <1>1, <1>2 DEF IInv, Polling, SameQueues, Point, Holding
<1>6. Queues'
  BY <1>1, <1>2, SameQueuesKeep DEF Point, Holding
<1> QED
  BY <1>3, <1>4, <1>5, <1>6 DEF IInv

LEMMA UnregisterKeeps ==
  ASSUME IInv, Unregister
  PROVE  IInv'
<1> USE SourceAssumption
<1>1. /\ loop.at = "unregister" /\ loop.nalu = NULL /\ loop.source \in Live
      /\ loop' = Point("free", loop.source) /\ callback' = NULL
      /\ loop.source \in Sources /\ receiver.at = "idle"
      /\ UNCHANGED <<created, sources, polls, received, receiver>>
  BY RecordsOfSources DEF Unregister, _mutexHeld, IInv, Owners
<1>2. SameQueues
  BY <1>1 DEF SameQueues, Live
<1>3. TypeOK'
  BY <1>1, <1>2 DEF IInv, TypeOK, SameQueues, Point, Holding
<1>4. Owners'
  BY <1>1, <1>2 DEF IInv, Owners, SameQueues, Point, Holding, InsertHolds, PopHolds
<1>5. Polling'
  BY <1>1, <1>2 DEF IInv, Polling, SameQueues, Point, Holding
<1>6. Queues'
  BY <1>1, <1>2, SameQueuesKeep DEF Point, Holding
<1> QED
  BY <1>3, <1>4, <1>5, <1>6 DEF IInv

\* The source and the task that ~Medium() knows of go: there is no other task.
LEMMA FreeKeeps ==
  ASSUME IInv, Free, NEW s, s = loop.source
  PROVE  IInv'
<1> USE SourceAssumption
<1>1. /\ loop.at = "free" /\ loop.nalu = NULL /\ s \in Live /\ s \in Sources
      /\ loop' = Idle /\ callback = NULL /\ receiver.at = "idle"
      /\ receiver.source = NULL
      /\ UNCHANGED <<created, callback, received, receiver>>
  BY RecordsOfSources DEF Free, IInv, Owners
<1>2. /\ Live' = Live \ {s}
      /\ \A t \in Live \ {s} : sources'[t] = sources[t]
  BY DEF Free, Restrict, Live
<1>3. polls' \in [Sources -> Nat] /\ polls' = [polls EXCEPT ![s] = 0]
  <2>1. polls \in [Sources -> Nat] /\ (polls[s] > 0 => polls[s] = 1)
    BY <1>1 DEF IInv, TypeOK, Polling
  <2>2. polls[s] \in {0, 1} /\ (IF polls[s] = 0 THEN 0 ELSE polls[s] - 1) = 0
    BY <1>1, <2>1
  <2>3. polls' = [polls EXCEPT ![s] = IF polls[s] = 0 THEN 0 ELSE polls[s] - 1]
    BY DEF Free
  <2>4. polls' = [polls EXCEPT ![s] = 0]
    BY <2>2, <2>3
  <2>5. [polls EXCEPT ![s] = 0] \in [Sources -> Nat]
    BY <2>1
  <2> QED
    BY <2>4, <2>5
<1>4. TypeOK'
  BY <1>1, <1>2, <1>3 DEF IInv, TypeOK, Idle, Point, Holding
<1>5. Owners'
  BY <1>1, <1>2 DEF IInv, Owners, Idle, Point, Holding, InsertHolds, PopHolds
<1>6. Polling'
  BY <1>1, <1>2, <1>3 DEF IInv, TypeOK, Polling, Idle, Point, Holding
<1>7. NoneLostOnTheWay'
  <2>1. \A t \in Live \ {s} : Held(t)' = Held(t) /\ Waiting(t)' = Waiting(t)
    BY <1>1, <1>2 DEF Held, Waiting, PopHolds, Idle, Point, Holding
  <2> QED
    BY <1>2, <2>1 DEF IInv, Queues, NoneLostOnTheWay
<1>8. Queues'
  BY <1>1, <1>2, <1>7 DEF IInv, Queues, Idle, Point, Holding
<1> QED
  BY <1>4, <1>5, <1>6, <1>8 DEF IInv

LEMMA PopKeeps ==
  ASSUME IInv, Pop, NEW s, s = loop.source
  PROVE  IInv'
<1> USE SourceAssumption
<1> DEFINE q == sources[s]._buf_list
<1>1. /\ loop.at = "pop" /\ loop.nalu = NULL /\ s \in Live /\ s \in Sources /\ s # NULL
      /\ ~InsertHolds(s) /\ polls[s] = 0 /\ sources[s].awaiting
      /\ sources[s] \in SourceRecords
      /\ UNCHANGED <<created, sources, callback, received, receiver>>
  BY RecordsOfSources DEF Pop, IInv, Owners, Polling
<1>2. SameQueues
  BY <1>1 DEF SameQueues, Live
<1>3. CASE q = <<>>
  <2>1. loop' = Idle /\ polls' = [polls EXCEPT ![s] = 1] /\ polls' \in [Sources -> Nat]
    BY SMTT(30), <1>1, <1>3 DEF Pop, IInv, TypeOK
  <2>2. TypeOK'
    BY <1>1, <1>2, <2>1 DEF IInv, TypeOK, SameQueues, Idle, Point, Holding
  <2>3. Owners'
    BY <1>1, <1>2, <2>1 DEF IInv, Owners, SameQueues, Idle, Point, Holding,
                            InsertHolds, PopHolds
  <2>4. Polling'
    BY <1>1, <1>2, <2>1 DEF IInv, TypeOK, Polling, SameQueues, Idle, Point, Holding
  <2>5. Queues'
    BY <1>1, <1>2, <2>1, SameQueuesKeep DEF Idle, Point, Holding
  <2> QED
    BY <2>2, <2>3, <2>4, <2>5 DEF IInv
<1>4. CASE q # <<>>
  <2>1. loop' = Holding("popped", s, Head(q)) /\ polls' = polls
    BY <1>4 DEF Pop
  <2>2. q \in Seq(Nalus)
    BY <1>1 DEF SourceRecords
  <2>3. /\ Head(q) \in Nalus /\ Head(q) = q[1] /\ 1 \in DOMAIN q
        /\ Tail(q) \in Seq(Nalus)
        /\ \A i \in DOMAIN Tail(q) : i + 1 \in DOMAIN q /\ Tail(q)[i] = q[i + 1]
        /\ ToSet(q) = {Head(q)} \cup ToSet(Tail(q))
    BY <1>4, <2>2, QueueTail
  <2>4. TypeOK'
    BY <1>1, <1>2, <2>1, <2>3 DEF IInv, TypeOK, SameQueues, Holding
  <2>5. Head(q) # NULL
    BY <2>3 DEF Nalus
  <2>6. Owners'
    BY <1>1, <1>2, <2>1, <2>5 DEF IInv, Owners, SameQueues, Holding,
                                  InsertHolds, PopHolds
  <2>7. Polling'
    BY <1>1, <1>2, <2>1 DEF IInv, Polling, SameQueues, Holding
  <2>8. \A t \in Live : t # s => Held(t)' = Held(t) /\ Waiting(t)' = Waiting(t)
    BY <1>1, <2>1 DEF Held, Waiting, PopHolds, Holding
  <2>9. /\ Held(s) = {} /\ Waiting(s) = q
        /\ Held(s)' = {Head(q)} /\ Waiting(s)' = Tail(q)
    BY <1>1, <2>1, <2>5 DEF Held, Waiting, PopHolds, Holding
  <2>10. NoneLostOnTheWay'
    <3> DEFINE gone == sources[s].given
    <3>1. /\ sources[s].inserted = gone \cup sources[s].discarded \cup ToSet(q)
          /\ gone \cap sources[s].discarded = {}
          /\ \A i, j \in DOMAIN q : i < j => q[i] < q[j]
          /\ \A early \in gone \cup sources[s].discarded, late \in ToSet(q) :
                early < late
      BY <1>1, <2>9 DEF IInv, Queues, NoneLostOnTheWay
    <3>2. Head(q) \notin sources[s].discarded
      <4>1. ~ (Head(q) < Head(q)) /\ Head(q) \in ToSet(q)
        BY <2>3 DEF Nalus
      <4> QED
        BY <3>1, <4>1
    <3>3. \A i \in DOMAIN Tail(q) : Head(q) < Tail(q)[i]
      <4>1. \A i \in DOMAIN Tail(q) : 1 < i + 1
        BY <2>3
      <4> QED
        BY <2>3, <3>1, <4>1
    <3>4. \A i, j \in DOMAIN Tail(q) : i < j => Tail(q)[i] < Tail(q)[j]
      <4>1. \A i, j \in DOMAIN Tail(q) : i < j => i + 1 < j + 1
        BY <2>3
      <4> QED
        BY <2>3, <3>1, <4>1
    <3>5. \A late \in ToSet(Tail(q)) : Head(q) < late
      BY <3>3 DEF ToSet
    <3>6. /\ sources[s].inserted =
                 (gone \cup {Head(q)}) \cup sources[s].discarded \cup ToSet(Tail(q))
          /\ (gone \cup {Head(q)}) \cap sources[s].discarded = {}
          /\ \A early \in (gone \cup {Head(q)}) \cup sources[s].discarded,
                late \in ToSet(Tail(q)) : early < late
      BY <2>3, <3>1, <3>2, <3>5
    <3>7. \A t \in Live : sources'[t] = sources[t]
      BY <1>1
    <3> SUFFICES ASSUME NEW t \in Live
                 PROVE  /\ sources[t].inserted =
                               (sources[t].given \cup Held(t)')
                               \cup sources[t].discarded \cup ToSet(Waiting(t)')
                        /\ (sources[t].given \cup Held(t)') \cap sources[t].discarded = {}
                        /\ \A i, j \in DOMAIN Waiting(t)' :
                              i < j => Waiting(t)'[i] < Waiting(t)'[j]
                        /\ \A early \in (sources[t].given \cup Held(t)')
                                         \cup sources[t].discarded,
                              late \in ToSet(Waiting(t)') : early < late
      BY <1>2, <3>7 DEF SameQueues, NoneLostOnTheWay
    <3>8. CASE t # s
      <4>1. Held(t)' = Held(t) /\ Waiting(t)' = Waiting(t)
        BY <2>8, <3>8
      <4> QED
        BY <4>1 DEF IInv, Queues, NoneLostOnTheWay
    <3>9. CASE t = s
      BY <2>9, <3>4, <3>6, <3>9
    <3> QED
      BY <3>8, <3>9
  <2>11. Queues'
    BY <1>1, <1>2, <2>1, <2>10, <1>4 DEF SameQueues, IInv, Queues, Holding
  <2> QED
    BY <2>4, <2>6, <2>7, <2>11 DEF IInv
<1> QED
  BY <1>3, <1>4

LEMMA PopFrontKeeps ==
  ASSUME IInv, PopFront, NEW s, s = loop.source
  PROVE  IInv'
<1> USE SourceAssumption
<1> DEFINE q == sources[s]._buf_list
           r == [sources[s] EXCEPT !._buf_list = Tail(q)]
<1>1. /\ loop.at = "popped" /\ s \in Live /\ s \in Sources /\ s # NULL
      /\ ~InsertHolds(s) /\ polls[s] = 0 /\ sources[s].awaiting
      /\ sources[s] \in SourceRecords /\ q # <<>>
      /\ loop.nalu # NULL /\ loop.nalu \in Nalus
      /\ loop' = Holding("deliver", s, loop.nalu)
      /\ UNCHANGED <<created, polls, callback, received, receiver>>
  <2>1. /\ loop.at = "popped" /\ s \in Live /\ loop.nalu # NULL /\ q # <<>>
        /\ polls[s] = 0 /\ sources[s].awaiting /\ ~InsertHolds(s)
    BY DEF PopFront, IInv, Owners, Polling, Queues, PopHolds
  <2>2. loop.nalu \in Nalus
    BY <2>1 DEF IInv, TypeOK
  <2> QED
    BY <2>1, <2>2, RecordsOfSources DEF PopFront, IInv
<1>2. Tail(q) \in Seq(Nalus)
  BY <1>1, QueueTail DEF SourceRecords
<1>3. /\ r \in SourceRecords /\ r._buf_list = Tail(q)
      /\ r._started = sources[s]._started /\ r.awaiting = sources[s].awaiting
      /\ r.inserted = sources[s].inserted
      /\ r.given = sources[s].given /\ r.discarded = sources[s].discarded
  BY <1>1, <1>2 DEF SourceRecords
<1>4. sources' = [sources EXCEPT ![s] = r]
  BY DEF PopFront
<1> HIDE DEF r
<1>5. /\ Live' = Live /\ sources'[s] = r
      /\ \A t \in Live : t # s => sources'[t] = sources[t]
  BY <1>1, <1>4, Updated DEF IInv
<1>6. TypeOK'
  BY <1>1, <1>3, <1>5 DEF IInv, TypeOK, Holding
<1>7. Owners'
  BY <1>1, <1>5 DEF IInv, Owners, Holding, InsertHolds, PopHolds
<1>8. Polling'
  BY <1>1, <1>3, <1>5 DEF IInv, Polling, Holding
<1>9. \A t \in Live : Held(t)' = Held(t) /\ Waiting(t)' = Waiting(t)
  BY <1>1, <1>3, <1>5 DEF Held, Waiting, PopHolds, Holding
<1>10. NoneLostOnTheWay'
  BY <1>3, <1>5, <1>9 DEF IInv, Queues, NoneLostOnTheWay
<1>11. Queues'
  BY <1>1, <1>3, <1>5, <1>10 DEF IInv, Queues, Holding
<1> QED
  BY <1>6, <1>7, <1>8, <1>11 DEF IInv

LEMMA DeliverKeeps ==
  ASSUME IInv, Deliver, NEW s, s = loop.source, NEW n, n = loop.nalu
  PROVE  IInv'
<1> USE SourceAssumption
<1> DEFINE r == [sources[s] EXCEPT !.awaiting = FALSE, !.given = @ \cup {n}]
<1>1. /\ loop.at = "deliver" /\ s \in Live /\ s \in Sources /\ s # NULL
      /\ polls[s] = 0 /\ sources[s] \in SourceRecords
      /\ n # NULL /\ n \in Nalus
      /\ loop' = Idle
      /\ UNCHANGED <<created, polls, callback, received, receiver>>
  <2>1. loop.at = "deliver" /\ s \in Live /\ n # NULL /\ polls[s] = 0
    BY DEF Deliver, IInv, Owners, Polling
  <2>2. n \in Nalus
    BY <2>1 DEF IInv, TypeOK
  <2> QED
    BY <2>1, <2>2, RecordsOfSources DEF Deliver, IInv
<1>2. /\ r \in SourceRecords /\ r._buf_list = sources[s]._buf_list
      /\ r._started = sources[s]._started /\ r.awaiting = FALSE
      /\ r.inserted = sources[s].inserted
      /\ r.given = sources[s].given \cup {n} /\ r.discarded = sources[s].discarded
  BY <1>1 DEF SourceRecords
<1>3. sources' = [sources EXCEPT ![s] = r]
  <2>1. r = [sources[loop.source] EXCEPT !.awaiting = FALSE,
                                         !.given = @ \cup {loop.nalu}]
    BY Zenon
  <2> HIDE DEF r
  <2>2. sources' = [sources EXCEPT ![loop.source] =
                       [sources[loop.source] EXCEPT !.awaiting = FALSE,
                                                    !.given = @ \cup {loop.nalu}]]
    BY DEF Deliver
  <2>3. sources' = [sources EXCEPT ![loop.source] = r]
    BY <2>1, <2>2, Zenon
  <2> QED
    BY <2>3
<1> HIDE DEF r
<1>4. /\ Live' = Live /\ sources'[s] = r
      /\ \A t \in Live : t # s => sources'[t] = sources[t]
  BY <1>1, <1>3, Updated DEF IInv
<1>5. TypeOK'
  BY <1>1, <1>2, <1>4 DEF IInv, TypeOK, Idle, Point, Holding
<1>6. Owners'
  BY <1>1, <1>4 DEF IInv, Owners, Idle, Point, Holding, InsertHolds, PopHolds
<1>7. Polling'
  BY <1>1, <1>2, <1>4 DEF IInv, Polling, Idle, Point, Holding
<1>8. NoneLostOnTheWay'
  <2>1. \A t \in Live : /\ Waiting(t)' = Waiting(t) /\ Held(t)' = {}
                        /\ Held(t) = IF t = s THEN {n} ELSE {}
    BY <1>1, <1>2, <1>4 DEF Held, Waiting, PopHolds, Idle, Point, Holding
  <2>2. \A t \in Live : /\ sources'[t].given \cup Held(t)' = sources[t].given \cup Held(t)
                        /\ sources'[t].inserted = sources[t].inserted
                        /\ sources'[t].discarded = sources[t].discarded
    BY <1>2, <1>4, <2>1
  <2> QED
    BY <1>4, <2>1, <2>2 DEF IInv, Queues, NoneLostOnTheWay
<1>9. Queues'
  BY <1>1, <1>2, <1>4, <1>8 DEF IInv, Queues, Idle, Point, Holding
<1> QED
  BY <1>5, <1>6, <1>7, <1>9 DEF IInv

-----------------------------------------------------------------------------
\* The invariant, from which the rest follows.
THEOREM Invariant == Spec => []IInv
<1>1. ASSUME IInv, [Next]_vars
      PROVE  IInv'
  <2>1. CASE NaluReceived
    BY <1>1, <2>1, NaluReceivedKeeps
  <2>2. CASE CallBack \/ LockQueue
    BY <1>1, <2>2, CallBackKeeps
  <2>3. CASE Insert
    BY <1>1, <2>3, InsertKeeps
  <2>4. CASE Register
    BY <1>1, <2>4, RegisterKeeps
  <2>5. CASE Start
    BY <1>1, <2>5, StartKeeps
  <2>6. CASE Pop
    BY <1>1, <2>6, PopKeeps
  <2>7. CASE PopFront
    BY <1>1, <2>7, PopFrontKeeps
  <2>8. CASE Deliver
    BY <1>1, <2>8, DeliverKeeps
  <2>9. CASE Unregister
    BY <1>1, <2>9, UnregisterKeeps
  <2>10. CASE Free
    BY <1>1, <2>10, FreeKeeps
  <2>11. CASE Create
    BY <1>1, <2>11, CreateKeeps
  <2>12. ASSUME NEW s \in Live, GetNextFrame(s) \/ StopGettingFrames(s) \/ Close(s)
         PROVE  IInv'
    BY <1>1, <2>12, GetNextFrameKeeps, StopKeeps, CloseKeeps
  <2>13. ASSUME NEW s \in Sources, PollFires(s)
         PROVE  IInv'
    BY <1>1, <2>13, PollFiresKeeps
  <2>14. CASE UNCHANGED vars
    <3>1. UNCHANGED <<created, sources, polls, callback, received, receiver, loop>>
      BY <2>14 DEF vars
    <3>2. TypeOK' /\ Owners' /\ Polling'
      BY <1>1, <3>1 DEF IInv, TypeOK, Owners, Polling, InsertHolds, PopHolds, Live
    <3>3. NoneLostOnTheWay'
      BY <1>1, <3>1 DEF IInv, Queues, NoneLostOnTheWay, Held, Waiting, PopHolds, Live
    <3> QED
      BY <1>1, <3>1, <3>2, <3>3 DEF IInv, Queues, Live
  <2> QED
    BY <1>1, <2>1, <2>2, <2>3, <2>4, <2>5, <2>6, <2>7, <2>8, <2>9, <2>10, <2>11,
       <2>12, <2>13, <2>14
    DEF Next, ReceiverStep, LoopStep, ClientStep
<1> QED
  BY Initially, <1>1, PTL DEF Spec

\* The variables have their types, wherever the two threads are.
THEOREM TypeCorrect == Spec => []TypeOK
<1>1. IInv => TypeOK
  BY DEF IInv
<1> QED
  BY Invariant, <1>1, PTL

\* Neither thread uses a source that was deleted: the receiver calls a source
\* under the lock that its destructor must take, and of its tasks there is
\* never more than the one that ~Medium() unschedules.  And a source writes to
\* the buffer of a reader only while the reader waits for it, although stopping
\* it leaves its task scheduled.
THEOREM SourcesOutliveTheirUse == Spec => []UsedWhileAlive
<1>1. IInv => UsedWhileAlive
  BY DEF IInv, Owners, Polling, UsedWhileAlive
<1> QED
  BY Invariant, <1>1, PTL

\* What was put into a queue by one thread comes out of it in the other, once
\* and in order, or gave way to something newer: the two steps of pop_nalu() and
\* those of insert_nalu() exclude each other.
THEOREM NothingIsLostBetweenThreads == Spec => []NoneLostOnTheWay
<1>1. IInv => NoneLostOnTheWay
  BY DEF IInv, Queues
<1> QED
  BY Invariant, <1>1, PTL

=============================================================================
