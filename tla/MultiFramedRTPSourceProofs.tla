--------------------- MODULE MultiFramedRTPSourceProofs ---------------------
(***************************************************************************)
(* Proofs about MultiFramedRTPSource, for a sender that changes its SSRC   *)
(* only while no packet waits: the descriptor that is kept has one holder, *)
(* the list is in the sender's order, and the client gets whole frames.    *)
(***************************************************************************)
EXTENDS MultiFramedRTPSource, SequenceTheorems, FiniteSetTheorems, TLAPS

(***************************************************************************)
(* The inductive invariant.                                                *)
(***************************************************************************)

\* The sequence number of the packet with number n of a sender.
SeqNoOf(ssrc, n) == (FirstSeqNo[ssrc] + n) % SeqNoRange

\* The head is used in part: the first NAL unit of an aggregation packet.
HeadIsInUse == packets # <<>> /\ packets[1].useCount # 0

\* The number that fNextExpectedSeqNo stands for.
ExpectedNumber == IF HeadIsInUse THEN packets[1].n ELSE next

\* The list is that of one sender, in order, and lies in the half of the circle
\* that begins with the packet after the last one handed on.
ListInOrder ==
    /\ fTailPacket = Len(packets)
    /\ \A i, j \in 1..Len(packets) : i < j => packets[i].n < packets[j].n
    /\ \A i \in 1..Len(packets) :
          /\ next <= packets[i].n /\ packets[i].n < next + Half
          /\ packets[i].n <= newest
          /\ Ssrc[packets[i].n] = fLastReceivedSSRC
          /\ packets[i].useCount # 0 => i = 1 /\ Kinds[packets[i].n] = "aggregate"
          /\ packets[i].isFirstPacket => i = 1 /\ packets[i].n = next

\* What is expected, as a sequence number and as a number.
ExpectedAgrees ==
    /\ packets # <<>> => fHaveSeenFirstPacket
    /\ next <= newest + 1
    /\ fHaveSeenFirstPacket =>
          /\ fLastReceivedSSRC \in Range(Ssrc)
          /\ fNextExpectedSeqNo = SeqNoOf(fLastReceivedSSRC, ExpectedNumber)

OrderInv == ListInOrder /\ ExpectedAgrees

\* Who has fSavedPacket, if anyone has it.
HolderInv ==
    IF fSavedPacket # "used"
    THEN /\ fPacketReadInProgress # "saved"
         /\ \A i \in 1..Len(packets) : ~packets[i].saved
    ELSE IF fPacketReadInProgress = "saved"
         THEN \A i \in 1..Len(packets) : ~packets[i].saved
         ELSE \E h \in 1..Len(packets) :
                 \A i \in 1..Len(packets) : packets[i].saved <=> i = h

\* The next packet handed on counts as one that follows a loss.
StartsAfresh ==
    \/ ~fHaveSeenFirstPacket
    \/ packets # <<>> /\ packets[1].isFirstPacket

\* The packet handed on last is n, and the next one is of the same sender.
LastIs(n) ==
    /\ n \in Numbers /\ next = n + 1
    /\ Ssrc[n] = fLastReceivedSSRC

\* The packet handed on last completed a frame, or its header was rejected.
AtBoundary ==
    \/ StartsAfresh
    \/ HeadIsInUse
    \/ \E n \in Numbers :
          LastIs(n) /\ Kinds[n] \in {"single", "end", "aggregate", "malformed"}

\* Each piece begins a NAL unit, or goes on with the one before it, as far as
\* the packets whose header is not rejected tell.
Joined(f) ==
    \A i \in 1..Len(f) : BeginsHere(f, i) \/ FollowsHere(f, i) \/ AfterRejected(f, i)

\* What a client may receive.
Acceptable(f) ==
    \/ f = <<>> \/ HasAggregate(f)
    \/ Joined(f) /\ Kinds[f[Len(f)][1]] \in {"single", "end"}

\* The number of the packet that the last piece is from.
LastNumber(f) == f[Len(f)][1]

\* The next packet goes on with the frame, or its place in the sender's frames is
\* not looked at.
GoesOn ==
    \/ StartsAfresh
    \/ \E n \in Numbers : LastIs(n) /\ Kinds[n] = "malformed"
    \/ /\ LastIs(LastNumber(frame))
       /\ \/ Kinds[LastNumber(frame)] \in {"start", "middle"}
          \/ Kinds[LastNumber(frame)] = "end" /\ ~HoldsData(frame)

\* Who waits for what.
ClientInv ==
    /\ fNeedDelivery => fIsCurrentlyAwaitingData
    /\ nextTask => fIsCurrentlyAwaitingData /\ ~fNeedDelivery
    /\ ~fNeedDelivery => ~fPacketLossInFragmentedFrame

\* Where the reception is in the sender's frames, while nothing is wanted and
\* while a frame is put together.
FillInv ==
    /\ ~fNeedDelivery => AtBoundary
    /\ fNeedDelivery /\ ~fPacketLossInFragmentedFrame =>
          \/ frame = <<>> /\ AtBoundary
          \/ HasAggregate(frame)
          \/ frame # <<>> /\ Joined(frame) /\ GoesOn /\ ~HeadIsInUse

\* What was handed to the client, or is about to be.
HandedInv ==
    /\ nextTask => Acceptable(frame)
    /\ Acceptable(delivered)

FrameInv == ClientInv /\ FillInv /\ HandedInv

-----------------------------------------------------------------------------
(***************************************************************************)
(* Sequence numbers: within half the circle the comparison of sequence     *)
(* numbers is the comparison of the sender's numbers.                      *)
(***************************************************************************)

\* What % yields: the remainder of a division.
LEMMA Remainder ==
  ASSUME NEW x \in Nat, NEW m \in Nat \ {0}
  PROVE  /\ x % m \in 0..m - 1
         /\ \E q \in Nat : x = q * m + (x % m)
<1>1. x % m \in 0..m - 1
  OBVIOUS
<1>2. x = (x \div m) * m + (x % m)
  OBVIOUS
<1>3. x \div m \in Nat
  <2> DEFINE d == x \div m
  <2>1. d \in Int
    OBVIOUS
  <2>2. x = d * m + (x % m)
    BY <1>2
  <2> HIDE DEF d
  <2>3. ASSUME d <= -1 PROVE FALSE
    <3>1. d * m <= -m
      BY <2>1, <2>3
    <3> QED
      BY <1>1, <2>1, <2>2, <3>1
  <2> QED
    BY <2>1, <2>3 DEF d
<1> QED
  BY <1>1, <1>2, <1>3

\* Two numbers less than m apart have the same remainder, or one that is m
\* further apart, or closer.
LEMMA RemaindersDiffer ==
  ASSUME NEW x \in Nat, NEW y \in Nat, NEW m \in Nat \ {0},
         x - y < m, y - x < m
  PROVE  (y % m) - (x % m) \in {y - x, y - x - m, y - x + m}
<1>1. x % m \in 0..m - 1 /\ y % m \in 0..m - 1
  OBVIOUS
<1>2. PICK q \in Nat : x = q * m + (x % m)
  BY Remainder
<1>3. PICK r \in Nat : y = r * m + (y % m)
  BY Remainder
<1> DEFINE d == r - q
<1>4. d \in Int /\ (y % m) - (x % m) = y - x - d * m
  <2>1. (r - q) * m = r * m - q * m
    OBVIOUS
  <2> DEFINE xm == x % m
             ym == y % m
             qm == q * m
             rm == r * m
  <2>2. xm \in Int /\ ym \in Int /\ qm \in Int /\ rm \in Int
    BY <1>1
  <2>3. x = qm + xm /\ y = rm + ym
    BY <1>2, <1>3
  <2> HIDE DEF xm, ym, qm, rm
  <2>4. ym - xm = y - x - (rm - qm)
    BY <2>2, <2>3
  <2> QED
    BY <2>1, <2>4 DEF xm, ym, qm, rm
<1> HIDE DEF d
<1>5. d > -2 /\ d < 2
  <2>1. ASSUME d >= 2 PROVE FALSE
    <3>1. d * m >= 2 * m
      BY <1>4, <2>1
    <3> QED
      BY <1>1, <1>4, <3>1
  <2>2. ASSUME d <= -2 PROVE FALSE
    <3>1. d * m <= -(2 * m)
      BY <1>4, <2>2
    <3> QED
      BY <1>1, <1>4, <3>1
  <2> QED
    BY <1>4, <2>1, <2>2
<1>6. d = -1 \/ d = 0 \/ d = 1
  BY <1>4, <1>5
<1> QED
  BY <1>1, <1>4, <1>6

\* A remainder is its own remainder.
LEMMA SmallRemainder ==
  ASSUME NEW m \in Nat \ {0}, NEW x \in 0..m - 1
  PROVE  x % m = x
<1>1. x % m \in 0..m - 1
  OBVIOUS
<1>2. PICK q \in Nat : x = q * m + (x % m)
  <2>1. x \in Nat
    OBVIOUS
  <2> QED
    BY <2>1, Remainder
<1>3. ASSUME q >= 1 PROVE FALSE
  <2>1. q * m >= m
    BY <1>3
  <2> QED
    BY <1>1, <1>2, <2>1
<1>4. q = 0
  BY <1>3
<1> QED
  BY <1>1, <1>2, <1>4

\* The remainder of the next number.
LEMMA NextRemainder ==
  ASSUME NEW x \in Nat, NEW m \in Nat \ {0, 1}
  PROVE  (x + 1) % m = IF (x % m) + 1 = m THEN 0 ELSE (x % m) + 1
<1> DEFINE r == x % m
           s == (x + 1) % m
<1>1. r \in 0..m - 1 /\ s \in 0..m - 1
  OBVIOUS
<1>2. s - r \in {1, 1 - m, 1 + m}
  <2>1. s - r \in {(x + 1) - x, (x + 1) - x - m, (x + 1) - x + m}
    <3>1. x + 1 \in Nat /\ (x + 1) - x < m /\ x - (x + 1) < m
      OBVIOUS
    <3> QED
      BY <3>1, RemaindersDiffer
  <2> QED
    BY <2>1
<1> HIDE DEF r, s
<1>3. s = IF r + 1 = m THEN 0 ELSE r + 1
  BY <1>1, <1>2
<1> QED
  BY <1>3 DEF r, s

\* What the assumptions on the constants say of the circle.
LEMMA Circle ==
  /\ SeqNoRange \in Nat \ {0, 1} /\ Half \in Nat \ {0}
  /\ SeqNoRange = 2 * Half
  /\ MaxDelay \in Nat /\ MaxLoss \in Nat /\ MaxDelay + 1 < Half
<1>1. Half \in Int
  BY PacketAssumption DEF Half
<1> QED
  BY <1>1, PacketAssumption

\* Less than half the circle apart, sequence numbers compare as numbers do.
LEMMA Compared ==
  ASSUME NEW f \in SeqNos, NEW a \in Nat, NEW b \in Nat,
         a - b < Half, b - a < Half
  PROVE  /\ (f + a) % SeqNoRange \in SeqNos
         /\ (f + a) % SeqNoRange = (f + b) % SeqNoRange <=> a = b
         /\ SeqNumLT((f + a) % SeqNoRange, (f + b) % SeqNoRange) <=> a < b
<1> DEFINE s == (f + a) % SeqNoRange
           t == (f + b) % SeqNoRange
<1>1. /\ SeqNoRange \in Nat \ {0} /\ Half \in Nat \ {0}
      /\ SeqNoRange = 2 * Half
      /\ f + a \in Nat /\ f + b \in Nat /\ f \in Nat
  BY Circle DEF SeqNos
<1>2. s \in SeqNos /\ t \in SeqNos
  BY <1>1 DEF SeqNos
<1>3. t - s \in {b - a, b - a - SeqNoRange, b - a + SeqNoRange}
  <2>1. (f + a) - (f + b) < SeqNoRange /\ (f + b) - (f + a) < SeqNoRange
    BY <1>1
  <2>2. t - s \in {(f + b) - (f + a), (f + b) - (f + a) - SeqNoRange,
                   (f + b) - (f + a) + SeqNoRange}
    BY <1>1, <2>1, RemaindersDiffer
  <2>3. (f + b) - (f + a) = b - a
    BY <1>1
  <2> HIDE DEF s, t
  <2> QED
    BY <2>2, <2>3
<1> HIDE DEF s, t
<1>4. s \in 0..SeqNoRange - 1 /\ t \in 0..SeqNoRange - 1
  BY <1>1, <1>2 DEF SeqNos
<1>5. s = t <=> a = b
  BY <1>1, <1>3, <1>4
<1>6. SeqNumLT(s, t) <=> a < b
  BY <1>1, <1>3, <1>4 DEF SeqNumLT
<1> QED
  BY <1>2, <1>5, <1>6 DEF s, t

\* Following() yields the sequence number of the next packet.
LEMMA Followed ==
  ASSUME NEW f \in SeqNos, NEW a \in Nat
  PROVE  /\ (f + a) % SeqNoRange \in SeqNos
         /\ Following((f + a) % SeqNoRange) = (f + (a + 1)) % SeqNoRange
<1> DEFINE x == f + a
           r == x % SeqNoRange
<1>1. SeqNoRange \in Nat \ {0, 1} /\ x \in Nat /\ f + (a + 1) = x + 1
  BY Circle DEF SeqNos
<1> HIDE DEF x
<1>2. r \in 0..SeqNoRange - 1
  BY <1>1
<1>3. (x + 1) % SeqNoRange = IF r + 1 = SeqNoRange THEN 0 ELSE r + 1
  BY <1>1, NextRemainder
<1> HIDE DEF r
<1>4. r % SeqNoRange = r
  BY <1>1, <1>2, SmallRemainder
<1>5. (r + 1) % SeqNoRange = IF r + 1 = SeqNoRange THEN 0 ELSE r + 1
  <2>1. r \in Nat /\ SeqNoRange \in Nat \ {0, 1}
    BY <1>1, <1>2
  <2>2. (r + 1) % SeqNoRange = IF (r % SeqNoRange) + 1 = SeqNoRange
                               THEN 0 ELSE (r % SeqNoRange) + 1
    BY ONLY <2>1, NextRemainder, Zenon
  <2> QED
    BY ONLY <1>4, <2>2
<1>6. Following(r) = (x + 1) % SeqNoRange
  BY <1>3, <1>5 DEF Following, r
<1> QED
  BY <1>1, <1>2, <1>6 DEF x, r, SeqNos

-----------------------------------------------------------------------------
(***************************************************************************)
(* Sequences.                                                              *)
(***************************************************************************)

\* A set of natural numbers that is not empty has a least element.
LEMMA LeastElement ==
  ASSUME NEW T \in SUBSET Nat, T # {}
  PROVE  \E m \in T : \A k \in T : m <= k
<1> DEFINE B == {0..i : i \in T}
<1>1. IsWellFoundedOn(StrictSubsetOrdering(Nat), FiniteSubsetsOf(Nat))
  BY FS_StrictSubsetOrderingWellFounded
<1>2. B \subseteq FiniteSubsetsOf(Nat)
  <2>1. ASSUME NEW i \in T PROVE 0..i \in FiniteSubsetsOf(Nat)
    <3>1. IsFiniteSet(0..i)
      BY FS_Interval
    <3>2. 0..i \in SUBSET Nat
      OBVIOUS
    <3> QED
      BY <3>1, <3>2 DEF FiniteSubsetsOf
  <2> QED
    BY <2>1
<1>3. B # {}
  OBVIOUS
<1>4. PICK x \in B : \A y \in B : ~(<<y, x>> \in StrictSubsetOrdering(Nat))
  BY <1>1, <1>2, <1>3, WFMin
<1>5. PICK m \in T : x = 0..m
  BY <1>4
<1>6. ASSUME NEW k \in T, ~(m <= k) PROVE FALSE
  <2>1. 0..k \subseteq 0..m /\ 0..k # 0..m /\ 0..m \subseteq Nat
    BY <1>6
  <2>2. <<0..k, 0..m>> \in StrictSubsetOrdering(Nat)
    BY <2>1 DEF StrictSubsetOrdering
  <2> QED
    BY <2>2, <1>4, <1>5
<1> QED
  BY <1>6

\* Where a search stops: at the first element that passes the test, if any.
LEMMA FirstFound ==
  ASSUME NEW len \in Nat, NEW I \in SUBSET (1..len), I # {}
  PROVE  Min(I) \in I /\ \A k \in I : Min(I) <= k
<1>1. I \in SUBSET Nat
  OBVIOUS
<1>2. \E m \in I : \A k \in I : m <= k
  BY <1>1, LeastElement
<1> QED
  BY <1>2 DEF Min

\* t is s with e put before its k-th element.
IsInsertion(t, s, k, e) ==
    /\ Len(t) = Len(s) + 1
    /\ \A j \in 1..Len(s) + 1 :
          t[j] = IF j < k THEN s[j] ELSE IF j = k THEN e ELSE s[j - 1]

\* What InsertAt yields, element by element.
LEMMA InsertAtElements ==
  ASSUME NEW S, NEW s \in Seq(S), NEW e \in S, NEW k \in 1..Len(s)
  PROVE  InsertAt(s, k, e) \in Seq(S) /\ IsInsertion(InsertAt(s, k, e), s, k, e)
<1> DEFINE a == SubSeq(s, 1, k - 1)
           b == SubSeq(s, k, Len(s))
           c == a \o <<e>>
           r == c \o b
<1>1. Len(s) \in Nat /\ \A j \in 1..Len(s) : s[j] \in S
  BY LenProperties, ElementOfSeq
<1>2. /\ a \in Seq(S) /\ Len(a) = k - 1
      /\ \A j \in 1..k - 1 : a[j] = s[j]
  <2>1. \A j \in 1..k - 1 : s[j] \in S
    BY <1>1
  <2> QED
    BY <1>1, <2>1, SubSeqProperties
<1>3. /\ b \in Seq(S) /\ Len(b) = Len(s) - k + 1
      /\ \A j \in 1..Len(s) - k + 1 : b[j] = s[k + j - 1]
  <2>1. \A j \in k..Len(s) : s[j] \in S
    BY <1>1
  <2> QED
    BY <1>1, <2>1, SubSeqProperties
<1>4. <<e>> \in Seq(S) /\ Len(<<e>>) = 1 /\ <<e>>[1] = e
  OBVIOUS
<1> HIDE DEF a, b
<1>5. /\ c \in Seq(S) /\ Len(c) = k
      /\ \A j \in 1..k : c[j] = IF j < k THEN a[j] ELSE e
  BY <1>1, <1>2, <1>4, ConcatProperties
<1> HIDE DEF c
<1>6. /\ r \in Seq(S) /\ Len(r) = Len(s) + 1
      /\ \A j \in 1..Len(s) + 1 :
            r[j] = IF j <= k THEN c[j] ELSE b[j - k]
  <2>1. /\ r \in Seq(S) /\ Len(r) = Len(c) + Len(b)
        /\ \A j \in 1..Len(c) + Len(b) :
              r[j] = IF j <= Len(c) THEN c[j] ELSE b[j - Len(c)]
    BY <1>3, <1>5, ConcatProperties
  <2>2. Len(c) + Len(b) = Len(s) + 1
    BY <1>1, <1>3, <1>5
  <2> QED
    BY <2>1, <2>2, <1>5
<1> HIDE DEF r
<1>7. InsertAt(s, k, e) = r
  BY DEF InsertAt, a, b, c, r
<1>8. ASSUME NEW j \in 1..Len(s) + 1
      PROVE  r[j] = IF j < k THEN s[j] ELSE IF j = k THEN e ELSE s[j - 1]
  <2>1. CASE j <= k
    <3>1. j \in 1..k /\ r[j] = c[j]
      BY <1>1, <1>6, <2>1
    <3>2. c[j] = IF j < k THEN a[j] ELSE e
      BY <1>5, <3>1
    <3> QED
      BY <1>2, <3>1, <3>2
  <2>2. CASE j > k
    <3>1. j - k \in 1..Len(s) - k + 1 /\ r[j] = b[j - k]
      BY <1>1, <1>6, <2>2
    <3>2. b[j - k] = s[k + (j - k) - 1]
      BY <1>3, <3>1
    <3>3. k + (j - k) - 1 = j - 1
      BY <1>1
    <3> QED
      BY <2>2, <3>1, <3>2, <3>3
  <2> QED
    BY <1>1, <2>1, <2>2
<1> QED
  BY <1>6, <1>7, <1>8 DEF IsInsertion

\* The greater of two numbers.
LEMMA MaxOfTwo ==
  ASSUME NEW a \in Nat, NEW b \in Nat
  PROVE  /\ Max({a, b}) \in Nat
         /\ Max({a, b}) = IF a >= b THEN a ELSE b
<1>1. \E x \in {a, b} : \A y \in {a, b} : x >= y
  OBVIOUS
<1>2. Max({a, b}) \in {a, b} /\ \A y \in {a, b} : Max({a, b}) >= y
  BY <1>1 DEF Max
<1> QED
  BY <1>2

-----------------------------------------------------------------------------
(***************************************************************************)
(* What happens to the list: a packet is linked in or refused, the head is *)
(* used in part or released.                                               *)
(***************************************************************************)

PacketSet == [n : Numbers, saved : BOOLEAN, isFirstPacket : BOOLEAN,
              useCount : 0..1]

\* Packet p is linked in as the k-th.
InsertedAs(k, p) ==
    /\ packets' \in Seq(PacketSet) /\ Len(packets') = Len(packets) + 1
    /\ \A j \in 1..Len(packets) + 1 :
          packets'[j] = IF j < k THEN packets[j]
                        ELSE IF j = k THEN p ELSE packets[j - 1]
    /\ fTailPacket' = Len(packets')

\* Where packet n belongs: after the packets with smaller numbers.
BelongsAt(n, k) ==
    /\ next' <= n /\ n < next' + Half
    /\ \A i \in 1..Len(packets) :
          IF i < k THEN packets[i].n < n ELSE n < packets[i].n
    /\ k = 1 => /\ ~HeadIsInUse
                /\ packets # <<>> => ~packets[1].isFirstPacket

ListUnchanged == UNCHANGED <<packets, fTailPacket>>

\* The elements of the list and the constants about them.
LEMMA Elements ==
  ASSUME TypeOK
  PROVE  /\ packets \in Seq(PacketSet) /\ Len(packets) \in Nat
         /\ packets # <<>> <=> Len(packets) > 0
         /\ \A i \in 1..Len(packets) :
               /\ packets[i] \in PacketSet
               /\ packets[i].n \in Numbers /\ packets[i].n \in Nat
               /\ packets[i].useCount \in 0..1
               /\ Kinds[packets[i].n] \in Kind
         /\ packets # <<>> => Head(packets) = packets[1]
<1>1. packets \in Seq(PacketSet)
  BY DEF TypeOK, PacketSet
<1>2. Len(packets) \in Nat
  BY <1>1, LenProperties
<1>3. ASSUME NEW i \in 1..Len(packets)
      PROVE  /\ packets[i] \in PacketSet
             /\ packets[i].n \in Numbers /\ packets[i].n \in Nat
             /\ packets[i].useCount \in 0..1
             /\ Kinds[packets[i].n] \in Kind
  <2>1. packets[i] \in PacketSet
    BY <1>1, ElementOfSeq
  <2> QED
    BY <2>1, PacketAssumption DEF PacketSet
<1>4. packets # <<>> <=> Len(packets) > 0
  BY <1>1, <1>2, EmptySeq
<1> QED
  BY <1>1, <1>2, <1>3, <1>4

\* Packet n was not seen before and no packet waits: it is the first one.
LEMMA FirstArrives ==
  ASSUME TypeOK, OrderInv, NEW n \in Numbers, packets = <<>>,
         StorePacket(n, FALSE)
  PROVE  /\ next' = n /\ fNextExpectedSeqNo' = SeqNoOf(Ssrc[n], n)
         /\ fHaveSeenFirstPacket' = TRUE
         /\ InsertedAs(1, Packet(n, Descriptor = "saved", TRUE))
         /\ fSavedPacket' = IF Descriptor = "saved" THEN "used" ELSE fSavedPacket
<1> DEFINE p == Packet(n, Descriptor = "saved", TRUE)
<1>1. p \in PacketSet /\ p.n = n
  BY DEF Packet, PacketSet
<1>2. SeqNo(p) = SeqNoOf(Ssrc[n], n)
  BY <1>1 DEF SeqNo, SeqNoOf
<1> HIDE DEF p
<1>3. FirstSeqNo[Ssrc[n]] \in SeqNos /\ n \in Nat
  BY PacketAssumption DEF SeqNos
<1>4. ~SeqNumLT(SeqNo(p), SeqNo(p))
  <2>1. n - n < Half /\ ~(n < n)
    BY <1>3, Circle
  <2> QED
    BY <1>2, <1>3, <2>1, Compared DEF SeqNoOf
<1>5. IsNewest(p)
  BY DEF IsNewest
<1>6. /\ fHaveSeenFirstPacket' = TRUE /\ next' = n
      /\ fNextExpectedSeqNo' = SeqNo(p)
      /\ fSavedPacket' = IF Descriptor = "saved" THEN "used" ELSE fSavedPacket
      /\ LinkIn(p)
  BY <1>4, <1>5 DEF StorePacket, p
<1>7. packets' = Append(SubSeq(packets, 1, fTailPacket), p) /\ fTailPacket' = Len(packets')
  BY <1>5, <1>6 DEF LinkIn
<1>8. fTailPacket = 0 /\ Len(packets) = 0
  BY EmptySeq DEF OrderInv, ListInOrder
<1>9. SubSeq(packets, 1, fTailPacket) = <<>>
  BY <1>8, SubSeqEmpty
<1>10. /\ packets' \in Seq(PacketSet) /\ Len(packets') = 1
       /\ packets'[1] = p
  <2>1. packets' = Append(<<>>, p)
    BY <1>7, <1>9
  <2>2. <<>> \in Seq(PacketSet) /\ Len(<<>>) = 0
    BY EmptySeq
  <2> QED
    BY <1>1, <2>1, <2>2, AppendProperties
<1>11. InsertedAs(1, p)
  BY <1>7, <1>8, <1>10 DEF InsertedAs
<1> QED
  BY <1>2, <1>6, <1>11 DEF p

\* Numbers in the window from "next" on compare as their sequence numbers do.
LEMMA WindowCompared ==
  ASSUME TypeOK, OrderInv, NEW n \in Numbers, SeenFirst(n), MayArrive(n),
         NEW p, p.n = n
  PROVE  /\ SeqNumLT(SeqNo(p), fNextExpectedSeqNo) <=> n < ExpectedNumber
         /\ ExpectedNumber <= n =>
              \A i \in 1..Len(packets) :
                 /\ SeqNo(p) = SeqNo(packets[i]) <=> packets[i].n = n
                 /\ SeqNumLT(SeqNo(p), SeqNo(packets[i])) <=> n < packets[i].n
                 /\ SeqNumLT(SeqNo(packets[i]), SeqNo(p)) <=> packets[i].n < n
         /\ next <= ExpectedNumber
<1> DEFINE f == FirstSeqNo[fLastReceivedSSRC]
           e == ExpectedNumber
<1>1. /\ Ssrc[n] = fLastReceivedSSRC /\ fHaveSeenFirstPacket
      /\ n \in newest - MaxDelay..newest + MaxLoss + 1 /\ n < next + Half
      /\ n \in Nat /\ f \in SeqNos /\ newest \in Nat /\ next \in Nat
  BY PacketAssumption DEF SeenFirst, MayArrive, TypeOK, SeqNos
<1>2. SeqNo(p) = (f + n) % SeqNoRange
  BY <1>1 DEF SeqNo
<1>3. \A i \in 1..Len(packets) :
         /\ packets[i].n \in Nat
         /\ next <= packets[i].n /\ packets[i].n < next + Half
         /\ packets[i].n <= newest
         /\ SeqNo(packets[i]) = (f + packets[i].n) % SeqNoRange
  BY Elements DEF OrderInv, ListInOrder, SeqNo
<1>4. e \in Nat /\ next <= e /\ e <= newest + 1
  <2>1. CASE HeadIsInUse
    <3>1. 1 \in 1..Len(packets)
      BY <2>1, Elements DEF HeadIsInUse
    <3> QED
      BY <1>1, <1>3, <2>1, <3>1 DEF ExpectedNumber
  <2>2. CASE ~HeadIsInUse
    BY <1>1, <2>2 DEF ExpectedNumber, OrderInv, ExpectedAgrees
  <2> QED
    BY <2>1, <2>2
<1>5. fNextExpectedSeqNo = (f + e) % SeqNoRange
  BY <1>1 DEF OrderInv, ExpectedAgrees, SeqNoOf
<1> HIDE DEF f, e
<1>6. SeqNumLT(SeqNo(p), fNextExpectedSeqNo) <=> n < e
  <2>1. n - e < Half /\ e - n < Half
    BY <1>1, <1>4, Circle
  <2> QED
    BY <1>1, <1>2, <1>4, <1>5, <2>1, Compared
<1>7. ASSUME e <= n, NEW i \in 1..Len(packets)
      PROVE  /\ SeqNo(p) = SeqNo(packets[i]) <=> packets[i].n = n
             /\ SeqNumLT(SeqNo(p), SeqNo(packets[i])) <=> n < packets[i].n
             /\ SeqNumLT(SeqNo(packets[i]), SeqNo(p)) <=> packets[i].n < n
  <2>1. packets[i].n \in Nat /\ SeqNo(packets[i]) = (f + packets[i].n) % SeqNoRange
    BY <1>3
  <2>2. n - packets[i].n < Half /\ packets[i].n - n < Half
    BY <1>1, <1>3, <1>4, <1>7, Circle
  <2> QED
    BY <1>1, <1>2, <2>1, <2>2, Compared
<1> QED
  BY <1>4, <1>6, <1>7 DEF e

\* A packet of the sender whose packets wait: it is linked in where its number
\* belongs, or it is late or a copy and refused.
LEMMA LaterArrives ==
  ASSUME TypeOK, OrderInv, NEW n \in Numbers, SeenFirst(n), MayArrive(n),
         StorePacket(n, TRUE)
  PROVE  /\ UNCHANGED <<next, fNextExpectedSeqNo>> /\ fHaveSeenFirstPacket' = TRUE
         /\ \/ ListUnchanged /\ fSavedPacket' = Freed(Descriptor = "saved")
            \/ /\ fSavedPacket' = IF Descriptor = "saved" THEN "used"
                                  ELSE fSavedPacket
               /\ \E k \in 1..Len(packets) + 1 :
                     /\ InsertedAs(k, Packet(n, Descriptor = "saved", FALSE))
                     /\ BelongsAt(n, k)
<1> DEFINE p == Packet(n, Descriptor = "saved", FALSE)
           late == SeqNumLT(SeqNo(p), fNextExpectedSeqNo)
           refused == late \/ (~IsNewest(p) /\ IsDuplicate(p))
<1>1. p \in PacketSet /\ p.n = n
  BY DEF Packet, PacketSet
<1>2. /\ UNCHANGED <<next, fNextExpectedSeqNo>> /\ fHaveSeenFirstPacket' = TRUE
      /\ refused => ListUnchanged /\ fSavedPacket' = Freed(Descriptor = "saved")
      /\ ~refused => /\ fSavedPacket' = IF Descriptor = "saved" THEN "used"
                                        ELSE fSavedPacket
                     /\ LinkIn(p)
  BY DEF StorePacket, ListUnchanged
<1> HIDE DEF p
<1>3. CASE refused
  BY <1>2, <1>3
<1>4. CASE ~refused
  <2> SUFFICES \E k \in 1..Len(packets) + 1 : InsertedAs(k, p) /\ BelongsAt(n, k)
    BY <1>2, <1>4 DEF p
  <2>1. /\ late <=> n < ExpectedNumber
        /\ ExpectedNumber <= n =>
              \A i \in 1..Len(packets) :
                 /\ SeqNo(p) = SeqNo(packets[i]) <=> packets[i].n = n
                 /\ SeqNumLT(SeqNo(p), SeqNo(packets[i])) <=> n < packets[i].n
                 /\ SeqNumLT(SeqNo(packets[i]), SeqNo(p)) <=> packets[i].n < n
        /\ next <= ExpectedNumber
    BY <1>1, WindowCompared
  <2>2. /\ n \in Nat /\ next \in Nat /\ next' = next
        /\ ExpectedNumber <= n /\ next <= n /\ n < next + Half
    <3>1. ExpectedNumber \in Nat
      BY Elements DEF ExpectedNumber, HeadIsInUse, TypeOK
    <3> QED
      BY SMTT(30), <1>2, <1>4, <2>1, <3>1, PacketAssumption DEF TypeOK, MayArrive
  <2>3. /\ packets \in Seq(PacketSet) /\ Len(packets) \in Nat
        /\ packets # <<>> <=> Len(packets) > 0
        /\ \A i \in 1..Len(packets) : packets[i].n \in Nat
        /\ \A i, j \in 1..Len(packets) : i < j => packets[i].n < packets[j].n
        /\ fTailPacket = Len(packets)
        /\ LinkIn(p)
    BY <1>2, <1>4, Elements DEF OrderInv, ListInOrder
  <2>4. CASE IsNewest(p)
    <3>1. packets' = Append(packets, p) /\ fTailPacket' = Len(packets')
      BY <2>3, <2>4, SubSeqFull DEF LinkIn
    <3>2. InsertedAs(Len(packets) + 1, p)
      BY <1>1, <2>3, <3>1, AppendProperties DEF InsertedAs
    <3>3. ASSUME NEW i \in 1..Len(packets) PROVE packets[i].n < n
      <4>1. Len(packets) \in 1..Len(packets) /\ packets # <<>>
        BY <2>3
      <4>2. packets[Len(packets)].n < n
        BY <2>1, <2>2, <2>3, <2>4, <4>1 DEF IsNewest, TailPacket
      <4> QED
        BY <2>2, <2>3, <4>1, <4>2
    <3>4. BelongsAt(n, Len(packets) + 1)
      BY <2>2, <2>3, <3>3 DEF BelongsAt, HeadIsInUse
    <3> QED
      BY <2>3, <3>2, <3>4
  <2>5. CASE ~IsNewest(p)
    <3> DEFINE I == {i \in 1..Len(packets) : SeqNo(packets[i]) = SeqNo(p)
                                             \/ SeqNumLT(SeqNo(p), SeqNo(packets[i]))}
               k == Place(p)
    <3>1. \A i \in 1..Len(packets) : i \in I <=> n <= packets[i].n
      BY <2>1, <2>2, <2>3
    <3>2. packets # <<>> /\ Len(packets) \in 1..Len(packets)
      BY <2>3, <2>5 DEF IsNewest
    <3>3. Len(packets) \in I
      BY <2>1, <2>2, <2>3, <2>5, <3>1, <3>2 DEF IsNewest, TailPacket
    <3>4. k = Min(I)
      BY <3>3 DEF Place, SelectInSeq
    <3>5. k \in I /\ \A i \in I : k <= i
      BY <2>3, <3>3, <3>4, FirstFound
    <3> HIDE DEF k
    <3>6. k \in 1..Len(packets) /\ k # 0
      BY <2>3, <3>5
    <3>7. n < packets[k].n
      <4>1. SeqNo(packets[k]) # SeqNo(p)
        BY <1>4, <2>5, <3>6 DEF IsDuplicate, k
      <4> QED
        BY <2>1, <2>2, <2>3, <3>1, <3>5, <3>6, <4>1
    <3>8. /\ packets' = InsertAt(packets, k, p)
          /\ fTailPacket' = fTailPacket + 1
      BY <2>3, <2>5, <3>6 DEF LinkIn, k
    <3>9. InsertedAs(k, p)
      <4> DEFINE r == InsertAt(packets, k, p)
      <4>1. /\ r \in Seq(PacketSet) /\ Len(r) = Len(packets) + 1
            /\ \A j \in 1..Len(packets) + 1 :
                  r[j] = IF j < k THEN packets[j]
                         ELSE IF j = k THEN p ELSE packets[j - 1]
        <5>1. p \in PacketSet /\ packets \in Seq(PacketSet) /\ k \in 1..Len(packets)
          BY <1>1, <2>3, <3>6
        <5>2. /\ InsertAt(packets, k, p) \in Seq(PacketSet)
              /\ Len(InsertAt(packets, k, p)) = Len(packets) + 1
              /\ \A j \in 1..Len(packets) + 1 :
                    InsertAt(packets, k, p)[j] =
                        IF j < k THEN packets[j]
                        ELSE IF j = k THEN p ELSE packets[j - 1]
          <6> DEFINE q == packets
                     S == PacketSet
          <6>1. q \in Seq(S) /\ p \in S /\ k \in 1..Len(q)
            BY <5>1
          <6> HIDE DEF k, q, S
          <6>2. InsertAt(q, k, p) \in Seq(S) /\ IsInsertion(InsertAt(q, k, p), q, k, p)
            BY ONLY <6>1, InsertAtElements
          <6> QED
            BY <6>2 DEF q, S, IsInsertion
        <5> QED
          BY ONLY <5>2 DEF r
      <4>2. packets' = r /\ fTailPacket' = Len(r)
        BY <2>3, <3>8, <4>1
      <4> HIDE DEF r
      <4> QED
        BY <4>1, <4>2 DEF InsertedAs
    <3>10. ASSUME NEW i \in 1..Len(packets)
           PROVE  IF i < k THEN packets[i].n < n ELSE n < packets[i].n
      <4>1. CASE i < k
        BY <2>2, <2>3, <3>1, <3>5, <3>6, <4>1
      <4>2. CASE i >= k
        BY <2>2, <2>3, <3>6, <3>7, <4>2
      <4> QED
        BY <3>6, <4>1, <4>2
    <3>11. ASSUME k = 1
           PROVE  ~HeadIsInUse /\ ~packets[1].isFirstPacket
      <4>1. packets[1].n # ExpectedNumber /\ packets[1].n # next
        BY <2>2, <2>3, <3>6, <3>7, <3>11
      <4>2. ~HeadIsInUse
        BY <4>1 DEF ExpectedNumber
      <4>3. ~packets[1].isFirstPacket
        BY <3>6, <3>11, <4>1 DEF OrderInv, ListInOrder
      <4> QED
        BY <4>2, <4>3
    <3>12. BelongsAt(n, k)
      BY <2>2, <3>10, <3>11 DEF BelongsAt
    <3> QED
      BY <2>3, <3>6, <3>9, <3>12
  <2> QED
    BY <2>4, <2>5
<1> QED
  BY <1>3, <1>4

\* The head leaves the list.
HeadReleased ==
    /\ packets # <<>>
    /\ packets' \in Seq(PacketSet) /\ Len(packets') = Len(packets) - 1
    /\ \A i \in 1..Len(packets) - 1 : packets'[i] = packets[i + 1]
    /\ fTailPacket' = IF Len(packets) = 1 THEN 0 ELSE fTailPacket - 1
    /\ fSavedPacket' = Freed(packets[1].saved)
    /\ fNextExpectedSeqNo' = Following(SeqNo(packets[1]))
    /\ next' = packets[1].n + 1
    /\ UNCHANGED fHaveSeenFirstPacket

\* The head stays, with its first piece used.
HeadUsedInPart ==
    /\ packets # <<>>
    /\ packets' \in Seq(PacketSet) /\ Len(packets') = Len(packets)
    /\ \A i \in 2..Len(packets) : packets'[i] = packets[i]
    /\ packets'[1].n = packets[1].n
    /\ packets'[1].saved = packets[1].saved
    /\ packets'[1].isFirstPacket = packets[1].isFirstPacket
    /\ packets'[1].useCount = 1
    /\ Kinds[packets[1].n] = "aggregate"
    /\ fNextExpectedSeqNo' = SeqNo(packets[1])
    /\ UNCHANGED <<fHaveSeenFirstPacket, fTailPacket, fSavedPacket, next>>

\* releaseUsedPacket() takes the head out of the list.
LEMMA ReleaseHeadReleases ==
  ASSUME TypeOK, packets # <<>>, ReleaseHead
  PROVE  HeadReleased
<1>1. packets \in Seq(PacketSet) /\ Head(packets) = packets[1]
  BY Elements
<1>2. /\ packets' = Tail(packets)
      /\ Tail(packets) \in Seq(PacketSet)
      /\ Len(Tail(packets)) = Len(packets) - 1
      /\ \A i \in 1..Len(packets) - 1 : Tail(packets)[i] = packets[i + 1]
  BY <1>1, HeadTailProperties DEF ReleaseHead
<1> QED
  BY <1>1, <1>2 DEF ReleaseHead, HeadReleased, HeadPacket

\* use() releases the head with its last piece, and otherwise keeps it.
LEMMA HeadIsUsed ==
  ASSUME TypeOK, OrderInv, packets # <<>>, UsePacket
  PROVE  HeadReleased \/ HeadUsedInPart
<1> DEFINE h == packets[1]
<1>1. /\ packets \in Seq(PacketSet) /\ Head(packets) = h
      /\ 1 \in 1..Len(packets) /\ Len(packets) \in Nat /\ h \in PacketSet
      /\ h.useCount \in 0..1
  BY Elements
<1>2. CASE ~HasMore(h)
  BY <1>1, <1>2, ReleaseHeadReleases DEF UsePacket, HeadPacket
<1>3. CASE HasMore(h)
  <2> DEFINE g == [h EXCEPT !.useCount = 1]
  <2>1. /\ packets' = [packets EXCEPT ![1] = g]
        /\ fNextExpectedSeqNo' = SeqNo(h)
        /\ UNCHANGED <<fHaveSeenFirstPacket, fTailPacket, fSavedPacket, next>>
    BY <1>1, <1>3 DEF UsePacket, HeadPacket
  <2>2. Kinds[h.n] = "aggregate"
    BY <1>3 DEF HasMore
  <2>3. /\ g \in PacketSet /\ g.useCount = 1 /\ g.n = h.n
        /\ g.saved = h.saved /\ g.isFirstPacket = h.isFirstPacket
    BY <1>1, <2>2 DEF PacketSet
  <2> HIDE DEF g
  <2>4. /\ packets' \in Seq(PacketSet) /\ Len(packets') = Len(packets)
        /\ \A j \in 1..Len(packets) : packets'[j] = IF j = 1 THEN g ELSE packets[j]
    BY <1>1, <2>1, <2>3, ExceptSeq
  <2> QED
    BY <1>1, <2>1, <2>2, <2>3, <2>4 DEF HeadUsedInPart
<1> QED
  BY <1>2, <1>3

\* What the arrival of packet n changes: it is the first of its sender that is
\* seen, or it belongs somewhere, or it is refused.
LEMMA Arrived ==
  ASSUME TypeOK, OrderInv, ~SsrcChangesAny, NEW n \in Numbers, PacketArrives(n)
  PROVE  /\ newest' \in Nat /\ newest <= newest' /\ n <= newest'
         /\ fLastReceivedSSRC' = Ssrc[n] /\ fHaveSeenFirstPacket' = TRUE
         /\ \/ /\ SeenFirst(n) /\ Ssrc[n] = fLastReceivedSSRC
               /\ UNCHANGED <<next, fNextExpectedSeqNo>>
               /\ ListUnchanged /\ fSavedPacket' = Freed(Descriptor = "saved")
            \/ /\ SeenFirst(n) /\ Ssrc[n] = fLastReceivedSSRC
               /\ UNCHANGED <<next, fNextExpectedSeqNo>>
               /\ fSavedPacket' = IF Descriptor = "saved" THEN "used"
                                  ELSE fSavedPacket
               /\ \E k \in 1..Len(packets) + 1 :
                     /\ InsertedAs(k, Packet(n, Descriptor = "saved", FALSE))
                     /\ BelongsAt(n, k)
            \/ /\ packets = <<>>
               /\ next' = n /\ fNextExpectedSeqNo' = SeqNoOf(Ssrc[n], n)
               /\ fSavedPacket' = IF Descriptor = "saved" THEN "used"
                                  ELSE fSavedPacket
               /\ InsertedAs(1, Packet(n, Descriptor = "saved", TRUE))
<1>1. n \in Nat /\ newest \in Nat
  BY PacketAssumption DEF TypeOK
<1>2. newest' \in Nat /\ newest <= newest' /\ n <= newest'
  BY <1>1, MaxOfTwo DEF PacketArrives
<1>3. fLastReceivedSSRC' = Ssrc[n] /\ fHaveSeenFirstPacket' = TRUE
  BY DEF PacketArrives, StorePacket
<1>4. CASE SeenFirst(n)
  <2>1. StorePacket(n, TRUE) /\ MayArrive(n)
    BY <1>4 DEF PacketArrives, SeenFirst
  <2>2. Ssrc[n] = fLastReceivedSSRC
    BY <1>4 DEF SeenFirst
  <2> QED
    BY <1>2, <1>3, <1>4, <2>1, <2>2, LaterArrives
<1>5. CASE ~SeenFirst(n)
  <2>1. StorePacket(n, FALSE) /\ packets = <<>>
    BY <1>5 DEF PacketArrives, MayArrive, SeenFirst
  <2> QED
    BY <1>2, <1>3, <2>1, FirstArrives
<1> QED
  BY <1>4, <1>5

-----------------------------------------------------------------------------
(***************************************************************************)
(* The order of the list is kept.                                          *)
(***************************************************************************)

\* Linking in a packet where it belongs keeps the list in order.
LEMMA InsertionKeepsOrder ==
  ASSUME TypeOK, OrderInv, NEW n \in Numbers, NEW k \in 1..Len(packets) + 1,
         NEW p \in PacketSet, p.n = n, p.useCount = 0,
         p.isFirstPacket => k = 1 /\ n = next',
         InsertedAs(k, p), BelongsAt(n, k),
         packets # <<>> => UNCHANGED <<next, fNextExpectedSeqNo, fLastReceivedSSRC>>,
         next' \in Nat, newest' \in Nat, newest <= newest', n <= newest',
         fLastReceivedSSRC' = Ssrc[n], fHaveSeenFirstPacket' = TRUE,
         fNextExpectedSeqNo' = SeqNoOf(Ssrc[n], IF packets = <<>> THEN next'
                                                ELSE ExpectedNumber)
  PROVE  OrderInv'
<1>1. /\ packets \in Seq(PacketSet) /\ Len(packets) \in Nat
      /\ packets # <<>> <=> Len(packets) > 0
      /\ \A i \in 1..Len(packets) : packets[i].n \in Nat
      /\ n \in Nat /\ newest \in Nat
  BY Elements, PacketAssumption DEF TypeOK
<1>2. /\ Len(packets') = Len(packets) + 1 /\ fTailPacket' = Len(packets')
      /\ packets' # <<>>
      /\ \A j \in 1..Len(packets') :
            packets'[j] = IF j < k THEN packets[j]
                          ELSE IF j = k THEN p ELSE packets[j - 1]
  BY <1>1, EmptySeq DEF InsertedAs
<1>3. \A i \in 1..Len(packets) :
         /\ next <= packets[i].n /\ packets[i].n < next + Half
         /\ packets[i].n <= newest
         /\ Ssrc[packets[i].n] = fLastReceivedSSRC
         /\ packets[i].useCount # 0 => i = 1 /\ Kinds[packets[i].n] = "aggregate"
         /\ packets[i].isFirstPacket => i = 1 /\ packets[i].n = next
         /\ packets # <<>> /\ UNCHANGED <<next, fLastReceivedSSRC>>
  BY <1>1 DEF OrderInv, ListInOrder
<1>4. /\ \A i \in 1..Len(packets) :
            IF i < k THEN packets[i].n < n ELSE n < packets[i].n
      /\ k = 1 /\ packets # <<>> =>
            packets[1].useCount = 0 /\ ~packets[1].isFirstPacket
      /\ next' <= n /\ n < next' + Half
  BY DEF BelongsAt, HeadIsInUse
<1>5. ASSUME NEW j \in 1..Len(packets')
      PROVE  /\ next' <= packets'[j].n /\ packets'[j].n < next' + Half
             /\ packets'[j].n <= newest'
             /\ Ssrc[packets'[j].n] = fLastReceivedSSRC'
             /\ packets'[j].useCount # 0 =>
                   j = 1 /\ Kinds[packets'[j].n] = "aggregate"
             /\ packets'[j].isFirstPacket => j = 1 /\ packets'[j].n = next'
  <2>1. CASE j < k
    <3>1. j \in 1..Len(packets) /\ packets'[j] = packets[j]
      BY <1>1, <1>2, <2>1
    <3> QED
      BY <1>1, <1>3, <3>1
  <2>2. CASE j = k
    BY <1>1, <1>2, <1>4, <2>2
  <2>3. CASE j > k
    <3>1. j - 1 \in 1..Len(packets) /\ packets'[j] = packets[j - 1]
      BY <1>1, <1>2, <2>3
    <3>2. packets[j - 1].useCount = 0 /\ ~packets[j - 1].isFirstPacket
      <4>1. CASE j - 1 = 1
        <5>1. k = 1 /\ packets # <<>>
          BY <1>1, <2>3, <3>1, <4>1
        <5> QED
          BY <1>4, <4>1, <5>1
      <4>2. CASE j - 1 # 1
        BY <1>3, <3>1, <4>2
      <4> QED
        BY <4>1, <4>2
    <3> QED
      BY <1>1, <1>3, <3>1, <3>2
  <2> QED
    BY <1>1, <2>1, <2>2, <2>3
<1>6. ASSUME NEW i \in 1..Len(packets'), NEW j \in 1..Len(packets'), i < j
      PROVE  packets'[i].n < packets'[j].n
  <2>1. \A a, b \in 1..Len(packets) : a < b => packets[a].n < packets[b].n
    BY DEF OrderInv, ListInOrder
  <2>2. CASE j < k
    <3>1. /\ i \in 1..Len(packets) /\ packets'[i] = packets[i]
          /\ j \in 1..Len(packets) /\ packets'[j] = packets[j]
      BY <1>1, <1>2, <1>6, <2>2
    <3> QED
      BY <1>6, <2>1, <3>1
  <2>3. CASE j = k
    BY <1>1, <1>2, <1>4, <1>6, <2>3
  <2>4. CASE j > k
    <3>1. j - 1 \in 1..Len(packets) /\ packets'[j] = packets[j - 1]
      BY <1>1, <1>2, <2>4
    <3>2. CASE i < k
      BY SMTT(30), <1>1, <1>2, <1>6, <2>1, <2>4, <3>1, <3>2
    <3>3. CASE i = k
      BY <1>1, <1>2, <1>4, <2>4, <3>1, <3>3
    <3>4. CASE i > k
      <4>1. i - 1 \in 1..Len(packets) /\ packets'[i] = packets[i - 1]
        BY <1>1, <1>2, <3>4
      <4>2. i - 1 < j - 1
        BY <1>1, <1>6
      <4> QED
        BY <2>1, <3>1, <4>1, <4>2
    <3> QED
      BY <3>2, <3>3, <3>4
  <2> QED
    BY <2>2, <2>3, <2>4
<1>7. next' <= newest' + 1
  <2>1. next' <= n
    BY <1>4
  <2>2. n \in Nat /\ n <= newest' /\ newest' \in Nat /\ next' \in Nat
    BY <1>1
  <2> DEFINE a == next'
             b == newest'
  <2>3. a \in Nat /\ b \in Nat /\ a <= n /\ n <= b
    BY <2>1, <2>2
  <2> HIDE DEF a, b
  <2>4. a <= b + 1
    BY ONLY <2>2, <2>3
  <2> QED
    BY <2>4 DEF a, b
<1>8. ExpectedNumber' = IF packets = <<>> THEN next' ELSE ExpectedNumber
  <2>1. 1 \in 1..Len(packets') /\ (packets # <<>> => 1 \in 1..Len(packets))
    BY <1>1, <1>2
  <2>2. CASE k = 1
    <3>1. packets'[1] = p /\ ~HeadIsInUse'
      BY <1>2, <2>1, <2>2 DEF HeadIsInUse
    <3>2. ~HeadIsInUse
      BY <1>4, <2>2 DEF HeadIsInUse
    <3> QED
      BY <3>1, <3>2 DEF ExpectedNumber
  <2>3. CASE k # 1
    <3>1. packets # <<>> /\ packets'[1] = packets[1] /\ next' = next
      BY <1>1, <1>2, <2>1, <2>3
    <3> QED
      BY <1>2, <3>1 DEF ExpectedNumber, HeadIsInUse
  <2> QED
    BY <2>2, <2>3
<1>9. Ssrc[n] \in Range(Ssrc)
  BY PacketAssumption DEF Range
<1>10. ListInOrder'
  BY <1>2, <1>5, <1>6 DEF ListInOrder
<1>11. ExpectedAgrees'
  BY <1>7, <1>8, <1>9 DEF ExpectedAgrees
<1> QED
  BY <1>10, <1>11 DEF OrderInv

\* Releasing the head keeps the list in order.
LEMMA ReleaseKeepsOrder ==
  ASSUME TypeOK, OrderInv, HeadReleased, UNCHANGED <<newest, fLastReceivedSSRC>>
  PROVE  OrderInv'
<1>1. /\ packets \in Seq(PacketSet) /\ Len(packets) \in Nat
      /\ Len(packets) > 0
      /\ \A i \in 1..Len(packets) : packets[i].n \in Nat
      /\ newest \in Nat
  BY Elements DEF HeadReleased, TypeOK
<1>2. /\ packets' \in Seq(PacketSet) /\ Len(packets') = Len(packets) - 1
      /\ \A i \in 1..Len(packets') :
            i + 1 \in 1..Len(packets) /\ packets'[i] = packets[i + 1]
      /\ next' = packets[1].n + 1
      /\ fTailPacket' = IF Len(packets) = 1 THEN 0 ELSE fTailPacket - 1
  BY <1>1 DEF HeadReleased
<1>3. /\ \A i \in 1..Len(packets) :
            /\ next <= packets[i].n /\ packets[i].n < next + Half
            /\ packets[i].n <= newest
            /\ Ssrc[packets[i].n] = fLastReceivedSSRC
            /\ i # 1 => packets[i].useCount = 0 /\ ~packets[i].isFirstPacket
      /\ \A i, j \in 1..Len(packets) : i < j => packets[i].n < packets[j].n
      /\ fTailPacket = Len(packets)
  BY <1>1 DEF OrderInv, ListInOrder
<1>4. next \in Nat /\ next <= packets[1].n /\ 1 \in 1..Len(packets)
  BY <1>1, <1>3 DEF TypeOK
<1>5. ASSUME NEW i \in 1..Len(packets')
      PROVE  /\ next' <= packets'[i].n /\ packets'[i].n < next' + Half
             /\ packets'[i].n <= newest'
             /\ Ssrc[packets'[i].n] = fLastReceivedSSRC'
             /\ packets'[i].useCount = 0 /\ ~packets'[i].isFirstPacket
  <2>1. /\ i + 1 \in 1..Len(packets) /\ packets'[i] = packets[i + 1]
        /\ i + 1 # 1 /\ 1 < i + 1
    BY <1>1, <1>2
  <2>2. packets[1].n < packets[i + 1].n
    BY <1>3, <1>4, <2>1
  <2>3. packets[i + 1].n < (packets[1].n + 1) + Half
    <3>1. Half \in Nat /\ packets[1].n \in Nat /\ packets[i + 1].n \in Nat
      BY <1>1, <1>4, <2>1, Circle
    <3>2. packets[i + 1].n < next + Half
      BY <1>3, <2>1
    <3> QED
      BY SMTT(30), <1>4, <3>1, <3>2
  <2>4. packets[1].n + 1 <= packets[i + 1].n
    BY <1>1, <1>4, <2>1, <2>2
  <2>5. /\ packets[i + 1].n <= newest /\ newest' = newest
        /\ Ssrc[packets[i + 1].n] = fLastReceivedSSRC
        /\ packets[i + 1].useCount = 0 /\ ~packets[i + 1].isFirstPacket
    BY <1>3, <2>1
  <2> QED
    BY <1>2, <2>1, <2>3, <2>4, <2>5
<1>6. \A i, j \in 1..Len(packets') : i < j => packets'[i].n < packets'[j].n
  <2> SUFFICES ASSUME NEW i \in 1..Len(packets'), NEW j \in 1..Len(packets'), i < j
               PROVE  packets'[i].n < packets'[j].n
    OBVIOUS
  <2>1. /\ i + 1 \in 1..Len(packets) /\ packets'[i] = packets[i + 1]
        /\ j + 1 \in 1..Len(packets) /\ packets'[j] = packets[j + 1]
        /\ i + 1 < j + 1
    BY <1>1, <1>2
  <2> QED
    BY <1>3, <2>1
<1>7. fTailPacket' = Len(packets')
  BY <1>1, <1>2, <1>3
<1>8. ListInOrder'
  BY <1>5, <1>6, <1>7 DEF ListInOrder
<1>9. packets[1].n \in Numbers /\ Ssrc[packets[1].n] = fLastReceivedSSRC
  BY <1>3, <1>4, Elements
<1>10. FirstSeqNo[fLastReceivedSSRC] \in SeqNos
  BY <1>9, PacketAssumption DEF SeqNos
<1>11. fNextExpectedSeqNo' = SeqNoOf(fLastReceivedSSRC, next')
  <2>1. SeqNo(packets[1]) = (FirstSeqNo[fLastReceivedSSRC] + packets[1].n) % SeqNoRange
    BY <1>9 DEF SeqNo
  <2> QED
    BY <1>1, <1>2, <1>4, <1>10, <2>1, Followed DEF SeqNoOf, HeadReleased
<1>12. ExpectedNumber' = next'
  <2>1. packets' # <<>> => 1 \in 1..Len(packets')
    BY <1>2, EmptySeq
  <2>2. ~HeadIsInUse'
    BY <1>5, <2>1 DEF HeadIsInUse
  <2> QED
    BY <2>2 DEF ExpectedNumber
<1>13. /\ fHaveSeenFirstPacket' = fHaveSeenFirstPacket /\ fHaveSeenFirstPacket
       /\ fLastReceivedSSRC \in Range(Ssrc)
  BY DEF HeadReleased, OrderInv, ExpectedAgrees
<1>14. next' <= newest' + 1
  BY <1>1, <1>2, <1>3, <1>4
<1>15. ExpectedAgrees'
  BY <1>11, <1>12, <1>13, <1>14 DEF ExpectedAgrees
<1> QED
  BY <1>8, <1>15 DEF OrderInv

\* Using a piece of the head keeps the list in order.
LEMMA PartKeepsOrder ==
  ASSUME TypeOK, OrderInv, HeadUsedInPart, UNCHANGED <<newest, fLastReceivedSSRC>>
  PROVE  OrderInv'
<1>1. /\ packets \in Seq(PacketSet) /\ Len(packets) \in Nat
      /\ Len(packets) > 0 /\ 1 \in 1..Len(packets)
  BY Elements DEF HeadUsedInPart
<1>2. /\ packets' \in Seq(PacketSet) /\ Len(packets') = Len(packets)
      /\ packets' # <<>>
      /\ \A i \in 1..Len(packets) :
            /\ packets'[i].n = packets[i].n
            /\ packets'[i].isFirstPacket = packets[i].isFirstPacket
            /\ i # 1 => packets'[i].useCount = packets[i].useCount
      /\ packets'[1].useCount = 1 /\ Kinds[packets[1].n] = "aggregate"
      /\ next' = next /\ fTailPacket' = fTailPacket
  <2>1. \A i \in 1..Len(packets) : i = 1 \/ i \in 2..Len(packets)
    BY <1>1
  <2>2. Len(packets') = Len(packets) /\ packets' # <<>>
    BY <1>1, EmptySeq DEF HeadUsedInPart
  <2> QED
    BY <2>1, <2>2 DEF HeadUsedInPart
<1>3. ListInOrder'
  BY ZenonT(60), <1>1, <1>2 DEF OrderInv, ListInOrder
<1>4. HeadIsInUse' /\ ExpectedNumber' = packets[1].n
  BY <1>1, <1>2 DEF HeadIsInUse, ExpectedNumber
<1>5. fNextExpectedSeqNo' = SeqNoOf(fLastReceivedSSRC, packets[1].n)
  BY <1>1 DEF HeadUsedInPart, SeqNo, SeqNoOf, OrderInv, ListInOrder
<1>6. ExpectedAgrees'
  BY <1>2, <1>4, <1>5 DEF OrderInv, ExpectedAgrees, HeadUsedInPart
<1> QED
  BY <1>3, <1>6 DEF OrderInv

\* A packet that arrives keeps the list in order.
LEMMA ArrivalKeepsOrder ==
  ASSUME TypeOK, OrderInv, ~SsrcChangesAny, NEW n \in Numbers, PacketArrives(n)
  PROVE  OrderInv'
<1>1. /\ newest' \in Nat /\ newest <= newest' /\ n <= newest'
      /\ fLastReceivedSSRC' = Ssrc[n] /\ fHaveSeenFirstPacket' = TRUE
  BY Arrived
<1>2. n \in Nat /\ next \in Nat /\ Len(packets) \in Nat
  BY PacketAssumption, Elements DEF TypeOK
<1>3. CASE /\ SeenFirst(n) /\ Ssrc[n] = fLastReceivedSSRC
           /\ UNCHANGED <<next, fNextExpectedSeqNo>>
           /\ ListUnchanged
  <2>1. fHaveSeenFirstPacket /\ newest \in Nat
    BY <1>3 DEF SeenFirst, TypeOK
  <2>2. \A i \in 1..Len(packets) : packets[i].n \in Nat /\ packets[i].n <= newest'
    BY <1>1, <2>1, Elements DEF OrderInv, ListInOrder
  <2>3. ListInOrder'
    BY <1>1, <1>3, <2>2 DEF OrderInv, ListInOrder, ListUnchanged
  <2>4. next' <= newest' + 1
    <3> DEFINE b == newest'
    <3>1. b \in Nat /\ newest <= b /\ next <= newest + 1 /\ next' = next
      BY <1>1, <1>3 DEF OrderInv, ExpectedAgrees
    <3> HIDE DEF b
    <3>2. next <= b + 1
      BY <1>2, <2>1, <3>1
    <3> QED
      BY <3>1, <3>2 DEF b
  <2>5. ExpectedNumber' = ExpectedNumber
    BY <1>3 DEF ExpectedNumber, HeadIsInUse, ListUnchanged
  <2>6. ExpectedAgrees'
    BY <1>1, <1>3, <2>1, <2>4, <2>5 DEF OrderInv, ExpectedAgrees
  <2> QED
    BY <2>3, <2>6 DEF OrderInv
<1>4. CASE /\ SeenFirst(n) /\ Ssrc[n] = fLastReceivedSSRC
           /\ UNCHANGED <<next, fNextExpectedSeqNo>>
           /\ \E k \in 1..Len(packets) + 1 :
                 /\ InsertedAs(k, Packet(n, Descriptor = "saved", FALSE))
                 /\ BelongsAt(n, k)
  <2> DEFINE p == Packet(n, Descriptor = "saved", FALSE)
  <2>1. p \in PacketSet /\ p.n = n /\ p.useCount = 0 /\ ~p.isFirstPacket
    BY DEF Packet, PacketSet
  <2> HIDE DEF p
  <2>2. PICK k \in 1..Len(packets) + 1 : InsertedAs(k, p) /\ BelongsAt(n, k)
    BY <1>4 DEF p
  <2>3. fNextExpectedSeqNo' = SeqNoOf(Ssrc[n], IF packets = <<>> THEN next'
                                               ELSE ExpectedNumber)
    BY <1>4 DEF SeenFirst, OrderInv, ExpectedAgrees, ExpectedNumber, HeadIsInUse
  <2>4. /\ packets # <<>> => UNCHANGED <<next, fNextExpectedSeqNo, fLastReceivedSSRC>>
        /\ next' \in Nat
    BY <1>1, <1>2, <1>4
  <2> QED
    BY <1>1, <2>1, <2>2, <2>3, <2>4, InsertionKeepsOrder
<1>5. CASE /\ packets = <<>>
           /\ next' = n /\ fNextExpectedSeqNo' = SeqNoOf(Ssrc[n], n)
           /\ InsertedAs(1, Packet(n, Descriptor = "saved", TRUE))
  <2> DEFINE p == Packet(n, Descriptor = "saved", TRUE)
  <2>1. p \in PacketSet /\ p.n = n /\ p.useCount = 0
    BY DEF Packet, PacketSet
  <2> HIDE DEF p
  <2>2. BelongsAt(n, 1)
    <3>1. Len(packets) = 0 /\ ~HeadIsInUse
      BY <1>5, EmptySeq DEF HeadIsInUse
    <3> QED
      BY <1>2, <1>5, <3>1, Circle DEF BelongsAt
  <2>3. InsertedAs(1, p) /\ n = next' /\ next' \in Nat
    BY <1>2, <1>5 DEF p
  <2>0. 1 \in 1..Len(packets) + 1
    BY <1>2
  <2>4. fNextExpectedSeqNo' = SeqNoOf(Ssrc[n], IF packets = <<>> THEN next'
                                               ELSE ExpectedNumber)
    BY <1>5
  <2> QED
    BY <1>1, <1>5, <2>0, <2>1, <2>2, <2>3, <2>4, InsertionKeepsOrder
<1> QED
  BY <1>3, <1>4, <1>5, Arrived

-----------------------------------------------------------------------------
(***************************************************************************)
(* Types.                                                                  *)
(***************************************************************************)

\* The part of TypeOK that is about the list and what it was handed on to.
ListTypeOK ==
    /\ fHaveSeenFirstPacket \in BOOLEAN
    /\ fNextExpectedSeqNo \in SeqNos
    /\ packets \in Seq(PacketSet)
    /\ fTailPacket \in Nat
    /\ fSavedPacket \in {None, "free", "used"}
    /\ next \in Nat

\* The part that is about the reads.
ReadTypeOK ==
    /\ fPacketReadInProgress \in {None, "saved", "new"}
    /\ fLastReceivedSSRC \in Range(Ssrc) \cup {None}
    /\ fAreDoingNetworkReads \in BOOLEAN
    /\ newest \in Nat

\* The part that is about the frame and the client.
FrameTypeOK ==
    /\ fNeedDelivery \in BOOLEAN /\ fPacketLossInFragmentedFrame \in BOOLEAN
    /\ fCurrentPacketBeginsFrame \in BOOLEAN
    /\ fCurrentPacketCompletesFrame \in BOOLEAN
    /\ nextTask \in BOOLEAN /\ fIsCurrentlyAwaitingData \in BOOLEAN
    /\ delivering \in BOOLEAN
    /\ frame \in Seq(Piece) /\ delivered \in Seq(Piece)

\* The three parts are the whole.
LEMMA TypeParts ==
  /\ TypeOK <=> ListTypeOK /\ ReadTypeOK /\ FrameTypeOK
  /\ TypeOK' <=> ListTypeOK' /\ ReadTypeOK' /\ FrameTypeOK'
BY DEF TypeOK, ListTypeOK, ReadTypeOK, FrameTypeOK, PacketSet

\* Sequence numbers are 16-bit numbers.
LEMMA SeqNoTypes ==
  /\ \A n \in Numbers : SeqNoOf(Ssrc[n], n) \in SeqNos
  /\ \A p \in PacketSet : SeqNo(p) \in SeqNos /\ Following(SeqNo(p)) \in SeqNos
<1>1. ASSUME NEW n \in Numbers
      PROVE  /\ SeqNoOf(Ssrc[n], n) \in SeqNos
             /\ Following(SeqNoOf(Ssrc[n], n)) \in SeqNos
  <2>1. FirstSeqNo[Ssrc[n]] \in SeqNos /\ n \in Nat /\ n + 1 \in Nat
    BY PacketAssumption DEF SeqNos
  <2> QED
    BY <2>1, Followed DEF SeqNoOf
<1>2. \A p \in PacketSet : p.n \in Numbers /\ SeqNo(p) = SeqNoOf(Ssrc[p.n], p.n)
  BY DEF PacketSet, SeqNo, SeqNoOf
<1> QED
  BY <1>1, <1>2

\* The descriptor read into, and what freePacket() leaves.
LEMMA DescriptorTypes ==
  ASSUME TypeOK
  PROVE  /\ Descriptor \in {"saved", "new"}
         /\ \A saved \in BOOLEAN : Freed(saved) \in {None, "free", "used"}
BY DEF TypeOK, Descriptor, Freed, None

\* Taking the head out, or using a piece of it, keeps the types of the list.
LEMMA HeadKeepsTypes ==
  ASSUME TypeOK, OrderInv, HeadReleased \/ HeadUsedInPart
  PROVE  ListTypeOK'
<1>1. /\ packets # <<>>
      /\ packets[1] \in PacketSet /\ packets[1].n \in Nat
      /\ packets[1].saved \in BOOLEAN
      /\ Len(packets) \in Nat /\ Len(packets) > 0
      /\ fTailPacket = Len(packets)
  <2>1. packets # <<>>
    BY DEF HeadReleased, HeadUsedInPart
  <2>2. packets[1] \in PacketSet
    BY <2>1, Elements
  <2> QED
    BY <2>1, <2>2, Elements DEF OrderInv, ListInOrder, PacketSet
<1>2. SeqNo(packets[1]) \in SeqNos /\ Following(SeqNo(packets[1])) \in SeqNos
  BY <1>1, SeqNoTypes
<1>3. Freed(packets[1].saved) \in {None, "free", "used"}
  BY <1>1, DescriptorTypes
<1>4. CASE HeadReleased
  BY <1>1, <1>2, <1>3, <1>4 DEF HeadReleased, ListTypeOK, TypeOK
<1>5. CASE HeadUsedInPart
  BY <1>1, <1>2, <1>5 DEF HeadUsedInPart, ListTypeOK, TypeOK
<1> QED
  BY <1>4, <1>5

\* A packet that arrives keeps the types.
LEMMA ArrivalKeepsTypes ==
  ASSUME TypeOK, OrderInv, ~SsrcChangesAny, NEW n \in Numbers, PacketArrives(n)
  PROVE  TypeOK'
<1>1. /\ newest' \in Nat
      /\ fLastReceivedSSRC' = Ssrc[n] /\ fHaveSeenFirstPacket' = TRUE
  BY Arrived
<1>2. ListTypeOK /\ ReadTypeOK /\ FrameTypeOK
  BY TypeParts
<1>3. fSavedPacket' \in {None, "free", "used"}
  <2>1. Freed(Descriptor = "saved") \in {None, "free", "used"}
    BY DescriptorTypes
  <2> QED
    BY <2>1, <1>2, Arrived DEF ListTypeOK
<1>4. next' \in Nat /\ fNextExpectedSeqNo' \in SeqNos
  BY <1>2, SeqNoTypes, PacketAssumption, Arrived DEF ListTypeOK
<1>5. packets' \in Seq(PacketSet) /\ fTailPacket' \in Nat
  <2>1. ASSUME NEW k, NEW p, InsertedAs(k, p)
        PROVE  packets' \in Seq(PacketSet) /\ fTailPacket' \in Nat
    BY <2>1, LenProperties DEF InsertedAs
  <2> QED
    BY <1>2, <2>1, Arrived DEF ListTypeOK, ListUnchanged
<1>6. ListTypeOK'
  BY <1>1, <1>3, <1>4, <1>5 DEF ListTypeOK
<1>7. ReadTypeOK'
  <2>1. Ssrc[n] \in Range(Ssrc)
    BY PacketAssumption DEF Range
  <2> QED
    BY <1>1, <1>2, <2>1 DEF ReadTypeOK, PacketArrives
<1>8. FrameTypeOK'
  BY <1>2 DEF FrameTypeOK, PacketArrives, frameVars, clientVars
<1> QED
  BY <1>6, <1>7, <1>8, TypeParts

\* The frame that a piece of the head is added to.
LEMMA UseKeepsFrameType ==
  ASSUME TypeOK, packets # <<>>, UsePacket
  PROVE  frame' \in Seq(Piece) /\ fPacketLossInFragmentedFrame' = FALSE
<1> DEFINE piece == <<HeadPacket.n, HeadPacket.useCount + 1>>
<1>1. piece \in Piece
  BY Elements DEF Piece, HeadPacket
<1>2. /\ \/ frame' = <<>> \/ frame' = frame
         \/ frame' = Append(<<>>, piece) \/ frame' = Append(frame, piece)
      /\ fPacketLossInFragmentedFrame' = FALSE
  BY DEF UsePacket
<1> HIDE DEF piece
<1>3. frame \in Seq(Piece) /\ <<>> \in Seq(Piece)
  BY EmptySeq DEF TypeOK
<1>4. Append(frame, piece) \in Seq(Piece) /\ Append(<<>>, piece) \in Seq(Piece)
  BY <1>1, <1>3, AppendProperties
<1> QED
  BY <1>2, <1>3, <1>4

\* What the steps of doGetNextFrame1() that take the head have in common.
LEMMA HeadSteps ==
  ASSUME TypeOK, OrderInv,
         RejectHeader \/ RejectFragment \/ UseAndContinue \/ UseAndDeliver
  PROVE  /\ packets # <<>>
         /\ HeadReleased \/ HeadUsedInPart
         /\ UNCHANGED readVars
<1>1. packets # <<>>
  BY DEF RejectHeader, RejectFragment, UseAndContinue, UseAndDeliver,
         HeadIsAccepted, HeadIsTaken
<1>2. HeadReleased \/ HeadUsedInPart
  BY <1>1, ReleaseHeadReleases, HeadIsUsed
     DEF RejectHeader, RejectFragment, UseAndContinue, UseAndDeliver
<1>3. UNCHANGED readVars
  BY DEF RejectHeader, RejectFragment, UseAndContinue, UseAndDeliver
<1> QED
  BY <1>1, <1>2, <1>3

\* Every step keeps the order and the types.
LEMMA StepKeepsOrderAndTypes ==
  ASSUME TypeOK, OrderInv, ~SsrcChangesAny, [Next]_vars
  PROVE  TypeOK' /\ OrderInv'
<1>1. ListTypeOK /\ ReadTypeOK /\ FrameTypeOK
  BY TypeParts
<1> SUFFICES (ListTypeOK' /\ ReadTypeOK' /\ FrameTypeOK') /\ OrderInv'
  BY TypeParts
<1>2. ASSUME UNCHANGED bufferVars
      PROVE  ListTypeOK' /\ (UNCHANGED <<newest, fLastReceivedSSRC>> => OrderInv')
  BY <1>1, <1>2 DEF bufferVars, ListTypeOK, OrderInv, ListInOrder,
                    ExpectedAgrees, ExpectedNumber, HeadIsInUse
<1>3. ASSUME NEW n \in Numbers, PacketArrives(n)
      PROVE  (ListTypeOK' /\ ReadTypeOK' /\ FrameTypeOK') /\ OrderInv'
  BY <1>3, ArrivalKeepsTypes, ArrivalKeepsOrder, TypeParts
<1>4. CASE ReadFails \/ ReadIsIncomplete
  <2>1. /\ UNCHANGED <<fHaveSeenFirstPacket, fNextExpectedSeqNo, packets,
                       fTailPacket, next, fAreDoingNetworkReads,
                       fLastReceivedSSRC, newest, frameVars, clientVars>>
        /\ delivering' \in BOOLEAN
    BY <1>1, <1>4 DEF ReadFails, ReadIsIncomplete, FrameTypeOK
  <2>2. fSavedPacket' \in {None, "free", "used"}
    <3>1. (Descriptor = "saved") \in BOOLEAN
      OBVIOUS
    <3>2. Freed(Descriptor = "saved") \in {None, "free", "used"}
      BY <3>1, DescriptorTypes
    <3> QED
      BY <1>1, <1>4, <3>2 DEF ReadFails, ReadIsIncomplete, ListTypeOK
  <2>3. fPacketReadInProgress' \in {None, "saved", "new"}
    BY <1>4, DescriptorTypes DEF ReadFails, ReadIsIncomplete
  <2>4. OrderInv'
    BY <2>1 DEF OrderInv, ListInOrder, ExpectedAgrees, ExpectedNumber, HeadIsInUse
  <2>5. ListTypeOK'
    BY <1>1, <2>1, <2>2 DEF ListTypeOK
  <2>6. ReadTypeOK'
    BY <1>1, <2>1, <2>3 DEF ReadTypeOK
  <2>7. FrameTypeOK'
    BY <1>1, <2>1 DEF FrameTypeOK, frameVars, clientVars
  <2> QED
    BY <2>4, <2>5, <2>6, <2>7
<1>5. CASE LoopEnds
  <2>1. UNCHANGED <<bufferVars, frameVars, readVars, clientVars>> /\ delivering' = FALSE
    BY <1>5 DEF LoopEnds
  <2>2. ReadTypeOK' /\ UNCHANGED <<newest, fLastReceivedSSRC>>
    BY <1>1, <2>1 DEF ReadTypeOK, readVars
  <2>3. FrameTypeOK'
    BY <1>1, <2>1 DEF FrameTypeOK, frameVars, clientVars
  <2> QED
    BY <1>2, <2>1, <2>2, <2>3
<1>6. CASE RejectHeader \/ RejectFragment \/ UseAndContinue \/ UseAndDeliver
  <2>1. packets # <<>> /\ (HeadReleased \/ HeadUsedInPart) /\ UNCHANGED readVars
    BY <1>6, HeadSteps
  <2>2. UNCHANGED <<newest, fLastReceivedSSRC>>
    BY <2>1 DEF readVars
  <2>3. OrderInv'
    BY <2>1, <2>2, ReleaseKeepsOrder, PartKeepsOrder
  <2>4. ListTypeOK'
    BY <2>1, HeadKeepsTypes
  <2>5. ReadTypeOK'
    BY <1>1, <2>1 DEF ReadTypeOK, readVars
  <2>6. BeginsFrame \in BOOLEAN /\ CompletesFrame \in BOOLEAN
    BY <1>1 DEF FrameTypeOK, BeginsFrame, CompletesFrame
  <2>7. FrameTypeOK'
    <3>1. CASE RejectHeader
      BY <1>1, <3>1 DEF FrameTypeOK, RejectHeader, frameVars, clientVars
    <3>2. CASE RejectFragment
      BY <1>1, <2>6, <3>2 DEF FrameTypeOK, RejectFragment, HeadIsAccepted, clientVars
    <3>3. CASE UseAndContinue
      <4>1. frame' \in Seq(Piece) /\ fPacketLossInFragmentedFrame' = FALSE
        BY <2>1, <3>3, UseKeepsFrameType DEF UseAndContinue
      <4> QED
        BY <1>1, <2>6, <3>3, <4>1 DEF FrameTypeOK, UseAndContinue, HeadIsAccepted, clientVars
    <3>4. CASE UseAndDeliver
      <4>1. frame' \in Seq(Piece) /\ fPacketLossInFragmentedFrame' = FALSE
        BY <2>1, <3>4, UseKeepsFrameType DEF UseAndDeliver
      <4>2. <<>> \in Seq(Piece)
        BY EmptySeq
      <4>3. delivered' \in Seq(Piece)
        BY <1>1, <3>4, <4>1, <4>2 DEF FrameTypeOK, UseAndDeliver
      <4>4. nextTask' \in BOOLEAN /\ fIsCurrentlyAwaitingData' \in BOOLEAN
        BY <1>1, <3>4 DEF FrameTypeOK, UseAndDeliver
      <4>5. /\ fNeedDelivery' = FALSE /\ delivering' = FALSE
            /\ fCurrentPacketBeginsFrame' = BeginsFrame
            /\ fCurrentPacketCompletesFrame' = CompletesFrame
        BY <3>4 DEF UseAndDeliver, HeadIsAccepted
      <4> QED
        BY <2>6, <4>1, <4>3, <4>4, <4>5 DEF FrameTypeOK
    <3> QED
      BY <1>6, <3>1, <3>2, <3>3, <3>4
  <2> QED
    BY <2>3, <2>4, <2>5, <2>7
<1>7. CASE GetNextFrame
  <2>1. UNCHANGED bufferVars /\ UNCHANGED <<newest, fLastReceivedSSRC>>
    BY <1>7 DEF GetNextFrame
  <2>2. ReadTypeOK'
    BY <1>1, <1>7 DEF ReadTypeOK, GetNextFrame
  <2>3. <<>> \in Seq(Piece)
    BY EmptySeq
  <2>4. FrameTypeOK'
    BY <1>1, <1>7, <2>3 DEF FrameTypeOK, GetNextFrame
  <2> QED
    BY <1>2, <2>1, <2>2, <2>4
<1>8. CASE AfterGetting
  <2>1. UNCHANGED <<bufferVars, frameVars, readVars, fNeedDelivery, delivering>>
    BY <1>8 DEF AfterGetting
  <2>2. ReadTypeOK' /\ UNCHANGED <<newest, fLastReceivedSSRC>>
    BY <1>1, <2>1 DEF ReadTypeOK, readVars
  <2>3. <<>> \in Seq(Piece)
    BY EmptySeq
  <2>4. FrameTypeOK'
    BY <1>1, <1>8, <2>1, <2>3 DEF FrameTypeOK, frameVars, AfterGetting
  <2> QED
    BY <1>2, <2>1, <2>2, <2>4
<1>9. CASE StopGettingFrames
  <2>1. /\ packets' = <<>> /\ fTailPacket' = 0 /\ fHaveSeenFirstPacket' = FALSE
        /\ UNCHANGED <<next, newest>>
    BY <1>9 DEF StopGettingFrames
  <2>2. <<>> \in Seq(PacketSet) /\ Len(<<>>) = 0
    BY EmptySeq
  <2>3. OrderInv'
    BY <2>1, <2>2 DEF OrderInv, ListInOrder, ExpectedAgrees
  <2>4. ListTypeOK'
    BY <1>1, <1>9, <2>2 DEF ListTypeOK, StopGettingFrames
  <2>5. ReadTypeOK'
    BY <1>1, <1>9 DEF ReadTypeOK, StopGettingFrames
  <2>6. FrameTypeOK'
    BY <1>1, <1>9 DEF FrameTypeOK, StopGettingFrames
  <2> QED
    BY <2>3, <2>4, <2>5, <2>6
<1>10. CASE UNCHANGED vars
  <2>1. UNCHANGED <<bufferVars, frameVars, readVars, clientVars, delivering>>
    BY <1>10 DEF vars
  <2>2. ReadTypeOK' /\ UNCHANGED <<newest, fLastReceivedSSRC>>
    BY <1>1, <2>1 DEF ReadTypeOK, readVars
  <2>3. FrameTypeOK'
    BY <1>1, <2>1 DEF FrameTypeOK, frameVars, clientVars
  <2> QED
    BY <1>2, <2>1, <2>2, <2>3
<1> QED
  BY <1>3, <1>4, <1>5, <1>6, <1>7, <1>8, <1>9, <1>10 DEF Next

\* The types and the order hold at the beginning.
LEMMA InitOrderAndTypes ==
  ASSUME Init
  PROVE  TypeOK /\ OrderInv
<1>1. /\ <<>> \in Seq(PacketSet) /\ <<>> \in Seq(Piece) /\ Len(<<>>) = 0
  BY EmptySeq
<1>2. 0 \in SeqNos
  BY Circle DEF SeqNos
<1>3. ListTypeOK /\ ReadTypeOK /\ FrameTypeOK
  BY <1>1, <1>2 DEF Init, ListTypeOK, ReadTypeOK, FrameTypeOK
<1>4. OrderInv
  BY <1>1 DEF Init, OrderInv, ListInOrder, ExpectedAgrees
<1> QED
  BY <1>3, <1>4, TypeParts

\* A packet taken without loss is the one that the sender sent next.
LEMMA TakenIsNext ==
  ASSUME TypeOK, OrderInv, packets # <<>>, ExpectedIsHere,
         packets[1].useCount = 0
  PROVE  packets[1].n = next
<1> DEFINE f == FirstSeqNo[fLastReceivedSSRC]
           a == packets[1].n
<1>1. /\ 1 \in 1..Len(packets) /\ Head(packets) = packets[1]
      /\ a \in Numbers /\ a \in Nat /\ next \in Nat
  BY Elements DEF TypeOK
<1>2. /\ next <= a /\ a < next + Half
      /\ Ssrc[a] = fLastReceivedSSRC /\ fHaveSeenFirstPacket
  BY <1>1 DEF OrderInv, ListInOrder, ExpectedAgrees
<1>3. ExpectedNumber = next
  BY DEF ExpectedNumber, HeadIsInUse
<1>4. fNextExpectedSeqNo = (f + next) % SeqNoRange
  BY <1>2, <1>3 DEF OrderInv, ExpectedAgrees, SeqNoOf
<1>5. SeqNo(packets[1]) = (f + a) % SeqNoRange
  BY <1>2 DEF SeqNo
<1>6. f \in SeqNos
  BY <1>1, <1>2, PacketAssumption DEF SeqNos
<1>7. (f + a) % SeqNoRange = (f + next) % SeqNoRange
  BY <1>1, <1>4, <1>5 DEF ExpectedIsHere, HeadPacket
<1> HIDE DEF f, a
<1>8. a - next < Half /\ next - a < Half
  BY <1>1, <1>2, Circle
<1>9. a = next
  BY <1>1, <1>6, <1>7, <1>8, Compared
<1> QED
  BY <1>9 DEF a

\* The invariant says at least what the run checks.
LEMMA OrderInvRestores ==
  ASSUME TypeOK, OrderInv
  PROVE  OrderRestored
<1>1. /\ packets \in Seq(PacketSet) /\ Len(packets) \in Nat
      /\ packets # <<>> => 1 \in 1..Len(packets) /\ Head(packets) = packets[1]
  BY Elements
<1>2. \A i \in 1..Len(packets) - 1 : packets[i].n < packets[i + 1].n
  BY <1>1 DEF OrderInv, ListInOrder
<1>3. packets # <<>> => next <= HeadPacket.n
  BY <1>1 DEF OrderInv, ListInOrder, HeadPacket
<1>4. HeadIsTaken /\ ~PacketLossPreceded /\ HeadPacket.useCount = 0
          => HeadPacket.n = next
  BY <1>1, TakenIsNext DEF HeadIsTaken, PacketLossPreceded, HeadPacket
<1>5. fTailPacket = Len(packets)
  BY DEF OrderInv, ListInOrder
<1> QED
  BY <1>2, <1>3, <1>4, <1>5 DEF OrderRestored

\* The variables have their types, whatever packets are lost, late, repeated or
\* reordered, and however often the client stops and starts.
THEOREM TypeCorrect ==
  ASSUME ~SsrcChangesAny
  PROVE  Spec => []TypeOK
<1>1. Init => TypeOK /\ OrderInv
  BY InitOrderAndTypes
<1>2. TypeOK /\ OrderInv /\ [Next]_vars => TypeOK' /\ OrderInv'
  BY StepKeepsOrderAndTypes
<1> QED
  BY <1>1, <1>2, PTL DEF Spec

\* For any stream, any first sequence numbers and any range of sequence numbers,
\* the list of packets that wait is in the sender's order, and what is taken to
\* follow without loss does (storePacket() and getNextCompletedPacket() compare
\* nothing but sequence numbers that wrap around).
THEOREM OrderIsRestored ==
  ASSUME ~SsrcChangesAny
  PROVE  Spec => []OrderRestored
<1>1. Init => TypeOK /\ OrderInv
  BY InitOrderAndTypes
<1>2. TypeOK /\ OrderInv /\ [Next]_vars => TypeOK' /\ OrderInv'
  BY StepKeepsOrderAndTypes
<1>3. TypeOK /\ OrderInv => OrderRestored
  BY OrderInvRestores
<1> QED
  BY <1>1, <1>2, <1>3, PTL DEF Spec

-----------------------------------------------------------------------------
(***************************************************************************)
(* The descriptor that is kept has one holder.                             *)
(***************************************************************************)

\* Linking in a packet gives the descriptor read into to the list.
LEMMA InsertionKeepsHolder ==
  ASSUME TypeOK, HolderInv, NEW k \in 1..Len(packets) + 1, NEW p,
         p.saved <=> Descriptor = "saved", InsertedAs(k, p),
         fSavedPacket' = IF Descriptor = "saved" THEN "used" ELSE fSavedPacket,
         fPacketReadInProgress' = None
  PROVE  HolderInv'
<1>1. /\ Len(packets) \in Nat /\ Len(packets') = Len(packets) + 1
      /\ \A j \in 1..Len(packets') :
            packets'[j] = IF j < k THEN packets[j]
                          ELSE IF j = k THEN p ELSE packets[j - 1]
  BY Elements DEF InsertedAs
<1>2. \A j \in 1..Len(packets') :
         /\ j < k => j \in 1..Len(packets)
         /\ j > k => j - 1 \in 1..Len(packets)
  BY <1>1
<1>3. k \in 1..Len(packets')
  BY <1>1
<1>4. None # "saved"
  BY DEF None
<1>5. CASE Descriptor = "saved"
  <2>1. \A i \in 1..Len(packets) : ~packets[i].saved
    BY <1>5 DEF HolderInv, Descriptor, TypeOK
  <2>2. \A j \in 1..Len(packets') : packets'[j].saved <=> j = k
    BY <1>1, <1>2, <1>5, <2>1
  <2> QED
    BY <1>3, <1>4, <1>5, <2>2 DEF HolderInv
<1>6. CASE Descriptor # "saved"
  <2>1. fPacketReadInProgress # "saved"
    BY <1>6 DEF Descriptor, None
  <2>2. ~packets'[k].saved
    BY <1>1, <1>3, <1>6
  <2>3. CASE fSavedPacket # "used"
    <3>1. \A i \in 1..Len(packets) : ~packets[i].saved
      BY <2>3 DEF HolderInv
    <3>2. \A j \in 1..Len(packets') : ~packets'[j].saved
      BY <1>1, <1>2, <2>2, <3>1
    <3> QED
      BY <1>4, <1>6, <2>3, <3>2 DEF HolderInv
  <2>4. CASE fSavedPacket = "used"
    <3>1. PICK h \in 1..Len(packets) :
             \A i \in 1..Len(packets) : packets[i].saved <=> i = h
      BY <2>1, <2>4 DEF HolderInv
    <3> DEFINE g == IF h < k THEN h ELSE h + 1
    <3>2. g \in 1..Len(packets') /\ g # k
      BY <1>1
    <3>3. ASSUME NEW j \in 1..Len(packets')
          PROVE  packets'[j].saved <=> j = g
      <4>1. CASE j < k
        <5>1. j \in 1..Len(packets) /\ packets'[j] = packets[j]
          BY <1>1, <1>2, <4>1
        <5> QED
          BY <1>1, <3>1, <4>1, <5>1
      <4>2. CASE j = k
        BY <2>2, <3>2, <4>2
      <4>3. CASE j > k
        <5>1. j - 1 \in 1..Len(packets) /\ packets'[j] = packets[j - 1]
          BY <1>1, <1>2, <4>3
        <5>2. j - 1 = h <=> j = g
          BY <1>1, <4>3
        <5> QED
          BY <3>1, <5>1, <5>2
      <4> QED
        BY <4>1, <4>2, <4>3
    <3> QED
      BY <1>4, <1>6, <2>4, <3>2, <3>3 DEF HolderInv
  <2> QED
    BY <2>3, <2>4
<1> QED
  BY <1>5, <1>6

\* Freeing the descriptor read into.
LEMMA FreeingKeepsHolder ==
  ASSUME TypeOK, HolderInv, UNCHANGED packets,
         fSavedPacket' = Freed(Descriptor = "saved"),
         fPacketReadInProgress' = None
  PROVE  HolderInv'
<1>1. None # "saved" /\ None # "free"
  BY DEF None
<1>2. CASE Descriptor = "saved"
  <2>1. \A i \in 1..Len(packets) : ~packets[i].saved
    BY <1>2 DEF HolderInv, Descriptor, TypeOK
  <2> QED
    BY <1>1, <1>2, <2>1 DEF HolderInv, Freed
<1>3. CASE Descriptor # "saved"
  <2>1. fPacketReadInProgress # "saved"
    BY <1>3 DEF Descriptor, None
  <2> QED
    BY <1>1, <1>3, <2>1 DEF HolderInv, Freed
<1> QED
  BY <1>2, <1>3

\* Taking the head out frees its descriptor, if it is the one that is kept.
LEMMA HeadKeepsHolder ==
  ASSUME TypeOK, HolderInv, HeadReleased \/ HeadUsedInPart,
         UNCHANGED fPacketReadInProgress
  PROVE  HolderInv'
<1>1. /\ Len(packets) \in Nat /\ Len(packets) > 0 /\ 1 \in 1..Len(packets)
      /\ packets[1].saved \in BOOLEAN
  <2>1. packets # <<>>
    BY DEF HeadReleased, HeadUsedInPart
  <2> QED
    BY <2>1, Elements DEF PacketSet
<1>2. CASE HeadReleased
  <2>1. /\ Len(packets') = Len(packets) - 1
        /\ \A i \in 1..Len(packets') :
              i + 1 \in 1..Len(packets) /\ packets'[i] = packets[i + 1] /\ i + 1 # 1
        /\ fSavedPacket' = IF packets[1].saved THEN "free" ELSE fSavedPacket
    BY <1>1, <1>2 DEF HeadReleased, Freed
  <2>2. CASE packets[1].saved
    <3>1. /\ fSavedPacket = "used" /\ fPacketReadInProgress # "saved"
          /\ \A i \in 1..Len(packets) : i # 1 => ~packets[i].saved
      BY <1>1, <2>2 DEF HolderInv
    <3>2. \A i \in 1..Len(packets') : ~packets'[i].saved
      BY <2>1, <3>1
    <3> QED
      BY <2>1, <2>2, <3>1, <3>2 DEF HolderInv
  <2>3. CASE ~packets[1].saved
    <3>1. fSavedPacket' = fSavedPacket
      BY <2>1, <2>3
    <3>2. CASE \A i \in 1..Len(packets) : ~packets[i].saved
      <4>1. \A i \in 1..Len(packets') : ~packets'[i].saved
        BY <2>1, <3>2
      <4>2. fSavedPacket = "used" => fPacketReadInProgress = "saved"
        BY <3>2 DEF HolderInv
      <4> QED
        BY <3>1, <4>1, <4>2 DEF HolderInv
    <3>3. CASE ~ \A i \in 1..Len(packets) : ~packets[i].saved
      <4>1. fSavedPacket = "used" /\ fPacketReadInProgress # "saved"
        BY <3>3 DEF HolderInv
      <4>2. PICK h \in 1..Len(packets) :
               \A i \in 1..Len(packets) : packets[i].saved <=> i = h
        BY <4>1 DEF HolderInv
      <4>3. h # 1 /\ h - 1 \in 1..Len(packets')
        BY <1>1, <2>1, <2>3, <4>2
      <4>4. \A i \in 1..Len(packets') : packets'[i].saved <=> i = h - 1
        BY <1>1, <2>1, <4>2
      <4> QED
        BY <3>1, <4>1, <4>3, <4>4 DEF HolderInv
    <3> QED
      BY <3>2, <3>3
  <2> QED
    BY <1>1, <2>2, <2>3
<1>3. CASE HeadUsedInPart
  <2>1. \A i \in 1..Len(packets) : i = 1 \/ i \in 2..Len(packets)
    BY <1>1
  <2>2. /\ Len(packets') = Len(packets) /\ UNCHANGED fSavedPacket
        /\ \A i \in 1..Len(packets) : packets'[i].saved <=> packets[i].saved
    BY <1>3, <2>1 DEF HeadUsedInPart
  <2>3. CASE \A i \in 1..Len(packets) : ~packets[i].saved
    <3>1. \A i \in 1..Len(packets') : ~packets'[i].saved
      BY <2>2, <2>3
    <3>2. fSavedPacket = "used" => fPacketReadInProgress = "saved"
      BY <2>3 DEF HolderInv
    <3>3. fSavedPacket # "used" => fPacketReadInProgress # "saved"
      BY DEF HolderInv
    <3> QED
      BY <2>2, <3>1, <3>2, <3>3 DEF HolderInv
  <2>4. CASE ~ \A i \in 1..Len(packets) : ~packets[i].saved
    <3>1. fSavedPacket = "used" /\ fPacketReadInProgress # "saved"
      BY <2>4 DEF HolderInv
    <3>2. PICK h \in 1..Len(packets) :
             \A i \in 1..Len(packets) : packets[i].saved <=> i = h
      BY <3>1 DEF HolderInv
    <3>3. /\ h \in 1..Len(packets')
          /\ \A i \in 1..Len(packets') : packets'[i].saved <=> i = h
      BY <2>2, <3>2
    <3> QED
      BY <2>2, <3>1, <3>3 DEF HolderInv
  <2> QED
    BY <2>3, <2>4
<1> QED
  BY <1>2, <1>3

\* Every step leaves the descriptor with one holder.
LEMMA StepKeepsHolder ==
  ASSUME TypeOK, OrderInv, HolderInv, ~SsrcChangesAny, [Next]_vars
  PROVE  HolderInv'
<1>1. ASSUME NEW n \in Numbers, PacketArrives(n) PROVE HolderInv'
  <2>1. fPacketReadInProgress' = None
    BY <1>1 DEF PacketArrives
  <2>2. CASE ListUnchanged /\ fSavedPacket' = Freed(Descriptor = "saved")
    BY <2>1, <2>2, FreeingKeepsHolder DEF ListUnchanged
  <2>3. CASE /\ fSavedPacket' = IF Descriptor = "saved" THEN "used" ELSE fSavedPacket
             /\ \E k \in 1..Len(packets) + 1, first \in BOOLEAN :
                   InsertedAs(k, Packet(n, Descriptor = "saved", first))
    <3>1. PICK k \in 1..Len(packets) + 1, first \in BOOLEAN :
             InsertedAs(k, Packet(n, Descriptor = "saved", first))
      BY <2>3
    <3> DEFINE p == Packet(n, Descriptor = "saved", first)
    <3>2. p.saved <=> Descriptor = "saved"
      BY DEF Packet
    <3> HIDE DEF p
    <3>3. InsertedAs(k, p)
      BY <3>1 DEF p
    <3> QED
      BY <2>1, <2>3, <3>2, <3>3, InsertionKeepsHolder
  <2>4. 1 \in 1..Len(packets) + 1
    BY Elements
  <2> QED
    BY <1>1, <2>2, <2>3, <2>4, Arrived
<1>2. CASE ReadFails
  BY <1>2, FreeingKeepsHolder DEF ReadFails
<1>3. CASE ReadIsIncomplete
  <2>1. CASE Descriptor = "saved"
    <3>1. \A i \in 1..Len(packets) : ~packets[i].saved
      BY <2>1 DEF HolderInv, Descriptor, TypeOK
    <3> QED
      BY <1>3, <2>1, <3>1 DEF HolderInv, ReadIsIncomplete
  <2>2. CASE Descriptor # "saved"
    <3>1. fPacketReadInProgress # "saved"
      BY <2>2 DEF Descriptor, None
    <3> QED
      BY <1>3, <2>2, <3>1 DEF HolderInv, ReadIsIncomplete
  <2> QED
    BY <2>1, <2>2
<1>4. CASE RejectHeader \/ RejectFragment \/ UseAndContinue \/ UseAndDeliver
  <2>1. (HeadReleased \/ HeadUsedInPart) /\ UNCHANGED fPacketReadInProgress
    BY <1>4, HeadSteps DEF readVars
  <2> QED
    BY <2>1, HeadKeepsHolder
<1>5. CASE UNCHANGED <<packets, fSavedPacket, fPacketReadInProgress>>
  BY <1>5 DEF HolderInv
<1>6. CASE StopGettingFrames
  <2>1. /\ packets' = <<>> /\ Len(<<>>) = 0 /\ fSavedPacket' = None
        /\ fPacketReadInProgress' = None
    BY <1>6, EmptySeq DEF StopGettingFrames
  <2> QED
    BY <2>1 DEF HolderInv, None
<1>7. LoopEnds \/ GetNextFrame \/ AfterGetting \/ UNCHANGED vars
        => UNCHANGED <<packets, fSavedPacket, fPacketReadInProgress>>
  BY DEF LoopEnds, GetNextFrame, AfterGetting, vars, bufferVars, readVars
<1> QED
  BY <1>1, <1>2, <1>3, <1>4, <1>5, <1>6, <1>7 DEF Next

\* The holder in the invariant is the one that the run counts.
LEMMA HolderCounted ==
  ASSUME TypeOK, HolderInv
  PROVE  OneHolder
<1> DEFINE inList == {i \in 1..Len(packets) : packets[i].saved}
<1>1. CASE fSavedPacket # "used"
  BY <1>1 DEF HolderInv, OneHolder
<1>2. CASE fSavedPacket = "used"
  <2>1. CASE fPacketReadInProgress = "saved"
    <3>1. inList = {}
      BY <1>2, <2>1 DEF HolderInv
    <3>2. Cardinality(inList) = 0
      BY <3>1, FS_EmptySet
    <3> QED
      BY <1>2, <2>1, <3>2 DEF OneHolder
  <2>2. CASE fPacketReadInProgress # "saved"
    <3>1. PICK h \in 1..Len(packets) :
             \A i \in 1..Len(packets) : packets[i].saved <=> i = h
      BY <1>2, <2>2 DEF HolderInv
    <3>2. inList = {h}
      BY <3>1
    <3>3. Cardinality(inList) = 1
      BY <3>2, FS_Singleton
    <3> QED
      BY <1>2, <2>2, <3>3 DEF OneHolder
  <2> QED
    BY <2>1, <2>2
<1> QED
  BY <1>1, <1>2

\* fSavedPacket has one holder as long as it exists: a read never goes into a
\* packet that waits (getFreePacket(), freePacket(), and a read over TCP that is
\* gone on with later).
THEOREM DescriptorHasOneHolder ==
  ASSUME ~SsrcChangesAny
  PROVE  Spec => []OneHolder
<1>1. Init => TypeOK /\ OrderInv /\ HolderInv
  <2>1. Init => HolderInv
    BY EmptySeq DEF Init, HolderInv, None
  <2> QED
    BY <2>1, InitOrderAndTypes
<1>2. TypeOK /\ OrderInv /\ HolderInv /\ [Next]_vars
        => TypeOK' /\ OrderInv' /\ HolderInv'
  BY StepKeepsOrderAndTypes, StepKeepsHolder
<1>3. TypeOK /\ HolderInv => OneHolder
  BY HolderCounted
<1> QED
  BY <1>1, <1>2, <1>3, PTL DEF Spec

-----------------------------------------------------------------------------
(***************************************************************************)
(* The client receives whole frames.                                       *)
(***************************************************************************)

\* A piece put after a frame.
LEMMA Appended ==
  ASSUME NEW f \in Seq(Piece), NEW x \in Piece, NEW g, g = Append(f, x)
  PROVE  /\ g \in Seq(Piece) /\ Len(g) = Len(f) + 1 /\ Len(f) \in Nat
         /\ \A i \in 1..Len(f) : g[i] = f[i]
         /\ g[Len(f) + 1] = x
         /\ HasAggregate(f) \/ Kinds[x[1]] = "aggregate" => HasAggregate(g)
         /\ f = <<>> => g = <<x>>
<1>1. /\ g \in Seq(Piece) /\ Len(g) = Len(f) + 1 /\ Len(f) \in Nat
      /\ \A i \in 1..Len(f) : g[i] = f[i]
      /\ g[Len(f) + 1] = x
  BY AppendProperties, LenProperties
<1>2. HasAggregate(f) => HasAggregate(g)
  BY <1>1 DEF HasAggregate
<1>3. Kinds[x[1]] = "aggregate" => HasAggregate(g)
  <2>1. Len(f) + 1 \in 1..Len(g)
    BY <1>1
  <2> QED
    BY <1>1, <2>1 DEF HasAggregate
<1>4. f = <<>> => g = <<x>>
  <2>1. Append(<<>>, x) = <<x>>
    OBVIOUS
  <2> QED
    BY <2>1
<1> QED
  BY <1>1, <1>2, <1>3, <1>4

\* A piece that begins a NAL unit, goes on with it or comes after a header that
\* is rejected, put after pieces that are joined.
LEMMA PieceJoined ==
  ASSUME NEW f \in Seq(Piece), NEW x \in Piece, NEW g, g = Append(f, x), Joined(f),
         \/ Kinds[x[1]] \in {"single", "start"} /\ ~HoldsData(f)
         \/ /\ f # <<>>
            /\ x[1] = LastNumber(f) + 1 /\ Ssrc[x[1]] = Ssrc[LastNumber(f)]
            /\ Kinds[LastNumber(f)] \in {"start", "middle"}
            /\ Kinds[x[1]] \in {"middle", "end"}
         \/ \E n \in Numbers : /\ x[1] = n + 1 /\ Kinds[n] = "malformed"
                               /\ Ssrc[x[1]] = Ssrc[n]
  PROVE  Joined(g)
<1> DEFINE k == Len(f) + 1
<1>1. /\ g \in Seq(Piece) /\ Len(g) = k /\ Len(f) \in Nat
      /\ \A i \in 1..Len(f) : g[i] = f[i]
      /\ g[k] = x
  BY Appended
<1>2. ASSUME NEW i \in 1..Len(f)
      PROVE BeginsHere(g, i) \/ FollowsHere(g, i) \/ AfterRejected(g, i)
  <2>1. g[i] = f[i] /\ \A j \in 1..i - 1 : g[j] = f[j]
    BY <1>1
  <2>2. i > 1 => g[i - 1] = f[i - 1]
    BY <1>1
  <2>3. BeginsHere(f, i) => BeginsHere(g, i)
    BY <2>1 DEF BeginsHere
  <2>4. FollowsHere(f, i) => FollowsHere(g, i)
    BY <2>1, <2>2 DEF FollowsHere
  <2>5. AfterRejected(f, i) => AfterRejected(g, i)
    BY <2>1 DEF AfterRejected
  <2> QED
    BY <2>3, <2>4, <2>5 DEF Joined
<1>3. BeginsHere(g, k) \/ FollowsHere(g, k) \/ AfterRejected(g, k)
  <2>1. CASE Kinds[x[1]] \in {"single", "start"} /\ ~HoldsData(f)
    <3>1. \A j \in 1..k - 1 : ~HasData(g[j])
      BY <1>1, <2>1 DEF HoldsData
    <3> QED
      BY <1>1, <2>1, <3>1 DEF BeginsHere
  <2>2. CASE /\ f # <<>>
             /\ x[1] = LastNumber(f) + 1 /\ Ssrc[x[1]] = Ssrc[LastNumber(f)]
             /\ Kinds[LastNumber(f)] \in {"start", "middle"}
             /\ Kinds[x[1]] \in {"middle", "end"}
    <3>1. k > 1 /\ k - 1 = Len(f) /\ Len(f) \in 1..Len(f)
      BY <1>1, <2>2, EmptySeq
    <3>2. g[k - 1][1] = LastNumber(f)
      BY <1>1, <3>1 DEF LastNumber
    <3> QED
      BY <1>1, <2>2, <3>1, <3>2 DEF FollowsHere
  <2>3. CASE \E n \in Numbers : /\ x[1] = n + 1 /\ Kinds[n] = "malformed"
                                /\ Ssrc[x[1]] = Ssrc[n]
    BY <1>1, <2>3 DEF AfterRejected
  <2> QED
    BY <2>1, <2>2, <2>3
<1>4. \A i \in 1..Len(g) : i \in 1..Len(f) \/ i = k
  BY <1>1
<1> QED
  BY <1>2, <1>3, <1>4 DEF Joined

\* Nothing is joined in no pieces.
LEMMA NoPieces ==
  /\ Joined(<<>>) /\ ~HoldsData(<<>>) /\ <<>> \in Seq(Piece)
  /\ \A f \in Seq(Piece) : f # <<>> => Len(f) \in 1..Len(f)
<1>1. <<>> \in Seq(Piece) /\ Len(<<>>) = 0 /\ 1..0 = {}
  BY EmptySeq
<1>2. \A f \in Seq(Piece) : f # <<>> => Len(f) \in 1..Len(f)
  BY EmptySeq, LenProperties
<1> QED
  BY <1>1, <1>2 DEF Joined, HoldsData

\* A packet that arrives does not change where the reception is in the sender's
\* frames, but for the first one of a sender.
LEMMA ArrivalKeepsPlace ==
  ASSUME TypeOK, OrderInv, ~SsrcChangesAny, NEW n \in Numbers, PacketArrives(n)
  PROVE  \/ StartsAfresh'
         \/ /\ StartsAfresh => StartsAfresh'
            /\ HeadIsInUse => HeadIsInUse'
            /\ \A m : LastIs(m) => LastIs(m)'
<1>1. fLastReceivedSSRC' = Ssrc[n] /\ fHaveSeenFirstPacket' = TRUE
  BY Arrived
<1>2. /\ Len(packets) \in Nat
      /\ packets # <<>> => 1 \in 1..Len(packets)
  BY Elements
<1>3. CASE /\ SeenFirst(n) /\ Ssrc[n] = fLastReceivedSSRC
           /\ UNCHANGED <<next, fNextExpectedSeqNo>>
           /\ ListUnchanged
  BY <1>1, <1>3 DEF SeenFirst, StartsAfresh, HeadIsInUse, LastIs, ListUnchanged
<1>4. CASE /\ SeenFirst(n) /\ Ssrc[n] = fLastReceivedSSRC
           /\ UNCHANGED <<next, fNextExpectedSeqNo>>
           /\ \E k \in 1..Len(packets) + 1 :
                 /\ InsertedAs(k, Packet(n, Descriptor = "saved", FALSE))
                 /\ BelongsAt(n, k)
  <2> DEFINE p == Packet(n, Descriptor = "saved", FALSE)
  <2> HIDE DEF p
  <2>1. PICK k \in 1..Len(packets) + 1 : InsertedAs(k, p) /\ BelongsAt(n, k)
    BY <1>4 DEF p
  <2>2. /\ packets' # <<>>
        /\ k # 1 => packets'[1] = packets[1]
    <3>1. packets' \in Seq(PacketSet) /\ Len(packets') = Len(packets) + 1
      BY <2>1 DEF InsertedAs
    <3>2. packets' # <<>>
      BY <1>2, <3>1, EmptySeq
    <3>3. 1 \in 1..Len(packets) + 1 /\ (k # 1 => 1 < k)
      BY <1>2
    <3> QED
      BY <2>1, <3>2, <3>3 DEF InsertedAs
  <2>3. StartsAfresh => StartsAfresh'
    BY <1>4, <2>1, <2>2 DEF SeenFirst, StartsAfresh, BelongsAt
  <2>4. HeadIsInUse => HeadIsInUse'
    BY <2>1, <2>2 DEF HeadIsInUse, BelongsAt
  <2>5. \A m : LastIs(m) => LastIs(m)'
    BY <1>1, <1>4 DEF LastIs
  <2> QED
    BY <2>3, <2>4, <2>5
<1>5. CASE packets = <<>> /\ InsertedAs(1, Packet(n, Descriptor = "saved", TRUE))
  <2> DEFINE p == Packet(n, Descriptor = "saved", TRUE)
  <2>1. p.isFirstPacket
    BY DEF Packet
  <2> HIDE DEF p
  <2>2. /\ packets' \in Seq(PacketSet) /\ Len(packets') = Len(packets) + 1
        /\ packets'[1] = p
    <3>1. 1 \in 1..Len(packets) + 1 /\ ~(1 < 1)
      BY <1>2
    <3>2. InsertedAs(1, p)
      BY <1>5 DEF p
    <3> QED
      BY <3>1, <3>2 DEF InsertedAs
  <2>3. packets' # <<>>
    BY <1>2, <2>2, EmptySeq
  <2> QED
    BY <2>1, <2>2, <2>3 DEF StartsAfresh
<1> QED
  BY <1>3, <1>4, <1>5, Arrived

\* The head is not in use when it comes to the front, or arrives.
LEMMA ArrivalKeepsHeadUse ==
  ASSUME TypeOK, OrderInv, ~SsrcChangesAny, NEW n \in Numbers, PacketArrives(n)
  PROVE  HeadIsInUse' => HeadIsInUse
<1>2. /\ Len(packets) \in Nat
      /\ packets # <<>> => 1 \in 1..Len(packets)
  BY Elements
<1>3. CASE ListUnchanged
  BY <1>3 DEF HeadIsInUse, ListUnchanged
<1>4. ASSUME NEW k \in 1..Len(packets) + 1, NEW b \in BOOLEAN,
             InsertedAs(k, Packet(n, Descriptor = "saved", b))
      PROVE  HeadIsInUse' => HeadIsInUse
  <2> DEFINE p == Packet(n, Descriptor = "saved", b)
  <2>1. p.useCount = 0
    BY DEF Packet
  <2> HIDE DEF p
  <2>2. 1 \in 1..Len(packets) + 1 /\ (k # 1 => 1 < k)
    BY <1>2
  <2>3. k = 1 => packets'[1] = p
    BY <1>4, <2>2 DEF InsertedAs, p
  <2>4. k # 1 => packets'[1] = packets[1] /\ packets # <<>>
    BY <1>2, <1>4, <2>2 DEF InsertedAs, p
  <2> QED
    BY <2>1, <2>3, <2>4 DEF HeadIsInUse
<1>5. 1 \in 1..Len(packets) + 1
  BY <1>2
<1> QED
  BY <1>3, <1>4, <1>5, Arrived

\* The packet after the head is unused.
LEMMA NextIsUnused ==
  ASSUME TypeOK, OrderInv, HeadReleased
  PROVE  ~HeadIsInUse'
<1> SUFFICES ASSUME HeadIsInUse' PROVE FALSE
  OBVIOUS
<1>1. /\ packets' \in Seq(PacketSet) /\ packets' # <<>>
      /\ Len(packets') = Len(packets) - 1 /\ Len(packets) \in Nat
  BY Elements DEF HeadReleased, HeadIsInUse
<1>2. 1 \in 1..Len(packets) - 1 /\ 2 \in 1..Len(packets)
  BY <1>1, EmptySeq
<1>3. packets'[1] = packets[2]
  BY <1>2 DEF HeadReleased
<1>4. packets[2].useCount = 0
  BY <1>2, Elements DEF OrderInv, ListInOrder
<1> QED
  BY <1>3, <1>4 DEF HeadIsInUse

\* The kinds of the packets that are used, and what they do to the two flags.
LEMMA UsedKinds ==
  ASSUME TypeOK, OrderInv, HeadIsAccepted
  PROVE  LET kind == Kinds[packets[1].n]
         IN  /\ kind \in {"single", "start", "middle", "end", "aggregate"}
             /\ kind # "aggregate" => packets[1].useCount = 0
             /\ kind \in {"single", "start"} => BeginsFrame
             /\ kind \in {"middle", "end"} => ~BeginsFrame
             /\ kind \in {"single", "end"} => CompletesFrame
             /\ kind \in {"start", "middle"} => ~CompletesFrame
<1>1. /\ packets # <<>> /\ 1 \in 1..Len(packets) /\ HeadPacket = packets[1]
      /\ Kinds[packets[1].n] \in Kind
  BY Elements DEF HeadIsAccepted, HeadIsTaken, HeadPacket
<1>2. packets[1].useCount # 0 => Kinds[packets[1].n] = "aggregate"
  BY <1>1 DEF OrderInv, ListInOrder
<1>3. ~(packets[1].useCount = 0 /\ Kinds[packets[1].n] = "malformed")
  BY <1>1 DEF HeadIsAccepted, HeaderIsLookedAt
<1> QED
  BY <1>1, <1>2, <1>3 DEF Kind, BeginsFrame, CompletesFrame

\* A head that does not come after a loss is the packet after the last one.
LEMMA HeadFollowsLast ==
  ASSUME TypeOK, OrderInv, HeadIsAccepted, ~PacketLossPreceded,
         packets[1].useCount = 0
  PROVE  /\ ~StartsAfresh /\ ~HeadIsInUse
         /\ \A m : LastIs(m) =>
              LET n == packets[1].n
              IN  /\ m \in Numbers /\ n = m + 1 /\ Ssrc[n] = Ssrc[m]
                  /\ Kinds[m] \in {"start", "middle"}
                        => Kinds[n] \in {"middle", "end", "malformed"}
                  /\ Kinds[n] \in {"middle", "end"}
                        => Kinds[m] \in {"start", "middle", "malformed"}
<1> DEFINE h == packets[1]
<1>1. /\ packets # <<>> /\ 1 \in 1..Len(packets) /\ HeadPacket = h
      /\ h.n \in Numbers
  BY Elements DEF HeadIsAccepted, HeadIsTaken, HeadPacket
<1>2. ExpectedIsHere /\ ~h.isFirstPacket
  BY <1>1 DEF PacketLossPreceded
<1>3. h.n = next
  BY <1>1, <1>2, TakenIsNext
<1>4. Ssrc[h.n] = fLastReceivedSSRC /\ ~StartsAfresh /\ ~HeadIsInUse
  BY <1>1, <1>2 DEF OrderInv, ListInOrder, ExpectedAgrees, StartsAfresh, HeadIsInUse
<1>5. ASSUME NEW m, LastIs(m)
      PROVE  /\ m \in Numbers /\ h.n = m + 1 /\ Ssrc[h.n] = Ssrc[m]
             /\ Kinds[m] \in {"start", "middle"}
                   => Kinds[h.n] \in {"middle", "end", "malformed"}
             /\ Kinds[h.n] \in {"middle", "end"}
                   => Kinds[m] \in {"start", "middle", "malformed"}
  <2>1. m \in Numbers /\ h.n = m + 1 /\ Ssrc[h.n] = Ssrc[m]
    BY <1>3, <1>4, <1>5 DEF LastIs
  <2>2. m + 1 \in Numbers /\ Ssrc[m + 1] = Ssrc[m] /\ Kinds[h.n] = Kinds[m + 1]
    BY <1>1, <2>1
  <2> QED
    BY <2>1, <2>2, SenderAssumption
<1> QED
  BY <1>4, <1>5

\* What use() makes of the frame: with the packets before it, the piece begins
\* a NAL unit, goes on with it, or comes after a header that is rejected.
LEMMA UseFillsFrame ==
  ASSUME TypeOK, OrderInv, FillInv, HeadIsAccepted, ~LossInFrame, UsePacket
  PROVE  LET kind == Kinds[packets[1].n]
         IN  \/ HasAggregate(frame')
             \/ kind = "aggregate" /\ frame' = <<>> /\ HasMore(packets[1])
             \/ /\ kind # "aggregate" /\ frame' # <<>> /\ Joined(frame')
                /\ frame' \in Seq(Piece)
                /\ LastNumber(frame') = packets[1].n
<1> DEFINE h == packets[1]
           kind == Kinds[h.n]
           piece == <<h.n, h.useCount + 1>>
           data == IF ForgetsData THEN <<>> ELSE frame
<1>1. /\ packets # <<>> /\ 1 \in 1..Len(packets) /\ HeadPacket = h
      /\ h.n \in Numbers /\ h.useCount \in 0..1 /\ fNeedDelivery
  BY Elements DEF HeadIsAccepted, HeadIsTaken, HeadPacket
<1>2. piece \in Piece /\ piece[1] = h.n
  BY <1>1 DEF Piece
<1>3. frame' = IF IsStuck(h) THEN data ELSE Append(data, piece)
  BY <1>1 DEF UsePacket
<1> HIDE DEF piece
<1>4. frame \in Seq(Piece) /\ data \in Seq(Piece)
  BY NoPieces DEF TypeOK
<1>5. /\ kind \in {"single", "start", "middle", "end", "aggregate"}
      /\ kind # "aggregate" => h.useCount = 0
      /\ kind \in {"single", "start"} => BeginsFrame
      /\ kind \in {"middle", "end"} => ~BeginsFrame
  BY UsedKinds
<1>6. ~ForgetsData => ~PacketLossPreceded /\ ~fPacketLossInFragmentedFrame
  BY DEF ForgetsData, LossInFrame
<1>7. ~ForgetsData => \/ frame = <<>> /\ AtBoundary
                      \/ HasAggregate(frame)
                      \/ /\ frame # <<>> /\ Joined(frame) /\ GoesOn
                         /\ ~HeadIsInUse
  BY <1>1, <1>6 DEF FillInv
<1>8. CASE IsStuck(h)
  <2>1. kind = "aggregate" /\ HasMore(h) /\ HeadIsInUse /\ frame' = data
    BY <1>1, <1>3, <1>8 DEF IsStuck, HasMore, HeadIsInUse
  <2> QED
    BY <1>7, <2>1
<1>9. CASE ~IsStuck(h) /\ kind = "aggregate"
  <2>1. frame' = Append(data, piece) /\ Kinds[piece[1]] = "aggregate"
    BY <1>2, <1>3, <1>9
  <2> HIDE DEF data
  <2>2. HasAggregate(frame')
    BY <1>2, <1>4, <2>1, Appended
  <2> QED
    BY <2>2
<1>10. CASE kind # "aggregate"
  <2>1. frame' = Append(data, piece)
    BY <1>3, <1>10 DEF IsStuck
  <2>2. HasAggregate(data) => HasAggregate(frame')
    <3> HIDE DEF data
    <3> QED
      BY <1>2, <1>4, <2>1, Appended
  <2>3. /\ frame' # <<>> /\ frame' \in Seq(Piece)
        /\ LastNumber(frame') = h.n
    <3> HIDE DEF data
    <3>1. /\ frame' \in Seq(Piece) /\ Len(frame') = Len(data) + 1 /\ Len(data) \in Nat
          /\ frame'[Len(data) + 1] = piece
      BY <1>2, <1>4, <2>1, Appended
    <3> QED
      BY <1>2, <3>1, EmptySeq DEF LastNumber
  <2>4. ASSUME ~HasAggregate(data) PROVE Joined(frame')
    <3>1. CASE ForgetsData
      <4>1. data = <<>> /\ Kinds[piece[1]] \in {"single", "start"}
        BY <1>2, <1>5, <1>10, <3>1 DEF ForgetsData
      <4>2. Joined(data) /\ ~HoldsData(data)
        BY <4>1, NoPieces
      <4> HIDE DEF data
      <4> QED
        BY <1>2, <1>4, <2>1, <4>1, <4>2, PieceJoined
    <3>2. CASE ~ForgetsData
      <4>1. /\ ~StartsAfresh /\ ~HeadIsInUse
            /\ \A m : LastIs(m) =>
                 /\ m \in Numbers /\ h.n = m + 1 /\ Ssrc[h.n] = Ssrc[m]
                 /\ Kinds[m] \in {"start", "middle"}
                       => kind \in {"middle", "end", "malformed"}
                 /\ kind \in {"middle", "end"}
                       => Kinds[m] \in {"start", "middle", "malformed"}
        BY <1>5, <1>6, <1>10, <3>2, HeadFollowsLast
      <4>2. data = frame
        BY <3>2
      <4>3. CASE \E n \in Numbers : LastIs(n) /\ Kinds[n] = "malformed"
        <5>1. \E n \in Numbers : /\ piece[1] = n + 1 /\ Kinds[n] = "malformed"
                                 /\ Ssrc[piece[1]] = Ssrc[n]
          BY <1>2, <4>1, <4>3
        <5>2. Joined(frame)
          BY <1>7, <2>4, <3>2, <4>2, NoPieces
        <5> QED
          BY <1>2, <1>4, <2>1, <4>2, <5>1, <5>2, PieceJoined
      <4>4. CASE frame = <<>> /\ AtBoundary
                 /\ ~(\E n \in Numbers : LastIs(n) /\ Kinds[n] = "malformed")
        <5>1. PICK m \in Numbers : LastIs(m) /\ Kinds[m] \in {"single", "end", "aggregate"}
          BY <4>1, <4>4 DEF AtBoundary
        <5>2. Kinds[piece[1]] \in {"single", "start"}
          BY <1>2, <1>5, <1>10, <4>1, <5>1
        <5>3. Joined(frame) /\ ~HoldsData(frame)
          BY <4>4, NoPieces
        <5> QED
          BY <1>2, <1>4, <2>1, <4>2, <5>2, <5>3, PieceJoined
      <4>5. CASE frame # <<>> /\ Joined(frame) /\ GoesOn
                 /\ ~(\E n \in Numbers : LastIs(n) /\ Kinds[n] = "malformed")
        <5> DEFINE m == LastNumber(frame)
        <5>1. LastIs(m) /\ \/ Kinds[m] \in {"start", "middle"}
                           \/ Kinds[m] = "end" /\ ~HoldsData(frame)
          BY <4>1, <4>5 DEF GoesOn
        <5>2. piece[1] = m + 1 /\ Ssrc[piece[1]] = Ssrc[m]
          BY <1>2, <4>1, <5>1
        <5>3. \/ Kinds[piece[1]] \in {"single", "start"} /\ ~HoldsData(frame)
              \/ Kinds[m] \in {"start", "middle"} /\ Kinds[piece[1]] \in {"middle", "end"}
          BY <1>2, <1>5, <1>10, <4>1, <5>1
        <5> HIDE DEF m
        <5>4. Joined(frame')
          BY <1>2, <1>4, <2>1, <4>2, <4>5, <5>2, <5>3, PieceJoined DEF m
        <5> QED
          BY <5>4
      <4> QED
        BY <1>7, <2>4, <3>2, <4>2, <4>3, <4>4, <4>5
    <3> QED
      BY <3>1, <3>2
  <2> QED
    BY <1>10, <2>2, <2>3, <2>4
<1> QED
  BY <1>8, <1>9, <1>10

\* The steps that neither take the head nor let a packet in leave the place in
\* the sender's frames alone.
LEMMA PlaceUnchanged ==
  ASSUME FillInv, UNCHANGED <<fHaveSeenFirstPacket, packets, next,
                              fLastReceivedSSRC, frame,
                              fPacketLossInFragmentedFrame, fNeedDelivery>>
  PROVE  FillInv'
<1>1. /\ AtBoundary => AtBoundary'
      /\ GoesOn => GoesOn'
      /\ HeadIsInUse' => HeadIsInUse
  BY DEF AtBoundary, StartsAfresh, HeadIsInUse, LastIs, GoesOn
<1> QED
  BY <1>1 DEF FillInv

\* The steps that use a piece of the head.
LEMMA UseKeepsFill ==
  ASSUME TypeOK, OrderInv, FrameInv, UseAndContinue \/ UseAndDeliver
  PROVE  FillInv' /\ HandedInv'
<1> DEFINE h == packets[1]
           kind == Kinds[h.n]
<1>1. /\ HeadIsAccepted /\ ~LossInFrame /\ UsePacket
      /\ packets # <<>> /\ fNeedDelivery
      /\ ClientInv /\ FillInv /\ HandedInv
  BY DEF UseAndContinue, UseAndDeliver, HeadIsAccepted, HeadIsTaken, FrameInv
<1>2. /\ 1 \in 1..Len(packets) /\ h.n \in Numbers
      /\ Ssrc[h.n] = fLastReceivedSSRC
  BY <1>1, Elements DEF OrderInv, ListInOrder
<1>3. /\ kind \in {"single", "start", "middle", "end", "aggregate"}
      /\ kind \in {"single", "end"} => CompletesFrame
      /\ kind \in {"start", "middle"} => ~CompletesFrame
  BY <1>1, UsedKinds
<1>4. \/ HasAggregate(frame')
      \/ kind = "aggregate" /\ frame' = <<>> /\ HasMore(h)
      \/ /\ kind # "aggregate" /\ frame' # <<>> /\ Joined(frame')
         /\ frame' \in Seq(Piece)
         /\ LastNumber(frame') = h.n
  BY <1>1, UseFillsFrame
<1>5. HeadReleased \/ HeadUsedInPart
  BY HeadSteps
<1>6. fLastReceivedSSRC' = fLastReceivedSSRC
  BY HeadSteps DEF readVars
<1>m. PICK m \in Numbers : m = h.n
  BY <1>2
<1>7. HeadReleased => LastIs(m)'
  BY <1>2, <1>6, <1>m DEF HeadReleased, LastIs
<1>8. HeadUsedInPart => kind = "aggregate" /\ HeadIsInUse'
  <2>1. ASSUME HeadUsedInPart PROVE packets' # <<>> /\ packets'[1].useCount = 1
    <3>1. packets' \in Seq(PacketSet) /\ Len(packets') = Len(packets) /\ Len(packets) > 0
      BY <1>1, <2>1, Elements DEF HeadUsedInPart
    <3> QED
      BY <2>1, <3>1, EmptySeq DEF HeadUsedInPart
  <2> QED
    BY <2>1 DEF HeadUsedInPart, HeadIsInUse
<1>11. HeadReleased => ~HasMore(h)
  <2>1. HasMore(h) => fTailPacket' = fTailPacket
    BY <1>1, Elements DEF UsePacket, HeadPacket
  <2>2. fTailPacket = Len(packets) /\ Len(packets) \in Nat /\ Len(packets) > 0
    BY <1>1, Elements DEF OrderInv, ListInOrder
  <2> QED
    BY <2>1, <2>2 DEF HeadReleased
<1>12. HeadReleased => ~HeadIsInUse'
  BY NextIsUnused
<1>13. kind = "single" /\ frame' # <<>> /\ frame' \in Seq(Piece)
       /\ LastNumber(frame') = h.n => HoldsData(frame')
  <2>1. kind = "single" => h.n \notin Empty
    BY PacketAssumption DEF MayBeEmpty
  <2> QED
    BY <2>1, NoPieces DEF HoldsData, HasData, LastNumber
<1> HIDE DEF h, kind
<1>9. CASE UseAndContinue
  <2>1. fNeedDelivery' /\ ~FrameIsComplete /\ UNCHANGED <<nextTask, delivered>>
    BY <1>1, <1>9 DEF UseAndContinue, clientVars
  <2>2. ~nextTask'
    BY <1>1, <2>1 DEF ClientInv
  <2>3. HandedInv'
    BY <1>1, <2>1, <2>2 DEF HandedInv
  <2>4. CASE HasAggregate(frame')
    BY <2>1, <2>3, <2>4 DEF FillInv
  <2>5. CASE kind = "aggregate" /\ frame' = <<>> /\ HasMore(h)
    <3>1. HeadIsInUse'
      BY <1>5, <1>8, <1>11, <2>5
    <3>2. AtBoundary'
      BY <3>1 DEF AtBoundary
    <3> QED
      BY <2>1, <2>3, <2>5, <3>2 DEF FillInv
  <2>6. CASE /\ kind # "aggregate" /\ frame' # <<>> /\ Joined(frame')
             /\ frame' \in Seq(Piece)
             /\ LastNumber(frame') = h.n
    <3>1. LastIs(m)' /\ ~HeadIsInUse'
      BY <1>5, <1>7, <1>8, <1>12, <2>6
    <3>2. kind \in {"start", "middle"} \/ (kind = "end" /\ ~HoldsData(frame'))
      BY <1>3, <1>13, <2>1, <2>6 DEF FrameIsComplete
    <3>3. GoesOn'
      BY <1>m, <2>6, <3>1, <3>2 DEF GoesOn, LastIs, kind, h
    <3> QED
      BY <2>1, <2>3, <2>6, <3>1, <3>3 DEF FillInv
  <2> QED
    BY <1>4, <2>4, <2>5, <2>6
<1>10. CASE UseAndDeliver
  <2>1. FrameIsComplete /\ ~fNeedDelivery'
    BY <1>10 DEF UseAndDeliver
  <2>2. kind \in {"single", "end", "aggregate"} /\ frame' # <<>>
    BY <1>3, <2>1, NoPieces DEF FrameIsComplete
  <2>3. AtBoundary'
    <3>1. CASE HeadReleased
      <4>1. LastIs(m)' /\ Kinds[m] \in {"single", "end", "aggregate"}
        BY <1>7, <1>m, <2>2, <3>1 DEF h, kind
      <4> QED
        BY <4>1 DEF AtBoundary, LastIs
    <3>2. CASE HeadUsedInPart
      BY <1>8, <3>2 DEF AtBoundary
    <3> QED
      BY <1>5, <3>1, <3>2
  <2>4. FillInv'
    BY <2>1, <2>3 DEF FillInv
  <2>5. Acceptable(frame')
    BY <1>4, <2>2 DEF Acceptable, LastNumber, kind, h
  <2>6. Acceptable(delivered')
    BY <1>1, <1>10, <2>5 DEF UseAndDeliver, HandedInv
  <2>7. HandedInv'
    BY <2>5, <2>6 DEF HandedInv
  <2> QED
    BY <2>4, <2>7
<1> QED
  BY <1>9, <1>10

\* Every step keeps who waits for what.
LEMMA StepKeepsClient ==
  ASSUME ClientInv, [Next]_vars
  PROVE  ClientInv'
<1>1. ASSUME UNCHANGED <<clientVars, fPacketLossInFragmentedFrame>> PROVE ClientInv'
  BY <1>1 DEF ClientInv, clientVars
<1>2. (\E n \in Numbers : PacketArrives(n)) \/ ReadFails \/ ReadIsIncomplete
      \/ LoopEnds \/ RejectHeader \/ UNCHANGED vars
        => UNCHANGED <<clientVars, fPacketLossInFragmentedFrame>>
  BY DEF PacketArrives, ReadFails, ReadIsIncomplete, LoopEnds, RejectHeader, vars,
         frameVars
<1>3. CASE RejectFragment
  BY <1>3 DEF ClientInv, RejectFragment, HeadIsAccepted, HeadIsTaken, clientVars
<1>4. CASE UseAndContinue
  BY <1>4 DEF ClientInv, UseAndContinue, UsePacket, HeadIsAccepted, HeadIsTaken,
              clientVars
<1>5. CASE UseAndDeliver
  <2>1. fNeedDelivery /\ fIsCurrentlyAwaitingData /\ ~nextTask
    BY <1>5 DEF ClientInv, UseAndDeliver, HeadIsAccepted, HeadIsTaken
  <2>2. /\ fNeedDelivery' = FALSE /\ fPacketLossInFragmentedFrame' = FALSE
        /\ \/ UNCHANGED nextTask
           \/ UNCHANGED fIsCurrentlyAwaitingData
    BY <1>5 DEF UseAndDeliver, UsePacket
  <2>3. ~(nextTask' /\ ~fIsCurrentlyAwaitingData')
    BY <2>1, <2>2
  <2> QED
    BY <2>2, <2>3 DEF ClientInv
<1>6. CASE GetNextFrame
  BY <1>6 DEF ClientInv, GetNextFrame
<1>7. CASE AfterGetting
  BY <1>7 DEF ClientInv, AfterGetting, frameVars
<1>8. CASE StopGettingFrames
  BY <1>8 DEF ClientInv, StopGettingFrames
<1> QED
  BY <1>1, <1>2, <1>3, <1>4, <1>5, <1>6, <1>7, <1>8 DEF Next

\* Every step keeps the place in the sender's frames, and hands on whole frames.
LEMMA StepKeepsFrame ==
  ASSUME TypeOK, OrderInv, FrameInv, ~SsrcChangesAny, [Next]_vars
  PROVE  FrameInv'
<1>1. ClientInv /\ FillInv /\ HandedInv
  BY DEF FrameInv
<1> SUFFICES FillInv' /\ HandedInv'
  BY <1>1, StepKeepsClient DEF FrameInv
<1>2. ASSUME UNCHANGED <<nextTask, frame, delivered>> PROVE HandedInv'
  BY <1>1, <1>2 DEF HandedInv
<1>3. ASSUME NEW n \in Numbers, PacketArrives(n) PROVE FillInv' /\ HandedInv'
  <2>1. UNCHANGED <<frameVars, clientVars>>
    BY <1>3 DEF PacketArrives
  <2>2. UNCHANGED <<nextTask, frame, delivered, fNeedDelivery,
                    fPacketLossInFragmentedFrame>>
    BY <2>1 DEF frameVars, clientVars
  <2>3. /\ AtBoundary => AtBoundary'
        /\ GoesOn => GoesOn'
    <3>1. CASE StartsAfresh'
      BY <3>1 DEF AtBoundary, GoesOn
    <3>2. CASE /\ StartsAfresh => StartsAfresh'
               /\ HeadIsInUse => HeadIsInUse'
               /\ \A m : LastIs(m) => LastIs(m)'
      BY <2>2, <3>2 DEF AtBoundary, GoesOn
    <3> QED
      BY <1>3, <3>1, <3>2, ArrivalKeepsPlace
  <2>4. HeadIsInUse' => HeadIsInUse
    BY <1>3, ArrivalKeepsHeadUse
  <2>5. FillInv'
    BY <1>1, <2>2, <2>3, <2>4 DEF FillInv
  <2> QED
    BY <1>2, <2>2, <2>5
<1>4. CASE ReadFails \/ ReadIsIncomplete \/ LoopEnds \/ UNCHANGED vars
  <2>1. UNCHANGED <<fHaveSeenFirstPacket, packets, next,
                    fLastReceivedSSRC, frame,
                    fPacketLossInFragmentedFrame, fNeedDelivery>>
    BY <1>4 DEF ReadFails, ReadIsIncomplete, LoopEnds, vars, bufferVars,
                frameVars, readVars, clientVars
  <2>2. UNCHANGED <<nextTask, frame, delivered>>
    BY <1>4 DEF ReadFails, ReadIsIncomplete, LoopEnds, vars, frameVars, clientVars
  <2> QED
    BY <1>1, <1>2, <2>1, <2>2, PlaceUnchanged
<1>5. CASE RejectHeader \/ RejectFragment
  <2>1. /\ fNeedDelivery /\ UNCHANGED <<clientVars, readVars>> /\ UNCHANGED frame
        /\ packets # <<>> /\ ReleaseHead
    BY <1>5 DEF RejectHeader, RejectFragment, HeadIsAccepted, HeadIsTaken, frameVars
  <2>2. fNeedDelivery' /\ ~nextTask' /\ UNCHANGED delivered
    BY <1>1, <2>1 DEF clientVars, ClientInv
  <2>3. HandedInv'
    BY <1>1, <2>2 DEF HandedInv
  <2>4. CASE RejectFragment
    <3>1. fPacketLossInFragmentedFrame'
      BY <2>4 DEF RejectFragment
    <3> QED
      BY <2>2, <2>3, <3>1 DEF FillInv
  <2>5. CASE RejectHeader
    <3>1. HeadReleased
      BY <2>1, ReleaseHeadReleases
    <3>2. PICK n \in Numbers : /\ n = packets[1].n /\ Kinds[n] = "malformed"
                               /\ Ssrc[n] = fLastReceivedSSRC
      <4>1. 1 \in 1..Len(packets) /\ HeadPacket = packets[1] /\ packets[1].n \in Numbers
        BY <2>1, Elements DEF HeadPacket
      <4> QED
        BY <2>5, <4>1 DEF RejectHeader, OrderInv, ListInOrder
    <3>3. LastIs(n)' /\ Kinds[n] = "malformed"
      BY <2>1, <3>1, <3>2 DEF LastIs, HeadReleased, readVars
    <3>4. AtBoundary' /\ GoesOn'
      BY <3>3 DEF AtBoundary, GoesOn, LastIs
    <3>5. ~HeadIsInUse'
      BY <2>1, <3>1, NextIsUnused
    <3>6. UNCHANGED fPacketLossInFragmentedFrame
      BY <2>5 DEF RejectHeader, frameVars
    <3> QED
      BY <1>1, <2>1, <2>2, <2>3, <3>4, <3>5, <3>6 DEF FillInv
  <2> QED
    BY <1>5, <2>4, <2>5
<1>6. CASE UseAndContinue \/ UseAndDeliver
  BY <1>6, UseKeepsFill
<1>7. CASE GetNextFrame
  <2>1. /\ UNCHANGED <<fHaveSeenFirstPacket, packets, next, fLastReceivedSSRC,
                       fPacketLossInFragmentedFrame, nextTask, delivered>>
        /\ fNeedDelivery' = TRUE /\ frame' = <<>> /\ ~fIsCurrentlyAwaitingData
    BY <1>7 DEF GetNextFrame, bufferVars
  <2>2. ~fNeedDelivery /\ ~nextTask
    BY <1>1, <2>1 DEF ClientInv
  <2>3. AtBoundary => AtBoundary'
    BY <2>1 DEF AtBoundary, StartsAfresh, HeadIsInUse, LastIs
  <2>4. FillInv'
    BY <1>1, <2>1, <2>2, <2>3 DEF FillInv
  <2>5. HandedInv'
    BY <1>1, <2>1, <2>2 DEF HandedInv
  <2> QED
    BY <2>4, <2>5
<1>8. CASE AfterGetting
  <2>1. /\ UNCHANGED <<bufferVars, frameVars, readVars, fNeedDelivery>>
        /\ nextTask /\ nextTask' = FALSE
        /\ delivered' = frame
    BY <1>8 DEF AfterGetting
  <2>2. FillInv'
    BY <1>1, <2>1, PlaceUnchanged DEF bufferVars, frameVars, readVars
  <2>3. Acceptable(delivered')
    BY <1>1, <2>1 DEF HandedInv
  <2> QED
    BY <2>1, <2>2, <2>3 DEF HandedInv
<1>9. CASE StopGettingFrames
  <2>1. /\ fHaveSeenFirstPacket' = FALSE /\ fNeedDelivery' = FALSE
        /\ nextTask' = FALSE /\ UNCHANGED delivered
    BY <1>9 DEF StopGettingFrames
  <2>2. AtBoundary'
    BY <2>1 DEF AtBoundary, StartsAfresh
  <2> QED
    BY <1>1, <2>1, <2>2 DEF FillInv, HandedInv, Acceptable, HasAggregate, IsWhole
<1> QED
  BY <1>3, <1>4, <1>5, <1>6, <1>7, <1>8, <1>9 DEF Next

\* Frames that loss left incomplete are not handed to the client as frames
\* (doGetNextFrame1()): what it receives is one NAL unit from its beginning to its
\* end, of one sender, and has a hole only where the header of the packet before
\* was rejected; unless it has an aggregation packet in it.
THEOREM WholeFramesAreDelivered ==
  ASSUME ~SsrcChangesAny
  PROVE  Spec => []FramesAreWhole
<1>1. Init => TypeOK /\ OrderInv /\ FrameInv
  <2>1. ASSUME Init PROVE FrameInv
    <3>1. ClientInv
      BY <2>1 DEF Init, ClientInv
    <3>2. FillInv
      BY <2>1 DEF Init, FillInv, AtBoundary, StartsAfresh
    <3>3. HandedInv
      BY <2>1 DEF Init, HandedInv, Acceptable
    <3> QED
      BY <3>1, <3>2, <3>3 DEF FrameInv
  <2> QED
    BY <2>1, InitOrderAndTypes
<1>2. TypeOK /\ OrderInv /\ FrameInv /\ [Next]_vars
        => TypeOK' /\ OrderInv' /\ FrameInv'
  BY StepKeepsOrderAndTypes, StepKeepsFrame
<1>3. FrameInv => FramesAreWhole
  BY DEF FrameInv, HandedInv, Acceptable, Joined, FramesAreWhole
<1> QED
  BY <1>1, <1>2, <1>3, PTL DEF Spec

=============================================================================
