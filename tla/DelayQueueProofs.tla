--------------------------- MODULE DelayQueueProofs ---------------------------
(***************************************************************************)
(* The safety properties of DelayQueue, for all delays, any number of      *)
(* alarms and any behaviour of the clock.  First lemmas about the list:    *)
(* what TimeTo is, and what each operation on the list does to it.  None   *)
(* of those depends on the state.                                          *)
(***************************************************************************)
EXTENDS DelayQueue, SequenceTheorems, FiniteSetTheorems,
        WellFoundedInduction, TLAPS


-----------------------------------------------------------------------------
(***************************************************************************)
(* Induction over the positions of a list, without an operator parameter:  *)
(* a set of natural numbers has a least element.                           *)
(***************************************************************************)

\* A set of natural numbers that is not empty has a least element.
LEMMA LeastElement ==
  ASSUME NEW T \in SUBSET Nat, T # {}
  PROVE  \E m \in T : \A k \in T : m <= k
<1> DEFINE B == {0..i : i \in T}
<1>1. IsWellFoundedOn(StrictSubsetOrdering(Nat), FiniteSubsetsOf(Nat))
  BY FS_StrictSubsetOrderingWellFounded
<1>2. B \subseteq FiniteSubsetsOf(Nat)
  <2>1. ASSUME NEW i \in T PROVE 0..i \in FiniteSubsetsOf(Nat)
    <3>1. IsFiniteSet(0..i)
      BY FS_Interval
    <3>2. 0..i \in SUBSET Nat
      OBVIOUS
    <3> QED
      BY <3>1, <3>2 DEF FiniteSubsetsOf
  <2> QED
    BY <2>1
<1>3. B # {}
  OBVIOUS
<1>4. PICK x \in B : \A y \in B : ~(<<y, x>> \in StrictSubsetOrdering(Nat))
  BY <1>1, <1>2, <1>3, WFMin
<1>5. PICK m \in T : x = 0..m
  BY <1>4
<1>6. ASSUME NEW k \in T, ~(m <= k) PROVE FALSE
  <2>1. 0..k \subseteq 0..m /\ 0..k # 0..m /\ 0..m \subseteq Nat
    BY <1>6
  <2>2. <<0..k, 0..m>> \in StrictSubsetOrdering(Nat)
    BY <2>1 DEF StrictSubsetOrdering
  <2> QED
    BY <2>2, <1>4, <1>5
<1> QED
  BY <1>6

\* A set of positions that contains 0 and, with i - 1, also i holds them all.
LEMMA UpTo ==
  ASSUME NEW n \in Nat, NEW P \in SUBSET (0..n), 0 \in P,
         \A i \in 1..n : i - 1 \in P => i \in P
  PROVE  P = 0..n
<1> DEFINE T == (0..n) \ P
<1>1. SUFFICES ASSUME T # {} PROVE FALSE
  OBVIOUS
<1>2. T \in SUBSET Nat
  OBVIOUS
<1>3. PICK m \in T : \A k \in T : m <= k
  BY <1>1, <1>2, LeastElement
<1>4. m \in 1..n /\ m - 1 \in 0..n
  BY <1>3
<1>5. m - 1 \in P
  BY <1>3, <1>4
<1> QED
  BY <1>3, <1>4, <1>5

-----------------------------------------------------------------------------
(***************************************************************************)
(* TimeTo.                                                                 *)
(***************************************************************************)

\* The recursion that defines TimeTo has a solution on every prefix.
LEMMA PartialSums ==
  ASSUME NEW q \in Seq(Entries)
  PROVE  \A n \in 0..Len(q) : \E f \in [0..n -> Nat] :
            f = [i \in 0..n |-> IF i = 0 THEN 0 ELSE f[i - 1] + q[i].delta]
<1> DEFINE Solves(f, n) ==
             f = [i \in 0..n |-> IF i = 0 THEN 0 ELSE f[i - 1] + q[i].delta]
           P == {n \in 0..Len(q) : \E f \in [0..n -> Nat] : Solves(f, n)}
<1>1. Len(q) \in Nat /\ \A i \in 1..Len(q) : q[i].delta \in Nat
  <2>1. \A i \in 1..Len(q) : q[i] \in Entries
    BY ElementOfSeq
  <2> QED
    BY <2>1, LenProperties DEF Entries
<1>2. 0 \in P
  <2> DEFINE f == [i \in 0..0 |-> 0]
  <2>1. f \in [0..0 -> Nat] /\ Solves(f, 0)
    OBVIOUS
  <2>2. \E h \in [0..0 -> Nat] : Solves(h, 0)
    BY <2>1
  <2>3. 0 \in 0..Len(q)
    BY <1>1
  <2> QED
    BY <2>2, <2>3
<1>3. ASSUME NEW n \in 1..Len(q), n - 1 \in P PROVE n \in P
  <2>1. PICK f \in [0..n - 1 -> Nat] : Solves(f, n - 1)
    BY <1>3
  <2> DEFINE g == [i \in 0..n |-> IF i = n THEN f[n - 1] + q[n].delta ELSE f[i]]
  <2>2. g \in [0..n -> Nat]
    BY <1>1
  <2>3. ASSUME NEW i \in 0..n
        PROVE  g[i] = IF i = 0 THEN 0 ELSE g[i - 1] + q[i].delta
    <3>1. CASE i = n
      BY <3>1, <1>1
    <3>2. CASE i # n
      <4>1. i \in 0..n - 1
        BY <3>2
      <4>2. f[i] = IF i = 0 THEN 0 ELSE f[i - 1] + q[i].delta
        BY <2>1, <4>1
      <4> QED
        BY <3>2, <4>1, <4>2
    <3> QED
      BY <3>1, <3>2
  <2>4. Solves(g, n)
    BY <2>3
  <2>5. n \in 0..Len(q)
    BY <1>1
  <2>6. \E h \in [0..n -> Nat] : Solves(h, n)
    <3> HIDE DEF Solves, g
    <3> QED
      BY <2>2, <2>4
  <2> QED
    <3> HIDE DEF Solves
    <3> QED
      BY <2>5, <2>6
<1>4. P = 0..Len(q)
  BY <1>1, <1>2, <1>3, UpTo
<1> QED
  BY <1>4

\* TimeTo(q) is a function from positions to times, and satisfies the
\* recursion by which it is defined.
LEMMA TimeToSums ==
  ASSUME NEW q \in Seq(Entries)
  PROVE  /\ TimeTo(q) \in [0..Len(q) -> Nat]
         /\ TimeTo(q)[0] = 0
         /\ \A i \in 1..Len(q) : TimeTo(q)[i] = TimeTo(q)[i - 1] + q[i].delta
<1> DEFINE Solves(f) ==
             f = [i \in 0..Len(q) |-> IF i = 0 THEN 0 ELSE f[i - 1] + q[i].delta]
<1>1. Len(q) \in Nat
  BY LenProperties
<1>2. PICK g \in [0..Len(q) -> Nat] : Solves(g)
  <2>1. Len(q) \in 0..Len(q)
    BY <1>1
  <2>2. \E f \in [0..Len(q) -> Nat] :
           f = [i \in 0..Len(q) |-> IF i = 0 THEN 0 ELSE f[i - 1] + q[i].delta]
    BY <2>1, PartialSums
  <2> QED
    BY <2>2
<1>3. TimeTo(q) = CHOOSE f : Solves(f)
  BY DEF TimeTo
<1>4. Solves(TimeTo(q))
  <2> HIDE DEF Solves
  <2> QED
    BY <1>2, <1>3
<1>5. ASSUME NEW f, Solves(f) PROVE \A i \in 0..Len(q) : f[i] = g[i]
  <2> DEFINE P == {i \in 0..Len(q) : f[i] = g[i]}
  <2>1. 0 \in P
    BY <1>1, <1>2, <1>5
  <2>2. \A i \in 1..Len(q) : i - 1 \in P => i \in P
    BY <1>1, <1>2, <1>5
  <2>3. P = 0..Len(q)
    BY <1>1, <2>1, <2>2, UpTo
  <2> QED
    BY <2>3
<1>6. \A i \in 0..Len(q) : TimeTo(q)[i] = g[i]
  <2> HIDE DEF Solves
  <2> QED
    BY <1>4, <1>5
<1>7. TimeTo(q) = g
  <2>1. DOMAIN TimeTo(q) = 0..Len(q)
    BY <1>4
  <2>2. TimeTo(q) = [i \in 0..Len(q) |-> TimeTo(q)[i]]
    BY <1>4
  <2>3. g = [i \in 0..Len(q) |-> g[i]]
    BY <1>2
  <2> QED
    BY <2>2, <2>3, <1>6
<1>8. \A i \in 0..Len(q) : g[i] = IF i = 0 THEN 0 ELSE g[i - 1] + q[i].delta
  BY <1>2
<1> HIDE DEF Solves
<1>9. /\ g[0] = 0
      /\ \A i \in 1..Len(q) : g[i] = g[i - 1] + q[i].delta
  BY <1>1, <1>8
<1> QED
  BY <1>7, <1>9

\* A function that satisfies the recursion is TimeTo(q).
LEMMA TimeToUnique ==
  ASSUME NEW q \in Seq(Entries), NEW f,
         f[0] = 0, \A i \in 1..Len(q) : f[i] = f[i - 1] + q[i].delta
  PROVE  \A i \in 0..Len(q) : TimeTo(q)[i] = f[i]
<1> DEFINE P == {i \in 0..Len(q) : TimeTo(q)[i] = f[i]}
<1>1. Len(q) \in Nat
  BY LenProperties
<1>2. 0 \in P
  BY <1>1, TimeToSums
<1>3. \A i \in 1..Len(q) : i - 1 \in P => i \in P
  BY <1>1, TimeToSums
<1>4. P = 0..Len(q)
  BY <1>1, <1>2, <1>3, UpTo
<1> QED
  BY <1>4

\* The times do not decrease along the list.
LEMMA TimeToIncreases ==
  ASSUME NEW q \in Seq(Entries), NEW i \in 0..Len(q), NEW j \in i..Len(q)
  PROVE  TimeTo(q)[i] <= TimeTo(q)[j]
<1> DEFINE P == {k \in 0..Len(q) : k < i \/ TimeTo(q)[i] <= TimeTo(q)[k]}
<1>1. /\ Len(q) \in Nat
      /\ \A k \in 1..Len(q) : q[k] \in Entries
  BY LenProperties, ElementOfSeq
<1>2. /\ TimeTo(q) \in [0..Len(q) -> Nat]
      /\ \A k \in 1..Len(q) : TimeTo(q)[k] = TimeTo(q)[k - 1] + q[k].delta
  BY TimeToSums
<1>3. 0 \in P
  BY <1>1, <1>2
<1>4. ASSUME NEW k \in 1..Len(q), k - 1 \in P PROVE k \in P
  <2>1. TimeTo(q)[k - 1] <= TimeTo(q)[k]
    <3>1. q[k].delta \in Nat
      BY <1>1 DEF Entries
    <3>2. k - 1 \in 0..Len(q) /\ TimeTo(q)[k - 1] \in Nat
      BY <1>1, <1>2
    <3> QED
      BY <1>2, <3>1, <3>2
  <2>2. CASE k - 1 < i
    BY <1>1, <1>2, <2>2
  <2>3. CASE TimeTo(q)[i] <= TimeTo(q)[k - 1]
    BY <1>1, <1>2, <2>1, <2>3
  <2> QED
    BY <1>4, <2>2, <2>3
<1>5. P = 0..Len(q)
  BY <1>1, <1>3, <1>4, UpTo
<1> QED
  BY <1>1, <1>5

-----------------------------------------------------------------------------
(***************************************************************************)
(* Putting an element into a sequence and taking one out.                  *)
(***************************************************************************)

\* What InsertAt yields, element by element.
LEMMA InsertAtElements ==
  ASSUME NEW S, NEW s \in Seq(S), NEW e \in S, NEW k \in 1..Len(s)
  PROVE  /\ InsertAt(s, k, e) \in Seq(S)
         /\ Len(InsertAt(s, k, e)) = Len(s) + 1
         /\ \A j \in 1..Len(s) + 1 :
               InsertAt(s, k, e)[j] = IF j < k THEN s[j]
                                      ELSE IF j = k THEN e ELSE s[j - 1]
<1> DEFINE a == SubSeq(s, 1, k - 1)
           b == SubSeq(s, k, Len(s))
           c == a \o <<e>>
           r == c \o b
<1>1. Len(s) \in Nat /\ \A j \in 1..Len(s) : s[j] \in S
  BY LenProperties, ElementOfSeq
<1>2. /\ a \in Seq(S) /\ Len(a) = k - 1
      /\ \A j \in 1..k - 1 : a[j] = s[j]
  <2>1. \A j \in 1..k - 1 : s[j] \in S
    BY <1>1
  <2> QED
    BY <1>1, <2>1, SubSeqProperties
<1>3. /\ b \in Seq(S) /\ Len(b) = Len(s) - k + 1
      /\ \A j \in 1..Len(s) - k + 1 : b[j] = s[k + j - 1]
  <2>1. \A j \in k..Len(s) : s[j] \in S
    BY <1>1
  <2> QED
    BY <1>1, <2>1, SubSeqProperties
<1>4. <<e>> \in Seq(S) /\ Len(<<e>>) = 1 /\ <<e>>[1] = e
  OBVIOUS
<1> HIDE DEF a, b
<1>5. /\ c \in Seq(S) /\ Len(c) = k
      /\ \A j \in 1..k : c[j] = IF j < k THEN a[j] ELSE e
  BY <1>1, <1>2, <1>4, ConcatProperties
<1> HIDE DEF c
<1>6. /\ r \in Seq(S) /\ Len(r) = Len(s) + 1
      /\ \A j \in 1..Len(s) + 1 :
            r[j] = IF j <= k THEN c[j] ELSE b[j - k]
  <2>1. /\ r \in Seq(S) /\ Len(r) = Len(c) + Len(b)
        /\ \A j \in 1..Len(c) + Len(b) :
              r[j] = IF j <= Len(c) THEN c[j] ELSE b[j - Len(c)]
    BY <1>3, <1>5, ConcatProperties
  <2>2. Len(c) + Len(b) = Len(s) + 1
    BY <1>1, <1>3, <1>5
  <2> QED
    BY <2>1, <2>2, <1>5
<1> HIDE DEF r
<1>7. InsertAt(s, k, e) = r
  BY DEF InsertAt, a, b, c, r
<1>8. ASSUME NEW j \in 1..Len(s) + 1
      PROVE  r[j] = IF j < k THEN s[j] ELSE IF j = k THEN e ELSE s[j - 1]
  <2>1. CASE j <= k
    <3>1. j \in 1..k /\ r[j] = c[j]
      BY <1>1, <1>6, <2>1
    <3>2. c[j] = IF j < k THEN a[j] ELSE e
      BY <1>5, <3>1
    <3> QED
      BY <1>2, <3>1, <3>2
  <2>2. CASE j > k
    <3>1. j - k \in 1..Len(s) - k + 1 /\ r[j] = b[j - k]
      BY <1>1, <1>6, <2>2
    <3>2. b[j - k] = s[k + (j - k) - 1]
      BY <1>3, <3>1
    <3>3. k + (j - k) - 1 = j - 1
      BY <1>1
    <3> QED
      BY <2>2, <3>1, <3>2, <3>3
  <2> QED
    BY <1>1, <2>1, <2>2
<1> QED
  BY <1>6, <1>7, <1>8

\* What RemoveAt yields, element by element.
LEMMA RemoveAtElements ==
  ASSUME NEW S, NEW s \in Seq(S), NEW k \in 1..Len(s)
  PROVE  /\ RemoveAt(s, k) \in Seq(S)
         /\ Len(RemoveAt(s, k)) = Len(s) - 1
         /\ \A j \in 1..Len(s) - 1 :
               RemoveAt(s, k)[j] = IF j < k THEN s[j] ELSE s[j + 1]
<1> DEFINE a == SubSeq(s, 1, k - 1)
           b == SubSeq(s, k + 1, Len(s))
           r == a \o b
<1>1. Len(s) \in Nat /\ \A j \in 1..Len(s) : s[j] \in S
  BY LenProperties, ElementOfSeq
<1>2. /\ a \in Seq(S) /\ Len(a) = k - 1
      /\ \A j \in 1..k - 1 : a[j] = s[j]
  <2>1. \A j \in 1..k - 1 : s[j] \in S
    BY <1>1
  <2> QED
    BY <1>1, <2>1, SubSeqProperties
<1>3. /\ b \in Seq(S) /\ Len(b) = Len(s) - k
      /\ \A j \in 1..Len(s) - k : b[j] = s[k + j]
  <2>1. \A j \in k + 1..Len(s) : s[j] \in S
    BY <1>1
  <2>2. /\ b \in Seq(S)
        /\ Len(b) = IF k + 1 <= Len(s) THEN Len(s) - (k + 1) + 1 ELSE 0
        /\ \A j \in 1..Len(s) - (k + 1) + 1 : b[j] = s[(k + 1) + j - 1]
    BY <1>1, <2>1, SubSeqProperties
  <2> QED
    BY <1>1, <2>2
<1> HIDE DEF a, b
<1>4. /\ r \in Seq(S) /\ Len(r) = Len(s) - 1
      /\ \A j \in 1..Len(s) - 1 :
            r[j] = IF j <= k - 1 THEN a[j] ELSE b[j - (k - 1)]
  BY <1>1, <1>2, <1>3, ConcatProperties
<1> HIDE DEF r
<1>5. RemoveAt(s, k) = r
  BY DEF RemoveAt, a, b, r
<1>6. ASSUME NEW j \in 1..Len(s) - 1
      PROVE  r[j] = IF j < k THEN s[j] ELSE s[j + 1]
  <2>1. CASE j < k
    BY <1>1, <1>2, <1>4, <2>1
  <2>2. CASE j >= k
    <3>1. j - (k - 1) \in 1..Len(s) - k /\ r[j] = b[j - (k - 1)]
      BY <1>1, <1>4, <2>2
    <3>2. b[j - (k - 1)] = s[k + (j - (k - 1))]
      BY <1>3, <3>1
    <3>3. k + (j - (k - 1)) = j + 1
      BY <1>1
    <3> QED
      BY <2>2, <3>1, <3>2, <3>3
  <2> QED
    BY <1>1, <2>1, <2>2
<1> QED
  BY <1>4, <1>5, <1>6

-----------------------------------------------------------------------------
(***************************************************************************)
(* The operations on the list.                                             *)
(***************************************************************************)

\* synchronize(): every entry keeps its place and its token, and is due
\* "elapsed" sooner, but not before now.
LEMMA ElapseList ==
  ASSUME NEW q \in Seq(Entries), NEW elapsed \in Nat
  PROVE  /\ Elapse(q, elapsed) \in Seq(Entries)
         /\ Len(Elapse(q, elapsed)) = Len(q)
         /\ \A i \in 1..Len(q) : Elapse(q, elapsed)[i].token = q[i].token
         /\ \A i \in 0..Len(q) :
               TimeTo(Elapse(q, elapsed))[i] =
                  IF TimeTo(q)[i] <= elapsed THEN 0 ELSE TimeTo(q)[i] - elapsed
<1> DEFINE due == TimeTo(q)
           r == Elapse(q, elapsed)
           f == [i \in 0..Len(q) |->
                    IF due[i] <= elapsed THEN 0 ELSE due[i] - elapsed]
<1>1. /\ Len(q) \in Nat
      /\ \A i \in 1..Len(q) : q[i].token \in {Self} \cup Tokens
                              /\ q[i].delta \in Nat
  <2>1. \A i \in 1..Len(q) : q[i] \in Entries
    BY ElementOfSeq
  <2> QED
    BY <2>1, LenProperties DEF Entries
<1>2. /\ due \in [0..Len(q) -> Nat] /\ due[0] = 0
      /\ \A i \in 1..Len(q) : due[i] = due[i - 1] + q[i].delta
  BY TimeToSums
<1> HIDE DEF due
<1>3. r = [i \in 1..Len(q) |->
              IF due[i] <= elapsed THEN Entry(q[i].token, 0)
              ELSE IF due[i - 1] <= elapsed
                   THEN Entry(q[i].token, due[i] - elapsed)
                   ELSE q[i]]
  BY DEF Elapse, due
<1> HIDE DEF r
<1>4. ASSUME NEW i \in 1..Len(q)
      PROVE  /\ r[i] \in Entries
             /\ r[i].token = q[i].token
             /\ r[i].delta = f[i] - f[i - 1]
  <2>1. i \in 0..Len(q) /\ i - 1 \in 0..Len(q)
    BY <1>1
  <2>2. due[i] \in Nat /\ due[i - 1] \in Nat /\ q[i].delta \in Nat
        /\ due[i] = due[i - 1] + q[i].delta
    BY <1>1, <1>2, <2>1
  <2>3. /\ f[i] = IF due[i] <= elapsed THEN 0 ELSE due[i] - elapsed
        /\ f[i - 1] = IF due[i - 1] <= elapsed THEN 0 ELSE due[i - 1] - elapsed
    BY <2>1
  <2> HIDE DEF f
  <2>4. CASE due[i] <= elapsed
    <3>1. r[i] = Entry(q[i].token, 0)
      BY <1>3, <2>4
    <3> QED
      BY SMTT(30), <1>1, <2>2, <2>3, <2>4, <3>1 DEF Entry, Entries
  <2>5. CASE due[i] > elapsed /\ due[i - 1] <= elapsed
    <3>1. r[i] = Entry(q[i].token, due[i] - elapsed)
      BY <1>3, <2>2, <2>5
    <3> QED
      BY SMTT(30), <1>1, <2>2, <2>3, <2>5, <3>1 DEF Entry, Entries
  <2>6. CASE due[i] > elapsed /\ due[i - 1] > elapsed
    <3>1. r[i] = q[i]
      BY <1>3, <2>2, <2>6
    <3>2. q[i] \in Entries
      BY ElementOfSeq
    <3>3. f[i] = due[i] - elapsed /\ f[i - 1] = due[i - 1] - elapsed
      BY <2>2, <2>3, <2>6
    <3>4. q[i].delta = f[i] - f[i - 1]
      BY <2>2, <3>3
    <3> QED
      BY <3>1, <3>2, <3>4
  <2> QED
    BY <2>2, <2>4, <2>5, <2>6
<1>5. r \in Seq(Entries) /\ Len(r) = Len(q)
  <2>1. r \in [1..Len(q) -> Entries]
    BY <1>3, <1>4
  <2> QED
    BY <1>1, <2>1, SeqDef
<1>6. f[0] = 0 /\ \A i \in 0..Len(q) : f[i] \in Int
  BY <1>1, <1>2
<1>7. \A i \in 1..Len(r) : f[i] = f[i - 1] + r[i].delta
  <2> HIDE DEF f
  <2> TAKE i \in 1..Len(r)
  <2>1. i \in 0..Len(q) /\ i - 1 \in 0..Len(q) /\ i \in 1..Len(q)
    BY <1>1, <1>5
  <2> QED
    BY <1>4, <1>6, <2>1
<1>8. \A i \in 0..Len(r) : TimeTo(r)[i] = f[i]
  <2> HIDE DEF f
  <2> QED
    BY <1>5, <1>6, <1>7, TimeToUnique
<1> QED
  BY <1>4, <1>5, <1>8 DEF r, due

\* addEntry(): the new entry stands somewhere before the last one, is due
\* after exactly its delay and behind those that are due then or before, and no
\* other entry's time changes.
LEMMA InsertList ==
  ASSUME NEW q \in Seq(Entries), Len(q) >= 1,
         NEW token \in {Self} \cup Tokens,
         NEW delay \in Nat, delay < TimeTo(q)[Len(q)]
  PROVE  \E cur \in 1..Len(q) :
            /\ TimeTo(q)[cur - 1] <= delay /\ delay < TimeTo(q)[cur]
            /\ Insert(q, token, delay) \in Seq(Entries)
            /\ Len(Insert(q, token, delay)) = Len(q) + 1
            /\ \A j \in 1..Len(q) + 1 :
                  Insert(q, token, delay)[j].token =
                     IF j < cur THEN q[j].token
                     ELSE IF j = cur THEN token ELSE q[j - 1].token
            /\ \A j \in 1..Len(q) + 1 :
                  TimeTo(Insert(q, token, delay))[j] =
                     IF j < cur THEN TimeTo(q)[j]
                     ELSE IF j = cur THEN delay ELSE TimeTo(q)[j - 1]
<1> DEFINE due == TimeTo(q)
           Here(i) == due[i - 1] <= delay /\ delay < due[i]
           cur == CHOOSE i \in 1..Len(q) : Here(i)
           later == [q EXCEPT ![cur].delta = due[cur] - delay]
           new == Entry(token, delay - due[cur - 1])
           r == Insert(q, token, delay)
           f == [j \in 0..Len(q) + 1 |->
                    IF j < cur THEN due[j]
                    ELSE IF j = cur THEN delay ELSE due[j - 1]]
<1>1. Len(q) \in Nat \ {0} /\ \A i \in 1..Len(q) : q[i] \in Entries
  BY LenProperties, ElementOfSeq
<1>2. /\ due \in [0..Len(q) -> Nat] /\ due[0] = 0
      /\ \A i \in 1..Len(q) : due[i] = due[i - 1] + q[i].delta
  BY TimeToSums
<1>3. delay < due[Len(q)]
  OBVIOUS
<1>4. r = InsertAt(later, cur, new)
  BY DEF Insert
<1> HIDE DEF due, r
<1>5. \E i \in 1..Len(q) : Here(i)
  <2> DEFINE T == {i \in 0..Len(q) : delay < due[i]}
  <2>1. T \in SUBSET Nat /\ T # {}
    BY <1>1, <1>3
  <2>2. PICK m \in T : \A k \in T : m <= k
    BY <2>1, LeastElement
  <2>3. m \in 1..Len(q) /\ m - 1 \in 0..Len(q) /\ m - 1 \notin T
    BY <1>1, <1>2, <2>2
  <2>4. due[m - 1] <= delay
    BY <1>2, <2>3
  <2> QED
    BY <2>2, <2>3, <2>4
<1>6. cur \in 1..Len(q) /\ Here(cur)
  <2> HIDE DEF Here
  <2> QED
    BY <1>5
<1> HIDE DEF cur
<1>7. /\ cur - 1 \in 0..Len(q) /\ cur \in 0..Len(q)
      /\ due[cur] \in Nat /\ due[cur - 1] \in Nat
      /\ due[cur] - delay \in Nat /\ delay - due[cur - 1] \in Nat
  BY <1>1, <1>2, <1>6
<1>8. /\ later \in Seq(Entries) /\ Len(later) = Len(q)
      /\ later[cur] = [q[cur] EXCEPT !.delta = due[cur] - delay]
      /\ \A j \in 1..Len(q) : j # cur => later[j] = q[j]
  <2> DEFINE e == [q[cur] EXCEPT !.delta = due[cur] - delay]
  <2>1. e \in Entries
    BY <1>1, <1>6, <1>7 DEF Entries
  <2>2. later = [q EXCEPT ![cur] = e]
    OBVIOUS
  <2> HIDE DEF e, later
  <2>3. /\ later \in Seq(Entries) /\ Len(later) = Len(q)
        /\ \A j \in 1..Len(q) : later[j] = IF j = cur THEN e ELSE q[j]
    BY <1>6, <2>1, <2>2, ExceptSeq
  <2> QED
    BY <1>6, <2>3 DEF e
<1>9. new \in Entries
  BY <1>7 DEF Entry, Entries
<1>10. /\ later[cur].token = q[cur].token
       /\ later[cur].delta = due[cur] - delay
       /\ new.token = token /\ new.delta = delay - due[cur - 1]
  <2>1. q[cur] \in Entries
    BY <1>1, <1>6
  <2> QED
    BY <1>8, <2>1 DEF Entry, Entries
<1> HIDE DEF later, new
<1>11. /\ r \in Seq(Entries) /\ Len(r) = Len(q) + 1
       /\ \A j \in 1..Len(q) + 1 :
             r[j] = IF j < cur THEN later[j]
                    ELSE IF j = cur THEN new ELSE later[j - 1]
  <2> DEFINE ins == InsertAt(later, cur, new)
  <2>1. cur \in 1..Len(later)
    BY <1>6, <1>8
  <2>2. /\ ins \in Seq(Entries) /\ Len(ins) = Len(later) + 1
        /\ \A j \in 1..Len(later) + 1 :
              ins[j] = IF j < cur THEN later[j]
                       ELSE IF j = cur THEN new ELSE later[j - 1]
    <3> HIDE DEF f, Here
    <3>1. later \in Seq(Entries)
      BY <1>8
    <3> QED
      BY ONLY <3>1, <1>9, <2>1, InsertAtElements
  <2> HIDE DEF ins, f, Here
  <2>3. r = ins /\ Len(later) = Len(q)
    BY <1>4, <1>8 DEF ins
  <2> QED
    BY <2>2, <2>3
<1>12. ASSUME NEW j \in 1..Len(q) + 1
       PROVE  r[j].token = IF j < cur THEN q[j].token
                           ELSE IF j = cur THEN token ELSE q[j - 1].token
  <2>1. CASE j < cur
    BY SMTT(30), <1>1, <1>6, <1>8, <1>11, <2>1
  <2>2. CASE j = cur
    BY <1>10, <1>11, <2>2
  <2>3. CASE j = cur + 1
    BY <1>1, <1>6, <1>10, <1>11, <2>3
  <2>4. CASE j > cur + 1
    <3>1. j - 1 \in 1..Len(q) /\ j - 1 # cur
      BY <1>1, <1>6, <2>4
    <3> QED
      BY <1>6, <1>8, <1>11, <2>4, <3>1
  <2> QED
    BY <1>1, <1>6, <2>1, <2>2, <2>3, <2>4
<1>13. f[0] = 0
  BY <1>1, <1>2, <1>6
<1>14. ASSUME NEW j \in 1..Len(q) + 1
       PROVE  f[j] = f[j - 1] + r[j].delta
  <2>1. /\ f[j] = IF j < cur THEN due[j]
                  ELSE IF j = cur THEN delay ELSE due[j - 1]
        /\ f[j - 1] = IF j - 1 < cur THEN due[j - 1]
                      ELSE IF j - 1 = cur THEN delay ELSE due[j - 2]
    BY <1>1
  <2> HIDE DEF f
  <2>2. CASE j < cur
    <3>1. j \in 1..Len(q) /\ r[j] = q[j] /\ j - 1 < cur
      BY <1>1, <1>6, <1>8, <1>11, <2>2
    <3> QED
      BY <1>2, <2>1, <2>2, <3>1
  <2>3. CASE j = cur
    <3>1. r[j].delta = delay - due[cur - 1]
      BY <1>10, <1>11, <2>3
    <3>2. f[j] = delay /\ f[j - 1] = due[cur - 1]
      BY <1>6, <2>1, <2>3
    <3> QED
      BY <1>7, <3>1, <3>2
  <2>4. CASE j = cur + 1
    <3>1. r[j].delta = due[cur] - delay
      BY <1>1, <1>6, <1>10, <1>11, <2>4
    <3>2. f[j] = due[cur] /\ f[j - 1] = delay
      BY <1>6, <2>1, <2>4
    <3> QED
      BY <1>7, <3>1, <3>2
  <2>5. CASE j > cur + 1
    <3>1. j - 1 \in 1..Len(q) /\ j - 1 # cur /\ ~(j < cur) /\ j # cur
          /\ (j - 1) - 1 = j - 2 /\ ~(j - 1 < cur)
      BY <1>1, <1>6, <2>5
    <3>2. r[j] = q[j - 1]
      BY <1>8, <1>11, <3>1
    <3>3. due[j - 1] = due[j - 2] + q[j - 1].delta
      BY <1>2, <3>1
    <3> QED
      BY <2>1, <3>1, <3>2, <3>3
  <2> QED
    BY <1>1, <1>6, <2>2, <2>3, <2>4, <2>5
<1>15. \A j \in 0..Len(r) : TimeTo(r)[j] = f[j]
  <2> HIDE DEF f
  <2>1. \A j \in 1..Len(r) : f[j] = f[j - 1] + r[j].delta
    BY <1>11, <1>14
  <2> QED
    BY <1>11, <1>13, <2>1, TimeToUnique
<1>16. ASSUME NEW j \in 1..Len(q) + 1
       PROVE  TimeTo(r)[j] = IF j < cur THEN due[j]
                             ELSE IF j = cur THEN delay ELSE due[j - 1]
  BY <1>1, <1>11, <1>15
<1> QED
  <2>1. cur \in 1..Len(q) /\ due[cur - 1] <= delay /\ delay < due[cur]
    BY <1>6
  <2> HIDE DEF f
  <2> QED
    BY <2>1, <1>11, <1>12, <1>16 DEF r, due

\* removeEntry(): the entries behind the one removed move up, and no entry's
\* time changes.
LEMMA UnlinkList ==
  ASSUME NEW q \in Seq(Entries), NEW k \in 1..Len(q) - 1
  PROVE  /\ Unlink(q, k) \in Seq(Entries)
         /\ Len(Unlink(q, k)) = Len(q) - 1
         /\ \A j \in 1..Len(q) - 1 :
               Unlink(q, k)[j].token = IF j < k THEN q[j].token
                                       ELSE q[j + 1].token
         /\ \A j \in 1..Len(q) - 1 :
               TimeTo(Unlink(q, k))[j] = IF j < k THEN TimeTo(q)[j]
                                         ELSE TimeTo(q)[j + 1]
<1> DEFINE due == TimeTo(q)
           heir == [q EXCEPT ![k + 1].delta = q[k + 1].delta + q[k].delta]
           r == Unlink(q, k)
           f == [j \in 0..Len(q) - 1 |-> IF j < k THEN due[j] ELSE due[j + 1]]
<1>1. /\ Len(q) \in Nat /\ k \in Nat \ {0} /\ k + 1 \in 1..Len(q)
      /\ k \in 1..Len(q)
      /\ \A i \in 1..Len(q) : q[i] \in Entries
  BY LenProperties, ElementOfSeq
<1>2. /\ due \in [0..Len(q) -> Nat] /\ due[0] = 0
      /\ \A i \in 1..Len(q) : due[i] = due[i - 1] + q[i].delta
  BY TimeToSums
<1>3. r = RemoveAt(heir, k)
  BY DEF Unlink
<1> HIDE DEF due, r
<1>4. /\ heir \in Seq(Entries) /\ Len(heir) = Len(q)
      /\ heir[k + 1].token = q[k + 1].token
      /\ heir[k + 1].delta = q[k + 1].delta + q[k].delta
      /\ \A j \in 1..Len(q) : j # k + 1 => heir[j] = q[j]
  <2> DEFINE e == [q[k + 1] EXCEPT !.delta = q[k + 1].delta + q[k].delta]
  <2>1. q[k + 1] \in Entries /\ q[k] \in Entries
    BY <1>1
  <2> DEFINE both == q[k + 1].delta + q[k].delta
  <2>2. e \in Entries /\ e.token = q[k + 1].token /\ e.delta = both
    <3>1. q[k + 1].delta \in Nat /\ q[k].delta \in Nat
          /\ q[k + 1].token \in {Self} \cup Tokens
      BY <2>1 DEF Entries
    <3>2. both \in Nat
      BY <3>1
    <3>3. e = [q[k + 1] EXCEPT !.delta = both]
      OBVIOUS
    <3> HIDE DEF e, both, heir, f
    <3> QED
      BY <2>1, <3>2, <3>3 DEF Entries
  <2>3. heir = [q EXCEPT ![k + 1] = e]
    OBVIOUS
  <2> HIDE DEF e, heir
  <2>4. /\ heir \in Seq(Entries) /\ Len(heir) = Len(q)
        /\ \A j \in 1..Len(q) : heir[j] = IF j = k + 1 THEN e ELSE q[j]
    BY <1>1, <2>2, <2>3, ExceptSeq
  <2> QED
    BY <1>1, <2>2, <2>4
<1> HIDE DEF heir
<1>5. /\ r \in Seq(Entries) /\ Len(r) = Len(q) - 1
      /\ \A j \in 1..Len(q) - 1 : r[j] = IF j < k THEN heir[j] ELSE heir[j + 1]
  <2> DEFINE rem == RemoveAt(heir, k)
  <2>1. k \in 1..Len(heir) /\ heir \in Seq(Entries)
    BY <1>1, <1>4
  <2>2. /\ rem \in Seq(Entries) /\ Len(rem) = Len(heir) - 1
        /\ \A j \in 1..Len(heir) - 1 :
              rem[j] = IF j < k THEN heir[j] ELSE heir[j + 1]
    BY ONLY <2>1, RemoveAtElements
  <2> HIDE DEF rem, f
  <2>3. r = rem /\ Len(heir) = Len(q)
    BY <1>3, <1>4 DEF rem
  <2> QED
    BY <2>2, <2>3
<1>6. ASSUME NEW j \in 1..Len(q) - 1
      PROVE  r[j].token = IF j < k THEN q[j].token ELSE q[j + 1].token
  <2>1. j \in 1..Len(q) /\ j + 1 \in 1..Len(q) /\ (j < k => j # k + 1)
    BY <1>1
  <2>2. CASE j < k
    BY <1>4, <1>5, <2>1, <2>2
  <2>3. CASE ~(j < k)
    <3>1. r[j] = heir[j + 1]
      BY <1>5, <2>3
    <3>2. heir[j + 1].token = q[j + 1].token
      BY <1>1, <1>4, <2>1
    <3> QED
      BY <2>3, <3>1, <3>2
  <2> QED
    BY <2>2, <2>3
<1>7. f[0] = 0
  BY <1>1, <1>2
<1>8. ASSUME NEW j \in 1..Len(q) - 1
      PROVE  f[j] = f[j - 1] + r[j].delta
  <2>1. /\ f[j] = IF j < k THEN due[j] ELSE due[j + 1]
        /\ f[j - 1] = IF j - 1 < k THEN due[j - 1] ELSE due[j]
    BY <1>1
  <2> HIDE DEF f
  <2>2. j \in 1..Len(q) /\ j + 1 \in 1..Len(q) /\ j - 1 \in 0..Len(q)
        /\ (j + 1) - 1 = j
    BY <1>1
  <2>3. /\ due[j] = due[j - 1] + q[j].delta
        /\ due[j + 1] = due[j] + q[j + 1].delta
    BY <1>2, <2>2
  <2>4. /\ due[j - 1] \in Nat /\ q[j].delta \in Nat /\ q[j + 1].delta \in Nat
    BY <1>1, <1>2, <2>2 DEF Entries
  <2>5. CASE j < k
    <3>1. r[j] = q[j] /\ j - 1 < k
      BY <1>1, <1>4, <1>5, <2>2, <2>5
    <3> QED
      BY <2>1, <2>3, <2>5, <3>1
  <2>6. CASE j = k
    <3>1. r[j].delta = q[j + 1].delta + q[j].delta
      BY <1>1, <1>4, <1>5, <2>6
    <3>2. f[j] = due[j + 1] /\ f[j - 1] = due[j - 1]
      BY <1>1, <2>1, <2>6
    <3> QED
      BY <2>3, <2>4, <3>1, <3>2
  <2>7. CASE j > k
    <3>1. ~(j < k) /\ ~(j - 1 < k) /\ j + 1 # k + 1
      BY <1>1, <2>7
    <3>2. r[j] = q[j + 1]
      BY <1>4, <1>5, <2>2, <3>1
    <3> QED
      BY <2>1, <2>3, <3>1, <3>2
  <2> QED
    BY <1>1, <2>5, <2>6, <2>7
<1>9. \A j \in 0..Len(r) : TimeTo(r)[j] = f[j]
  <2> HIDE DEF f
  <2>1. \A j \in 1..Len(r) : f[j] = f[j - 1] + r[j].delta
    BY <1>5, <1>8
  <2> QED
    BY <1>5, <1>7, <2>1, TimeToUnique
<1>10. ASSUME NEW j \in 1..Len(q) - 1
       PROVE  TimeTo(r)[j] = IF j < k THEN due[j] ELSE due[j + 1]
  BY <1>1, <1>5, <1>9
<1> QED
  <2> HIDE DEF f
  <2> QED
    BY <1>5, <1>6, <1>10 DEF r, due


-----------------------------------------------------------------------------
(***************************************************************************)
(* The inductive invariant: the checked invariants, regrouped so that what *)
(* concerns the list speaks of any list q and any clock.                   *)
(***************************************************************************)

Alarm == [delay : Nat, at : Nat, clock : Int]

\* No two entries have the same token, and the DelayQueue object is last.
Shape(q) ==
    /\ q \in Seq(Entries) /\ Len(q) \in Nat \ {0}
    /\ \A i, j \in 1..Len(q) : q[i].token = q[j].token => i = j
    /\ q[Len(q)].token = Self

\* What is left of ETERNITY at real time n, with the clock set back by sb,
\* when the last synchronize() read "last".
EternityLeft(left, last, n, sb) ==
    /\ left >= Eternity - n
    /\ left >= Eternity - sb - last
    /\ left <= Eternity

\* The same for the time left to alarm a.
TimeLeft(left, a, last, n, sb) ==
    /\ left >= a.at + a.delay - n
    /\ left >= a.at + a.delay - sb - last
    /\ left = 0 \/ left <= a.clock + a.delay - last

OnTime(q, A, last, n, sb) ==
    /\ EternityLeft(TimeTo(q)[Len(q)], last, n, sb)
    /\ \A i \in Positions(q) :
          TimeLeft(TimeTo(q)[i], A[q[i].token], last, n, sb)

Scalars ==
    /\ now \in 0..MaxTime /\ setBack \in 0..MaxSetBack
    /\ fLastSyncTime \in Int
    /\ tokenCounter \in Self..MaxTokens + 1

Objects ==
    /\ DOMAIN alarms \subseteq Self + 1..tokenCounter
    /\ alarms \in [DOMAIN alarms -> Alarm]

Running ==
    /\ running \in Seq(Tokens)
    /\ \A i, j \in 1..Len(running) : running[i] = running[j] => i = j
    /\ \A i \in 1..Len(running) :
          /\ running[i] \in DOMAIN alarms \ Pending(queue)
          /\ Due(running[i]) <= now

\* Every object has an owner; with Running, exactly one.
Owned ==
    /\ Pending(queue) \subseteq DOMAIN alarms
    /\ \A t \in DOMAIN alarms :
          t \in Pending(queue) \/ \E i \in 1..Len(running) : running[i] = t

IInv ==
    /\ Scalars /\ Objects /\ Running /\ Owned
    /\ Shape(queue)
    /\ OnTime(queue, alarms, fLastSyncTime, now, setBack)

-----------------------------------------------------------------------------
(***************************************************************************)
(* The operations preserve Shape and OnTime.                               *)
(***************************************************************************)

\* An entry of a list that is well shaped.
LEMMA ShapeEntries ==
  ASSUME NEW q, Shape(q)
  PROVE  /\ q \in Seq(Entries) /\ Len(q) \in Nat \ {0}
         /\ \A i \in 1..Len(q) : q[i] \in Entries
         /\ \A i \in Positions(q) : i \in 1..Len(q) /\ q[i].token \in Tokens
         /\ TimeTo(q) \in [0..Len(q) -> Nat] /\ TimeTo(q)[0] = 0
         /\ \A i \in 1..Len(q) : TimeTo(q)[i] = TimeTo(q)[i - 1] + q[i].delta
<1>1. q \in Seq(Entries) /\ Len(q) \in Nat \ {0}
  BY DEF Shape
<1>2. \A i \in 1..Len(q) : q[i] \in Entries
  BY <1>1, ElementOfSeq
<1>3. ASSUME NEW i \in Positions(q)
      PROVE  i \in 1..Len(q) /\ q[i].token \in Tokens
  <2>1. i \in 1..Len(q) /\ i # Len(q) /\ Len(q) \in 1..Len(q)
    BY <1>1 DEF Positions
  <2>2. q[i].token # Self
    BY <2>1 DEF Shape
  <2> QED
    BY <1>2, <2>1, <2>2 DEF Entries
<1> QED
  BY <1>1, <1>2, <1>3, TimeToSums

\* synchronize() keeps the shape and the pending alarms, and brings the times
\* up to date with the clock it has read.
LEMMA SynchronizedOnTime ==
  ASSUME Scalars, NEW q, Shape(q), NEW D, NEW A \in [D -> Alarm],
         Pending(q) \subseteq D,
         OnTime(q, A, fLastSyncTime, now, setBack)
  PROVE  /\ Shape(Synchronized(q))
         /\ Pending(Synchronized(q)) = Pending(q)
         /\ OnTime(Synchronized(q), A, TimeNow, now, setBack)
<1> DEFINE r == Synchronized(q)
           e == TimeNow - fLastSyncTime
<1>1. /\ now \in Nat /\ now <= MaxTime /\ setBack \in Nat
      /\ fLastSyncTime \in Int /\ TimeNow \in Int /\ TimeNow = now - setBack
      /\ Eternity \in Nat /\ MaxTime \in Nat /\ MaxTime < Eternity
  BY DelayAssumption DEF Scalars, TimeNow
<1>2. /\ q \in Seq(Entries) /\ Len(q) \in Nat \ {0}
      /\ TimeTo(q) \in [0..Len(q) -> Nat]
  BY ShapeEntries
<1>3. ASSUME NEW i \in Positions(q)
      PROVE  /\ i \in 1..Len(q) /\ TimeTo(q)[i] \in Nat
             /\ A[q[i].token].at \in Nat /\ A[q[i].token].delay \in Nat
             /\ A[q[i].token].clock \in Int
             /\ TimeLeft(TimeTo(q)[i], A[q[i].token], fLastSyncTime, now, setBack)
  <2>1. i \in 1..Len(q)
    BY <1>2 DEF Positions
  <2>2. q[i].token \in D
    BY DEF Pending
  <2> QED
    BY <1>2, <2>1, <2>2 DEF OnTime, Alarm
<1>4. EternityLeft(TimeTo(q)[Len(q)], fLastSyncTime, now, setBack)
      /\ TimeTo(q)[Len(q)] \in Nat
  BY <1>2 DEF OnTime
<1>5. CASE TimeNow < fLastSyncTime
  <2>1. r = q
    BY <1>5 DEF Synchronized
  <2>2. EternityLeft(TimeTo(q)[Len(q)], TimeNow, now, setBack)
    BY <1>1, <1>4 DEF EternityLeft
  <2>3. ASSUME NEW i \in Positions(q)
        PROVE  TimeLeft(TimeTo(q)[i], A[q[i].token], TimeNow, now, setBack)
    <3> DEFINE a == A[q[i].token]
               old == TimeTo(q)[i]
    <3>1. /\ a.at \in Nat /\ a.delay \in Nat /\ a.clock \in Int /\ old \in Nat
          /\ TimeLeft(old, a, fLastSyncTime, now, setBack)
      BY <1>3
    <3> HIDE DEF a, old
    <3>2. TimeLeft(old, a, TimeNow, now, setBack)
      BY <1>1, <1>5, <3>1 DEF TimeLeft
    <3> QED
      BY <3>2 DEF a, old
  <2> QED
    BY <2>1, <2>2, <2>3 DEF OnTime
<1>6. CASE ~(TimeNow < fLastSyncTime)
  <2>1. e \in Nat
    BY <1>1, <1>6
  <2>2. r = Elapse(q, e)
    BY <1>6 DEF Synchronized
  <2>3. /\ r \in Seq(Entries) /\ Len(r) = Len(q)
        /\ \A i \in 1..Len(q) : r[i].token = q[i].token
        /\ \A i \in 0..Len(q) :
              TimeTo(r)[i] = IF TimeTo(q)[i] <= e THEN 0 ELSE TimeTo(q)[i] - e
    BY <1>2, <2>1, <2>2, ElapseList
  <2> HIDE DEF r
  <2>4. Shape(r)
    BY <1>2, <2>3 DEF Shape
  <2>5. Pending(r) = Pending(q)
    <3>1. /\ Positions(r) = Positions(q)
          /\ \A i \in Positions(q) : r[i].token = q[i].token
      BY <1>2, <2>3 DEF Positions
    <3> QED
      BY <3>1 DEF Pending
  <2>6. EternityLeft(TimeTo(r)[Len(r)], TimeNow, now, setBack)
    <3>1. TimeTo(r)[Len(r)] =
             IF TimeTo(q)[Len(q)] <= e THEN 0 ELSE TimeTo(q)[Len(q)] - e
      BY <1>2, <2>3
    <3> QED
      BY <1>1, <1>4, <2>1, <3>1 DEF EternityLeft
  <2>7. ASSUME NEW i \in Positions(r)
        PROVE  TimeLeft(TimeTo(r)[i], A[r[i].token], TimeNow, now, setBack)
    <3>1. i \in Positions(q) /\ i \in 0..Len(q) /\ r[i].token = q[i].token
      BY <1>2, <2>3 DEF Positions
    <3>2. TimeTo(r)[i] = IF TimeTo(q)[i] <= e THEN 0 ELSE TimeTo(q)[i] - e
      BY <2>3, <3>1
    <3> DEFINE a == A[q[i].token]
               old == TimeTo(q)[i]
    <3>3. /\ a.at \in Nat /\ a.delay \in Nat /\ a.clock \in Int /\ old \in Nat
          /\ TimeLeft(old, a, fLastSyncTime, now, setBack)
      BY <1>3, <3>1
    <3>4. TimeTo(r)[i] = (IF old <= e THEN 0 ELSE old - e) /\ A[r[i].token] = a
      BY <3>1, <3>2
    <3> HIDE DEF a, old
    <3> QED
      BY <1>1, <2>1, <3>3, <3>4 DEF TimeLeft
  <2> QED
    BY <2>4, <2>5, <2>6, <2>7 DEF OnTime, r
<1> QED
  BY <1>5, <1>6

\* removeEntry() of the entry at position k takes just this one out.
LEMMA UnlinkOnTime ==
  ASSUME NEW q, Shape(q), NEW k \in Positions(q),
         NEW A, NEW last, NEW n, NEW sb, OnTime(q, A, last, n, sb)
  PROVE  /\ Shape(Unlink(q, k))
         /\ Pending(Unlink(q, k)) = Pending(q) \ {q[k].token}
         /\ OnTime(Unlink(q, k), A, last, n, sb)
<1> DEFINE r == Unlink(q, k)
           old(j) == IF j < k THEN j ELSE j + 1
<1>1. /\ q \in Seq(Entries) /\ Len(q) \in Nat \ {0}
      /\ k \in 1..Len(q) - 1 /\ Len(q) - 1 \in Nat \ {0}
  BY ShapeEntries DEF Positions
<1>2. /\ r \in Seq(Entries) /\ Len(r) = Len(q) - 1
      /\ \A j \in 1..Len(q) - 1 : r[j].token = q[old(j)].token
      /\ \A j \in 1..Len(q) - 1 : TimeTo(r)[j] = TimeTo(q)[old(j)]
  BY <1>1, UnlinkList
<1> HIDE DEF r
<1>3. /\ \A j \in 1..Len(q) - 1 : old(j) \in 1..Len(q) /\ old(j) # k
      /\ \A i, j \in 1..Len(q) - 1 : old(i) = old(j) => i = j
      /\ \A j \in Positions(r) : old(j) \in Positions(q) /\ j \in 1..Len(q) - 1
      /\ \A i \in Positions(q) : i # k => \E j \in Positions(r) : old(j) = i
      /\ old(Len(q) - 1) = Len(q) /\ Len(q) - 1 \in 1..Len(q) - 1
  <2>1. \A i \in Positions(q) : i # k => \E j \in Positions(r) : old(j) = i
    <3> SUFFICES ASSUME NEW i \in Positions(q), i # k
                 PROVE  \E j \in Positions(r) : old(j) = i
      OBVIOUS
    <3>1. CASE i < k
      <4>1. i \in Positions(r) /\ old(i) = i
        BY <1>1, <1>2, <3>1 DEF Positions
      <4> QED
        BY <4>1
    <3>2. CASE i > k
      <4>1. i - 1 \in Positions(r) /\ old(i - 1) = i
        BY <1>1, <1>2, <3>2 DEF Positions
      <4> QED
        BY <4>1
    <3> QED
      BY <1>1, <3>1, <3>2 DEF Positions
  <2> QED
    BY <1>1, <1>2, <2>1 DEF Positions
<1> HIDE DEF old
<1>4. Shape(r)
  <2>1. Len(r) \in Nat \ {0} /\ Len(r) = Len(q) - 1
    BY <1>1, <1>2
  <2>2. ASSUME NEW i \in 1..Len(r), NEW j \in 1..Len(r),
               r[i].token = r[j].token
        PROVE  i = j
    <3>1. old(i) \in 1..Len(q) /\ old(j) \in 1..Len(q)
          /\ q[old(i)].token = q[old(j)].token
      BY <1>2, <1>3, <2>1, <2>2
    <3>2. old(i) = old(j)
      BY <3>1 DEF Shape
    <3> QED
      BY <1>3, <2>1, <3>2
  <2>3. r[Len(r)].token = Self
    BY <1>2, <1>3, <2>1 DEF Shape
  <2> QED
    BY <1>2, <2>1, <2>2, <2>3 DEF Shape
<1>5. Pending(r) = Pending(q) \ {q[k].token}
  <2>1. \A j \in Positions(r) : r[j].token \in Pending(q) \ {q[k].token}
    <3> TAKE j \in Positions(r)
    <3>1. r[j].token = q[old(j)].token /\ old(j) \in Positions(q) /\ old(j) # k
          /\ old(j) \in 1..Len(q) /\ k \in 1..Len(q)
      BY <1>1, <1>2, <1>3
    <3> QED
      BY <3>1 DEF Pending, Shape
  <2>2. ASSUME NEW i \in Positions(q), q[i].token # q[k].token
        PROVE  q[i].token \in Pending(r)
    <3>1. PICK j \in Positions(r) : old(j) = i
      BY <1>3, <2>2
    <3>2. r[j].token = q[i].token
      BY <1>2, <1>3, <3>1
    <3> QED
      BY <3>2 DEF Pending
  <2> QED
    BY <2>1, <2>2 DEF Pending
<1>6. OnTime(r, A, last, n, sb)
  <2>1. TimeTo(r)[Len(r)] = TimeTo(q)[Len(q)]
    BY <1>2, <1>3
  <2>2. \A j \in Positions(r) : /\ TimeTo(r)[j] = TimeTo(q)[old(j)]
                                /\ r[j].token = q[old(j)].token
                                /\ old(j) \in Positions(q)
    BY <1>2, <1>3
  <2> QED
    BY <2>1, <2>2 DEF OnTime
<1> QED
  BY <1>4, <1>5, <1>6 DEF r

\* removeEntry() of a token.
LEMMA RemoveOnTime ==
  ASSUME NEW q, Shape(q), NEW token,
         NEW A, NEW last, NEW n, NEW sb, OnTime(q, A, last, n, sb)
  PROVE  /\ Shape(RemoveEntry(q, token))
         /\ Pending(RemoveEntry(q, token)) = Pending(q) \ {token}
         /\ OnTime(RemoveEntry(q, token), A, last, n, sb)
<1>1. CASE token \in Pending(q)
  <2> DEFINE k == PositionOf(q, token)
  <2>1. k \in Positions(q) /\ q[k].token = token
    BY <1>1 DEF Pending, PositionOf
  <2>2. RemoveEntry(q, token) = Unlink(q, k)
    BY <1>1 DEF RemoveEntry
  <2> HIDE DEF k
  <2> QED
    BY <2>1, <2>2, UnlinkOnTime
<1>2. CASE token \notin Pending(q)
  BY <1>2 DEF RemoveEntry
<1> QED
  BY <1>1, <1>2

\* The rest of addEntry(), after its synchronize().
LEMMA InsertOnTime ==
  ASSUME Scalars, NEW q, Shape(q),
         NEW token \in Tokens, token \notin Pending(q),
         NEW delay \in Nat, delay + MaxTime < Eternity,
         NEW A, A[token] = [delay |-> delay, at |-> now, clock |-> TimeNow],
         OnTime(q, A, TimeNow, now, setBack)
  PROVE  /\ Shape(Insert(q, token, delay))
         /\ Pending(Insert(q, token, delay)) = Pending(q) \cup {token}
         /\ OnTime(Insert(q, token, delay), A, TimeNow, now, setBack)
<1> DEFINE r == Insert(q, token, delay)
<1>1. /\ now \in Nat /\ now <= MaxTime /\ setBack \in Nat
      /\ TimeNow = now - setBack
      /\ Eternity \in Nat /\ MaxTime \in Nat /\ MaxTokens \in Nat
  BY DelayAssumption DEF Scalars, TimeNow
<1>2. /\ q \in Seq(Entries) /\ Len(q) \in Nat \ {0}
      /\ TimeTo(q) \in [0..Len(q) -> Nat]
      /\ \A i \in Positions(q) : i \in 1..Len(q) /\ q[i].token \in Tokens
  BY ShapeEntries
<1>3. delay < TimeTo(q)[Len(q)]
  BY <1>1, <1>2 DEF OnTime, EternityLeft
<1>4. PICK cur \in 1..Len(q) :
         /\ TimeTo(q)[cur - 1] <= delay /\ delay < TimeTo(q)[cur]
         /\ r \in Seq(Entries) /\ Len(r) = Len(q) + 1
         /\ \A j \in 1..Len(q) + 1 :
               r[j].token = IF j < cur THEN q[j].token
                            ELSE IF j = cur THEN token ELSE q[j - 1].token
         /\ \A j \in 1..Len(q) + 1 :
               TimeTo(r)[j] = IF j < cur THEN TimeTo(q)[j]
                              ELSE IF j = cur THEN delay ELSE TimeTo(q)[j - 1]
  <2>1. q \in Seq(Entries) /\ Len(q) >= 1 /\ token \in {Self} \cup Tokens
    BY <1>2
  <2> QED
    BY ONLY <2>1, <1>3, delay \in Nat, InsertList DEF r
<1> DEFINE old(j) == IF j < cur THEN j ELSE j - 1
<1> HIDE DEF r
<1>5. /\ \A j \in 1..Len(q) + 1 : j # cur =>
            /\ old(j) \in 1..Len(q)
            /\ r[j].token = q[old(j)].token
            /\ TimeTo(r)[j] = TimeTo(q)[old(j)]
      /\ r[cur].token = token /\ TimeTo(r)[cur] = delay
      /\ cur \in 1..Len(q) + 1 /\ cur \in Positions(r)
      /\ Len(q) + 1 \in 1..Len(q) + 1 /\ Len(q) + 1 # cur
      /\ old(Len(q) + 1) = Len(q)
  BY <1>2, <1>4 DEF Positions
<1>6. /\ \A i, j \in 1..Len(q) + 1 :
            i # cur /\ j # cur /\ old(i) = old(j) => i = j
      /\ \A j \in Positions(r) : j # cur => old(j) \in Positions(q)
      /\ \A j \in Positions(r) : j \in 1..Len(q) + 1
      /\ \A i \in Positions(q) : \E j \in Positions(r) : j # cur /\ old(j) = i
  <2>1. \A i \in Positions(q) : \E j \in Positions(r) : j # cur /\ old(j) = i
    <3> TAKE i \in Positions(q)
    <3>1. CASE i < cur
      <4>1. i \in Positions(r) /\ i # cur /\ old(i) = i
        BY <1>2, <1>4, <3>1 DEF Positions
      <4> QED
        BY <4>1
    <3>2. CASE i >= cur
      <4>1. i + 1 \in Positions(r) /\ i + 1 # cur /\ old(i + 1) = i
        BY <1>2, <1>4, <3>2 DEF Positions
      <4> QED
        BY <4>1
    <3> QED
      BY <1>2, <1>4, <3>1, <3>2 DEF Positions
  <2>2. \A i, j \in 1..Len(q) + 1 :
           i # cur /\ j # cur /\ old(i) = old(j) => i = j
    BY <1>2, <1>4
  <2>3. /\ \A j \in Positions(r) : j # cur => old(j) \in Positions(q)
        /\ \A j \in Positions(r) : j \in 1..Len(q) + 1
    BY <1>2, <1>4 DEF Positions
  <2> QED
    BY <2>1, <2>2, <2>3
<1> HIDE DEF old
<1>7. \A i \in 1..Len(q) : q[i].token # token
  <2> TAKE i \in 1..Len(q)
  <2>1. CASE i \in Positions(q)
    BY <2>1 DEF Pending
  <2>2. CASE i \notin Positions(q)
    <3>1. i = Len(q)
      BY <1>2, <2>2 DEF Positions
    <3>2. q[i].token = Self
      BY <3>1 DEF Shape
    <3>3. token # Self
      BY <1>1 DEF Tokens, Self
    <3> QED
      BY <3>2, <3>3
  <2> QED
    BY <2>1, <2>2
<1>8. Shape(r)
  <2>1. ASSUME NEW i \in 1..Len(r), NEW j \in 1..Len(r),
               r[i].token = r[j].token
        PROVE  i = j
    <3>1. CASE i # cur /\ j # cur
      <4>1. q[old(i)].token = q[old(j)].token
            /\ old(i) \in 1..Len(q) /\ old(j) \in 1..Len(q)
        BY <1>4, <1>5, <2>1, <3>1
      <4>2. old(i) = old(j)
        BY <4>1 DEF Shape
      <4> QED
        BY <1>4, <1>6, <3>1, <4>2
    <3>2. CASE i = cur
      BY <1>4, <1>5, <1>7, <2>1, <3>2
    <3>3. CASE j = cur
      BY <1>4, <1>5, <1>7, <2>1, <3>3
    <3> QED
      BY <3>1, <3>2, <3>3
  <2>2. r[Len(r)].token = Self
    BY <1>4, <1>5 DEF Shape
  <2>3. Len(r) \in Nat \ {0}
    BY <1>2, <1>4
  <2> QED
    BY <1>4, <2>1, <2>2, <2>3 DEF Shape
<1>9. Pending(r) = Pending(q) \cup {token}
  <2>1. \A j \in Positions(r) : r[j].token \in Pending(q) \cup {token}
    <3> TAKE j \in Positions(r)
    <3>1. CASE j = cur
      BY <1>5, <3>1
    <3>2. CASE j # cur
      BY <1>5, <1>6, <3>2 DEF Pending
    <3> QED
      BY <3>1, <3>2
  <2>2. ASSUME NEW i \in Positions(q)
        PROVE  q[i].token \in Pending(r)
    <3>1. PICK j \in Positions(r) : j # cur /\ old(j) = i
      BY <1>6
    <3>2. r[j].token = q[i].token
      BY <1>5, <1>6, <3>1
    <3> QED
      BY <3>2 DEF Pending
  <2>3. token \in Pending(r)
    BY <1>5 DEF Pending
  <2> QED
    BY <2>1, <2>2, <2>3 DEF Pending
<1>10. OnTime(r, A, TimeNow, now, setBack)
  <2>1. EternityLeft(TimeTo(r)[Len(r)], TimeNow, now, setBack)
    <3>1. TimeTo(r)[Len(r)] = TimeTo(q)[Len(q)]
      BY <1>4, <1>5
    <3> QED
      BY <3>1 DEF OnTime
  <2>2. ASSUME NEW j \in Positions(r)
        PROVE  TimeLeft(TimeTo(r)[j], A[r[j].token], TimeNow, now, setBack)
    <3>1. CASE j = cur
      <4>1. A[r[j].token] = [delay |-> delay, at |-> now, clock |-> TimeNow]
            /\ TimeTo(r)[j] = delay
        BY <1>5, <3>1
      <4> QED
        BY <1>1, <4>1 DEF TimeLeft
    <3>2. CASE j # cur
      <4>1. /\ TimeTo(r)[j] = TimeTo(q)[old(j)]
            /\ r[j].token = q[old(j)].token
            /\ old(j) \in Positions(q)
        BY <1>5, <1>6, <3>2
      <4> QED
        BY <4>1 DEF OnTime
    <3> QED
      BY <3>1, <3>2
  <2> QED
    BY <2>1, <2>2 DEF OnTime
<1> QED
  BY <1>8, <1>9, <1>10 DEF r

-----------------------------------------------------------------------------
(***************************************************************************)
(* The invariant and the properties.                                       *)
(***************************************************************************)

\* The set of elements of a sequence.
LEMMA ToSetElements ==
  ASSUME NEW S, NEW s \in Seq(S)
  PROVE  ToSet(s) = {s[i] : i \in 1..Len(s)}
BY LenProperties DEF ToSet

\* The initial state satisfies the invariant.
LEMMA InitInvariant ==
  ASSUME Init
  PROVE  IInv
<1> DEFINE e == Entry(Self, Eternity)
<1>1. /\ Eternity \in Nat /\ MaxTokens \in Nat /\ MaxTime \in Nat
      /\ MaxSetBack \in Nat
  BY DelayAssumption
<1>2. e \in Entries /\ e.token = Self /\ e.delta = Eternity
  BY <1>1 DEF Entry, Entries
<1>3. queue = <<e>>
  BY DEF Init
<1> HIDE DEF e
<1>4. queue \in Seq(Entries) /\ Len(queue) = 1 /\ queue[1] = e
  BY <1>2, <1>3
<1>5. Shape(queue) /\ Positions(queue) = {}
  BY <1>2, <1>4 DEF Shape, Positions
<1>6. TimeTo(queue)[Len(queue)] = Eternity
  <2>1. TimeTo(queue)[1] = TimeTo(queue)[0] + queue[1].delta
        /\ TimeTo(queue)[0] = 0
    BY <1>4, <1>5, ShapeEntries
  <2> QED
    BY <1>1, <1>2, <1>4, <2>1
<1>7. OnTime(queue, alarms, fLastSyncTime, now, setBack)
  BY <1>1, <1>5, <1>6 DEF OnTime, EternityLeft, Init
<1>8. Pending(queue) = {}
  BY <1>5 DEF Pending
<1>9. Scalars
  BY <1>1 DEF Init, Scalars, Self
<1>10. Objects /\ alarms = <<>> /\ DOMAIN alarms = {}
  BY DEF Init, Objects
<1>11. Running /\ Len(running) = 0
  BY DEF Init, Running
<1> QED
  BY <1>5, <1>7, <1>8, <1>9, <1>10, <1>11 DEF IInv, Owned

\* What IInv says in the terms of the alarms.
LEMMA InvariantFacts ==
  ASSUME IInv
  PROVE  /\ Scalars /\ Shape(queue)
         /\ alarms \in [DOMAIN alarms -> Alarm]
         /\ Pending(queue) \subseteq DOMAIN alarms
         /\ DOMAIN alarms \subseteq Tokens
         /\ \A t \in DOMAIN alarms : t <= tokenCounter /\ t \in Nat
         /\ OnTime(queue, alarms, fLastSyncTime, now, setBack)
         /\ running \in Seq(Tokens) /\ Len(running) \in Nat
         /\ \A i \in 1..Len(running) : running[i] \in DOMAIN alarms
<1>1. MaxTokens \in Nat /\ tokenCounter \in 1..MaxTokens + 1
  BY DelayAssumption DEF IInv, Scalars, Self
<1>2. DOMAIN alarms \subseteq 2..tokenCounter
  BY DEF IInv, Objects, Self
<1>3. DOMAIN alarms \subseteq Tokens
  BY <1>1, <1>2 DEF Tokens
<1>4. \A t \in DOMAIN alarms : t <= tokenCounter /\ t \in Nat
  BY <1>1, <1>2
<1> QED
  BY <1>3, <1>4, LenProperties DEF IInv, Objects, Owned, Running

\* OnTime depends on the alarms of pending tokens only.
LEMMA OnTimeOfPending ==
  ASSUME NEW q, NEW A, NEW B, NEW last, NEW n, NEW sb,
         OnTime(q, A, last, n, sb),
         \A t \in Pending(q) : A[t] = B[t]
  PROVE  OnTime(q, B, last, n, sb)
<1>1. \A i \in Positions(q) : q[i].token \in Pending(q)
  BY DEF Pending
<1> QED
  BY <1>1 DEF OnTime

\* scheduleDelayedTask() and rescheduleDelayedTask(): a new alarm is added to
\* the list q and to the objects A that remain after a cancellation.
LEMMA AddKeepsInvariant ==
  ASSUME IInv, NEW q, Shape(q),
         NEW D \in SUBSET DOMAIN alarms, NEW d \in Delays,
         Pending(q) = D \cap Pending(queue),
         DOMAIN alarms \ D \subseteq Pending(queue),
         OnTime(q, alarms, fLastSyncTime, now, setBack),
         NewAlarmHandler(Restrict(alarms, D), NotNegative(d)),
         AddEntry(q, tokenCounter + 1, NotNegative(d)),
         UNCHANGED <<timeVars, running>>
  PROVE  IInv'
<1> DEFINE token == tokenCounter + 1
           delay == NotNegative(d)
           new == [delay |-> delay, at |-> now, clock |-> TimeNow]
           s == Synchronized(q)
<1>1. /\ Scalars /\ alarms \in [DOMAIN alarms -> Alarm]
      /\ DOMAIN alarms \subseteq Tokens
      /\ \A t \in DOMAIN alarms : t <= tokenCounter /\ t \in Nat
      /\ running \in Seq(Tokens) /\ Len(running) \in Nat
      /\ \A i \in 1..Len(running) : running[i] \in DOMAIN alarms
  BY InvariantFacts
<1>2. /\ tokenCounter \in Nat /\ tokenCounter <= MaxTokens /\ MaxTokens \in Nat
      /\ tokenCounter >= 1 /\ now \in Nat /\ TimeNow \in Int
  BY <1>1, DelayAssumption DEF Scalars, NewAlarmHandler, Self, TimeNow
<1>3. delay \in Nat /\ delay + MaxTime < Eternity
  BY DelayAssumption DEF NotNegative
<1>4. token \in Tokens /\ token \notin DOMAIN alarms /\ token # Self
  BY <1>1, <1>2 DEF Tokens, Self
<1>5. new \in Alarm /\ new.at = now /\ new.delay = delay
  BY <1>2, <1>3 DEF Alarm
<1>6. /\ tokenCounter' = token
      /\ DOMAIN alarms' = D \cup {token}
      /\ alarms'[token] = new
      /\ \A t \in D : alarms'[t] = alarms[t]
      /\ alarms' = [t \in D \cup {token} |-> alarms'[t]]
  <2>1. /\ DOMAIN Restrict(alarms, D) = D
        /\ \A t \in D : Restrict(alarms, D)[t] = alarms[t]
    BY DEF Restrict
  <2>2. alarms' = [t \in D \cup {token} |->
                      IF t = token THEN new ELSE Restrict(alarms, D)[t]]
    BY <2>1 DEF NewAlarmHandler
  <2> HIDE DEF new, token
  <2> QED
    BY <1>4, <2>1, <2>2 DEF NewAlarmHandler, token
<1>7. /\ fLastSyncTime' = TimeNow /\ now' = now /\ setBack' = setBack
      /\ running' = running /\ queue' = Insert(s, token, delay)
  BY DEF AddEntry, timeVars
<1> HIDE DEF token, delay, new, s
<1>8. /\ Shape(s) /\ Pending(s) = D \cap Pending(queue)
      /\ OnTime(s, alarms, TimeNow, now, setBack)
  BY <1>1, SynchronizedOnTime DEF s
<1>9. OnTime(s, alarms', TimeNow, now, setBack)
  <2>1. \A t \in Pending(s) : alarms[t] = alarms'[t]
    BY <1>6, <1>8
  <2> QED
    BY <1>8, <2>1, OnTimeOfPending
<1>10. /\ Shape(queue') /\ Pending(queue') = (D \cap Pending(queue)) \cup {token}
       /\ OnTime(queue', alarms', TimeNow, now, setBack)
  <2>1. alarms'[token] = [delay |-> delay, at |-> now, clock |-> TimeNow]
    BY <1>6 DEF new
  <2>2. token \notin Pending(s)
    BY <1>4, <1>8
  <2> QED
    BY <1>1, <1>3, <1>4, <1>7, <1>8, <1>9, <2>1, <2>2, InsertOnTime
<1>11. Scalars'
  BY <1>1, <1>2, <1>6, <1>7 DEF Scalars, Self, token
<1>12. Objects'
  <2>1. DOMAIN alarms' \subseteq Self + 1..tokenCounter'
    <3>1. \A t \in D \cup {token} : t \in 2..token
      BY <1>1, <1>2, <1>4 DEF Tokens, token
    <3> QED
      BY <1>6, <3>1 DEF Self
  <2>2. \A t \in DOMAIN alarms' : alarms'[t] \in Alarm
    BY <1>1, <1>5, <1>6
  <2> QED
    BY <1>6, <2>1, <2>2 DEF Objects
<1>13. Running'
  <2>1. ASSUME NEW i \in 1..Len(running)
        PROVE  /\ running[i] \in DOMAIN alarms' \ Pending(queue')
               /\ alarms'[running[i]].at + alarms'[running[i]].delay <= now
    <3>1. running[i] \in D /\ running[i] \notin Pending(queue)
      BY <1>1 DEF IInv, Running
    <3>2. running[i] # token
      BY <1>1, <1>4
    <3> QED
      BY <1>6, <1>10, <3>1, <3>2 DEF IInv, Running, Due
  <2> QED
    BY <1>1, <1>7, <2>1 DEF IInv, Running, Due
<1>14. Owned'
  <2>1. Pending(queue') \subseteq DOMAIN alarms'
    BY <1>6, <1>10
  <2>2. ASSUME NEW t \in DOMAIN alarms'
        PROVE  t \in Pending(queue') \/ \E i \in 1..Len(running) : running[i] = t
    BY <1>6, <1>10 DEF IInv, Owned
  <2> QED
    BY <1>7, <2>1, <2>2 DEF Owned
<1> QED
  BY <1>7, <1>10, <1>11, <1>12, <1>13, <1>14 DEF IInv

\* A step that changes only the clock, or only the list and its clock, and
\* keeps the pending alarms.
LEMMA ListKeepsInvariant ==
  ASSUME IInv, Scalars', Shape(queue'), Pending(queue') = Pending(queue),
         OnTime(queue', alarms, fLastSyncTime', now', setBack'),
         now' >= now, UNCHANGED <<tokenCounter, running, alarms>>
  PROVE  IInv'
<1>1. Objects' /\ Owned'
  BY DEF IInv, Objects, Owned
<1>2. Running'
  <2>1. ASSUME NEW i \in 1..Len(running)
        PROVE  alarms[running[i]].at + alarms[running[i]].delay <= now'
    <3> DEFINE a == alarms[running[i]]
    <3>1. a \in Alarm /\ a.at + a.delay <= now
      BY InvariantFacts DEF IInv, Running, Due
    <3>2. now \in Nat /\ now' \in Nat /\ a.at + a.delay \in Nat
      BY SMTT(30), <3>1 DEF IInv, Scalars, Alarm
    <3> QED
      BY <3>1, <3>2
  <2> QED
    BY <2>1 DEF IInv, Running, Due
<1> QED
  BY <1>1, <1>2 DEF IInv

\* Every step keeps the invariant.
LEMMA NextInvariant ==
  ASSUME IInv, [Next]_vars
  PROVE  IInv'
<1>1. /\ Scalars /\ Shape(queue)
      /\ alarms \in [DOMAIN alarms -> Alarm]
      /\ Pending(queue) \subseteq DOMAIN alarms
      /\ OnTime(queue, alarms, fLastSyncTime, now, setBack)
      /\ running \in Seq(Tokens) /\ Len(running) \in Nat
      /\ \A i \in 1..Len(running) : running[i] \in DOMAIN alarms
  BY InvariantFacts
<1>2. /\ now \in Nat /\ setBack \in Nat /\ TimeNow = now - setBack
      /\ TimeNow \in Int /\ MaxTime \in Nat /\ MaxSetBack \in Nat
      /\ now <= MaxTime /\ setBack <= MaxSetBack /\ fLastSyncTime \in Int
  BY <1>1, DelayAssumption DEF Scalars, TimeNow
<1>3. \A A : Restrict(A, DOMAIN A) = [t \in DOMAIN A |-> A[t]]
  BY DEF Restrict
<1>4. ASSUME NEW d \in Delays, ScheduleDelayedTask(d) PROVE IInv'
  <2>1. Restrict(alarms, DOMAIN alarms) = alarms
    BY <1>1, <1>3
  <2>2. NewAlarmHandler(Restrict(alarms, DOMAIN alarms), NotNegative(d))
        /\ AddEntry(queue, tokenCounter + 1, NotNegative(d))
        /\ UNCHANGED <<timeVars, running>>
    BY <1>4, <2>1 DEF ScheduleDelayedTask
  <2>3. Pending(queue) = DOMAIN alarms \cap Pending(queue)
        /\ DOMAIN alarms \ DOMAIN alarms \subseteq Pending(queue)
    BY <1>1
  <2> QED
    BY <1>1, <2>2, <2>3, AddKeepsInvariant
<1>5. ASSUME NEW t \in ClientTokens, UnscheduleDelayedTask(t) PROVE IInv'
  <2> DEFINE D == DOMAIN alarms \ (Pending(queue) \cap {t})
  <2>1. /\ Shape(queue') /\ Pending(queue') = Pending(queue) \ {t}
        /\ OnTime(queue', alarms, fLastSyncTime, now, setBack)
    BY <1>1, <1>5, RemoveOnTime DEF UnscheduleDelayedTask
  <2>2. alarms' = [u \in D |-> alarms[u]]
    BY <1>5 DEF UnscheduleDelayedTask, Deleted, Restrict
  <2>3. UNCHANGED <<now, setBack, fLastSyncTime, tokenCounter, running>>
    BY <1>5 DEF UnscheduleDelayedTask, timeVars
  <2>4. DOMAIN alarms' = D /\ \A u \in D : alarms'[u] = alarms[u]
    BY <2>2
  <2>5. OnTime(queue', alarms', fLastSyncTime, now, setBack)
    <3>1. \A u \in Pending(queue') : alarms[u] = alarms'[u]
      BY <1>1, <2>1, <2>4
    <3> QED
      BY <2>1, <3>1, OnTimeOfPending
  <2>6. Scalars' /\ Objects'
    <3>1. \A u \in D : alarms[u] \in Alarm
      BY <1>1
    <3> QED
      BY <2>2, <2>3, <2>4, <3>1 DEF IInv, Scalars, Objects
  <2>7. Running'
    <3>1. ASSUME NEW i \in 1..Len(running)
          PROVE  /\ running[i] \in DOMAIN alarms' \ Pending(queue')
                 /\ alarms'[running[i]] = alarms[running[i]]
      <4>1. running[i] \in DOMAIN alarms \ Pending(queue)
        BY DEF IInv, Running
      <4>2. running[i] \in D
        BY <4>1
      <4> QED
        BY <2>1, <2>4, <4>1, <4>2
    <3> QED
      BY <2>3, <3>1 DEF IInv, Running, Due
  <2>8. Owned'
    BY <1>1, <2>1, <2>3, <2>4 DEF IInv, Owned
  <2> QED
    BY <2>1, <2>3, <2>5, <2>6, <2>7, <2>8 DEF IInv
<1>6. ASSUME NEW t \in ClientTokens, NEW d \in Delays,
             RescheduleDelayedTask(t, d)
      PROVE  IInv'
  <2> DEFINE D == DOMAIN alarms \ (Pending(queue) \cap {t})
             q == RemoveEntry(queue, t)
  <2>1. /\ Shape(q) /\ Pending(q) = Pending(queue) \ {t}
        /\ OnTime(q, alarms, fLastSyncTime, now, setBack)
    BY <1>1, RemoveOnTime
  <2>2. /\ NewAlarmHandler(Restrict(alarms, D), NotNegative(d))
        /\ AddEntry(q, tokenCounter + 1, NotNegative(d))
        /\ UNCHANGED <<timeVars, running>>
    BY <1>6 DEF RescheduleDelayedTask, Deleted
  <2>3. /\ D \in SUBSET DOMAIN alarms
        /\ Pending(q) = D \cap Pending(queue)
        /\ DOMAIN alarms \ D \subseteq Pending(queue)
    BY <1>1, <2>1
  <2> HIDE DEF D, q
  <2> QED
    BY <2>1, <2>2, <2>3, AddKeepsInvariant
<1>7. ASSUME TimeToNextAlarm PROVE IInv'
  <2>1. /\ Shape(queue') /\ Pending(queue') = Pending(queue)
        /\ OnTime(queue', alarms, TimeNow, now, setBack)
    BY <1>1, <1>7, SynchronizedOnTime DEF TimeToNextAlarm
  <2>2. /\ fLastSyncTime' = TimeNow
        /\ UNCHANGED <<now, setBack, tokenCounter, running, alarms>>
    BY <1>7 DEF TimeToNextAlarm, timeVars
  <2>3. Scalars' /\ now' >= now
    BY <1>1, <1>2, <2>2 DEF Scalars
  <2> QED
    BY <2>1, <2>2, <2>3, ListKeepsInvariant
<1>8. ASSUME HandleAlarm PROVE IInv'
  <2> DEFINE last == IF queue[1].delta # 0 THEN TimeNow ELSE fLastSyncTime
             q == AtAlarm
  <2>1. /\ Shape(q) /\ Pending(q) = Pending(queue)
        /\ OnTime(q, alarms, last, now, setBack) /\ last \in Int
    <3>1. CASE queue[1].delta # 0
      <4>1. q = Synchronized(queue) /\ last = TimeNow
        BY <3>1 DEF AtAlarm
      <4> QED
        BY <1>1, <1>2, <4>1, SynchronizedOnTime
    <3>2. CASE ~(queue[1].delta # 0)
      BY <1>1, <1>2, <3>2 DEF AtAlarm
    <3> QED
      BY <3>1, <3>2
  <2>2. /\ fLastSyncTime' = last
        /\ UNCHANGED <<now, setBack, tokenCounter, alarms>>
    BY <1>8 DEF HandleAlarm, timeVars
  <2>3. CASE q[1].delta # 0
    <3>1. queue' = q /\ running' = running
      BY <1>8, <2>3 DEF HandleAlarm
    <3> HIDE DEF last, q
    <3>2. Scalars' /\ now' >= now
      BY <1>1, <1>2, <2>1, <2>2 DEF Scalars
    <3> QED
      BY <2>1, <2>2, <3>1, <3>2, ListKeepsInvariant
  <2>4. CASE q[1].delta = 0
    <3> DEFINE t == q[1].token
    <3>1. queue' = Unlink(q, 1) /\ running' = Append(running, t)
      BY <1>8, <2>4 DEF HandleAlarm
    <3> HIDE DEF last, q
    <3>2. /\ q \in Seq(Entries) /\ Len(q) \in Nat \ {0}
          /\ TimeTo(q) \in [0..Len(q) -> Nat] /\ TimeTo(q)[0] = 0
          /\ TimeTo(q)[1] = TimeTo(q)[0] + q[1].delta
          /\ \A i \in Positions(q) : q[i].token \in Tokens
      BY <2>1, ShapeEntries
    <3>3. TimeTo(q)[1] = 0
      BY <2>4, <3>2
    <3>4. 1 \in Positions(q)
      <4>1. SUFFICES ASSUME Len(q) = 1 PROVE FALSE
        <5> DEFINE m == Len(q)
        <5>1. m \in Nat \ {0} /\ m # 1
          BY <3>2, <4>1
        <5> HIDE DEF m
        <5>2. 1 \in 1..m - 1
          BY <5>1
        <5> QED
          BY <5>2 DEF Positions, m
      <4>2. 0 >= Eternity - now
        BY <2>1, <3>3, <4>1 DEF OnTime, EternityLeft
      <4>3. Eternity \in Nat /\ Eternity - now > 0
        BY <1>2, DelayAssumption
      <4> QED
        BY <1>2, <4>2, <4>3
    <3>5. /\ Shape(queue') /\ Pending(queue') = Pending(queue) \ {t}
          /\ OnTime(queue', alarms, last, now, setBack)
      BY <2>1, <3>1, <3>4, UnlinkOnTime
    <3>6. t \in Pending(queue) /\ t \in Tokens /\ t \in DOMAIN alarms
      BY <1>1, <2>1, <3>2, <3>4 DEF Pending
    <3>7. alarms[t].at + alarms[t].delay <= now
      <4>1. TimeLeft(0, alarms[t], last, now, setBack)
        BY <2>1, <3>3, <3>4 DEF OnTime
      <4>2. alarms[t].at \in Nat /\ alarms[t].delay \in Nat
        BY <1>1, <3>6 DEF Alarm
      <4> QED
        BY <1>2, <4>1, <4>2 DEF TimeLeft
    <3> HIDE DEF t
    <3>8. /\ running' \in Seq(Tokens) /\ Len(running') = Len(running) + 1
          /\ \A i \in 1..Len(running) : running'[i] = running[i]
          /\ running'[Len(running) + 1] = t
      BY <1>1, <3>1, <3>6, AppendProperties
    <3>9. \A i \in 1..Len(running') :
             i \in 1..Len(running) \/ i = Len(running) + 1
      BY <1>1, <3>8
    <3>10. \A i \in 1..Len(running) : running[i] # t
      BY <3>6 DEF IInv, Running
    <3>11. Running'
      <4>1. ASSUME NEW i \in 1..Len(running'), NEW j \in 1..Len(running'),
                   running'[i] = running'[j]
            PROVE  i = j
        BY <3>8, <3>9, <3>10, <4>1 DEF IInv, Running
      <4>2. ASSUME NEW i \in 1..Len(running')
            PROVE  /\ running'[i] \in DOMAIN alarms \ Pending(queue')
                   /\ alarms[running'[i]].at + alarms[running'[i]].delay <= now
        <5>1. CASE i \in 1..Len(running)
          BY <3>5, <3>8, <5>1 DEF IInv, Running, Due
        <5>2. CASE i = Len(running) + 1
          BY <3>5, <3>6, <3>7, <3>8, <5>2
        <5> QED
          BY <3>9, <5>1, <5>2
      <4> QED
        BY <2>2, <3>8, <4>1, <4>2 DEF Running, Due
    <3>12. Owned'
      <4>1. \A u \in DOMAIN alarms :
               u \in Pending(queue') \/ \E i \in 1..Len(running') : running'[i] = u
        <5> TAKE u \in DOMAIN alarms
        <5>1. CASE u \in Pending(queue) /\ u # t
          BY <3>5, <5>1
        <5>2. CASE u = t
          <6>1. Len(running) + 1 \in 1..Len(running')
            BY <1>1, <3>8
          <6> QED
            BY <3>8, <5>2, <6>1
        <5>3. CASE \E i \in 1..Len(running) : running[i] = u
          <6>1. PICK i \in 1..Len(running) : running[i] = u
            BY <5>3
          <6>2. i \in 1..Len(running') /\ running'[i] = u
            BY <1>1, <3>8, <6>1
          <6> QED
            BY <6>2
        <5> QED
          BY <5>1, <5>2, <5>3 DEF IInv, Owned
      <4> QED
        BY <1>1, <2>2, <3>5, <4>1 DEF Owned
    <3>13. Scalars' /\ Objects'
      BY <1>1, <2>1, <2>2 DEF IInv, Scalars, Objects
    <3> QED
      BY <2>2, <3>5, <3>11, <3>12, <3>13 DEF IInv
  <2> QED
    BY <2>3, <2>4
<1>9. ASSUME HandlerReturns PROVE IInv'
  <2> DEFINE n == Len(running)
             t == running[n]
             D == DOMAIN alarms \ {t}
  <2>1. /\ n \in Nat \ {0}
        /\ running' = SubSeq(running, 1, n - 1)
        /\ alarms' = [u \in D |-> alarms[u]]
        /\ UNCHANGED <<now, setBack, fLastSyncTime, queue, tokenCounter>>
    <3>1. running # <<>>
      BY <1>9 DEF HandlerReturns
    <3> QED
      BY <1>1, <1>9, <3>1, EmptySeq
         DEF HandlerReturns, Front, Last, Restrict, timeVars, listVars
  <2>2. DOMAIN alarms' = D /\ \A u \in D : alarms'[u] = alarms[u]
    BY <2>1
  <2>3. /\ running' \in Seq(Tokens) /\ Len(running') = n - 1
        /\ \A i \in 1..n - 1 : running'[i] = running[i]
    <3>1. \A i \in 1..n - 1 : running[i] \in Tokens
      BY <1>1, <2>1, ElementOfSeq
    <3>2. n \in Nat \ {0} /\ 1 \in Int /\ n - 1 \in Int
      BY <2>1
    <3> HIDE DEF n
    <3>3. /\ SubSeq(running, 1, n - 1) \in Seq(Tokens)
          /\ Len(SubSeq(running, 1, n - 1)) =
                IF 1 <= n - 1 THEN (n - 1) - 1 + 1 ELSE 0
          /\ \A i \in 1..(n - 1) - 1 + 1 :
                SubSeq(running, 1, n - 1)[i] = running[1 + i - 1]
      BY ONLY <3>1, <3>2, SubSeqProperties
    <3>4. (n - 1) - 1 + 1 = n - 1 /\ \A i \in 1..n - 1 : 1 + i - 1 = i
      BY <3>2
    <3>5. Len(SubSeq(running, 1, n - 1)) = n - 1
      BY <3>2, <3>3
    <3>6. \A i \in 1..n - 1 : SubSeq(running, 1, n - 1)[i] = running[i]
      BY <3>3, <3>4
    <3> QED
      BY <2>1, <3>3, <3>5, <3>6
  <2>4. n \in 1..n /\ \A i \in 1..n - 1 : i \in 1..n /\ i # n
    BY <2>1
  <2>5. t \notin Pending(queue) /\ t \in DOMAIN alarms
        /\ \A i \in 1..n - 1 : running[i] # t
    BY <2>4 DEF IInv, Running
  <2> HIDE DEF n, t
  <2>6. OnTime(queue, alarms', fLastSyncTime, now, setBack)
    <3>1. \A u \in Pending(queue) : alarms[u] = alarms'[u]
      BY <1>1, <2>2, <2>5
    <3> QED
      BY <1>1, <3>1, OnTimeOfPending
  <2>7. Scalars' /\ Objects'
    <3>1. \A u \in D : alarms[u] \in Alarm
      BY <1>1
    <3> QED
      BY <2>1, <2>2, <3>1 DEF IInv, Scalars, Objects
  <2>8. Running'
    <3>1. ASSUME NEW i \in 1..n - 1
          PROVE  /\ running'[i] \in DOMAIN alarms' \ Pending(queue)
                 /\ alarms'[running'[i]].at + alarms'[running'[i]].delay <= now
      BY <2>2, <2>3, <2>4, <2>5, <3>1 DEF IInv, Running, Due, n
    <3>2. ASSUME NEW i \in 1..n - 1, NEW j \in 1..n - 1, running'[i] = running'[j]
          PROVE  i = j
      BY <2>3, <2>4, <3>2 DEF IInv, Running, n
    <3> QED
      BY <2>1, <2>3, <3>1, <3>2 DEF Running, Due
  <2>9. Owned'
    <3>1. ASSUME NEW u \in D, u \notin Pending(queue)
          PROVE  \E i \in 1..n - 1 : running'[i] = u
      <4>1. PICK i \in 1..n : running[i] = u
        BY <3>1 DEF IInv, Owned, n
      <4>2. i # n
        BY <4>1 DEF t
      <4>3. i \in 1..n - 1
        BY <2>1, <4>1, <4>2
      <4> QED
        BY <2>3, <4>1, <4>3
    <3> QED
      BY <1>1, <2>1, <2>2, <2>3, <2>5, <3>1 DEF Owned
  <2> QED
    BY <1>1, <2>1, <2>6, <2>7, <2>8, <2>9 DEF IInv
<1>10. ASSUME Tick PROVE IInv'
  <2>1. /\ now' = now + 1 /\ now < MaxTime
        /\ UNCHANGED <<setBack, fLastSyncTime, queue, tokenCounter, running, alarms>>
    BY <1>10 DEF Tick, listVars
  <2>2. Scalars' /\ now' >= now
    BY <1>1, <1>2, <2>1 DEF Scalars
  <2>3. OnTime(queue, alarms, fLastSyncTime, now', setBack)
    <3>1. TimeTo(queue)[Len(queue)] \in Nat /\ Eternity \in Nat
          /\ EternityLeft(TimeTo(queue)[Len(queue)], fLastSyncTime, now, setBack)
      BY <1>1, ShapeEntries, DelayAssumption DEF OnTime
    <3>2. EternityLeft(TimeTo(queue)[Len(queue)], fLastSyncTime, now', setBack)
      BY <1>2, <2>1, <3>1 DEF EternityLeft
    <3>3. ASSUME NEW i \in Positions(queue)
          PROVE  TimeLeft(TimeTo(queue)[i], alarms[queue[i].token],
                          fLastSyncTime, now', setBack)
      <4> DEFINE a == alarms[queue[i].token]
                 left == TimeTo(queue)[i]
      <4>1. /\ a.at \in Nat /\ a.delay \in Nat /\ left \in Nat
            /\ TimeLeft(left, a, fLastSyncTime, now, setBack)
        <5>1. queue[i].token \in DOMAIN alarms
          BY <1>1 DEF Pending
        <5>2. i \in 0..Len(queue) /\ TimeTo(queue) \in [0..Len(queue) -> Nat]
          BY <1>1, ShapeEntries
        <5> QED
          BY <1>1, <5>1, <5>2 DEF OnTime, Alarm
      <4> HIDE DEF a, left
      <4>2. TimeLeft(left, a, fLastSyncTime, now', setBack)
        BY <1>2, <2>1, <4>1 DEF TimeLeft
      <4> QED
        BY <4>2 DEF a, left
    <3> QED
      BY <3>2, <3>3 DEF OnTime
  <2> QED
    BY <1>1, <2>1, <2>2, <2>3, ListKeepsInvariant
<1>11. ASSUME SetClockBack PROVE IInv'
  <2>1. /\ setBack' = setBack + 1 /\ setBack < MaxSetBack
        /\ UNCHANGED <<now, fLastSyncTime, queue, tokenCounter, running, alarms>>
    BY <1>11 DEF SetClockBack, listVars
  <2>2. Scalars' /\ now' >= now
    BY <1>1, <1>2, <2>1 DEF Scalars
  <2>3. OnTime(queue, alarms, fLastSyncTime, now, setBack')
    <3>1. TimeTo(queue)[Len(queue)] \in Nat /\ Eternity \in Nat
          /\ EternityLeft(TimeTo(queue)[Len(queue)], fLastSyncTime, now, setBack)
      BY <1>1, ShapeEntries, DelayAssumption DEF OnTime
    <3>2. EternityLeft(TimeTo(queue)[Len(queue)], fLastSyncTime, now, setBack')
      BY <1>2, <2>1, <3>1 DEF EternityLeft
    <3>3. ASSUME NEW i \in Positions(queue)
          PROVE  TimeLeft(TimeTo(queue)[i], alarms[queue[i].token],
                          fLastSyncTime, now, setBack')
      <4> DEFINE a == alarms[queue[i].token]
                 left == TimeTo(queue)[i]
      <4>1. /\ a.at \in Nat /\ a.delay \in Nat /\ left \in Nat
            /\ TimeLeft(left, a, fLastSyncTime, now, setBack)
        <5>1. queue[i].token \in DOMAIN alarms
          BY <1>1 DEF Pending
        <5>2. i \in 0..Len(queue) /\ TimeTo(queue) \in [0..Len(queue) -> Nat]
          BY <1>1, ShapeEntries
        <5> QED
          BY <1>1, <5>1, <5>2 DEF OnTime, Alarm
      <4> HIDE DEF a, left
      <4>2. TimeLeft(left, a, fLastSyncTime, now, setBack')
        BY <1>2, <2>1, <4>1 DEF TimeLeft
      <4> QED
        BY <4>2 DEF a, left
    <3> QED
      BY <3>2, <3>3 DEF OnTime
  <2> QED
    BY <1>1, <2>1, <2>2, <2>3, ListKeepsInvariant
<1>12. CASE UNCHANGED vars
  BY <1>12 DEF vars, IInv, Scalars, Objects, Running, Owned, Due
<1> QED
  BY <1>4, <1>5, <1>6, <1>7, <1>8, <1>9, <1>10, <1>11, <1>12 DEF Next

\* The inductive invariant holds in every reachable state.
THEOREM Invariant == Spec => []IInv
<1>1. Init => IInv
  BY InitInvariant
<1>2. IInv /\ [Next]_vars => IInv'
  BY NextInvariant
<1> QED
  BY <1>1, <1>2, PTL DEF Spec

\* Type correctness of the timer queue.
THEOREM TypeCorrect == Spec => []TypeOK
<1>1. IInv => TypeOK
  <2> SUFFICES ASSUME IInv PROVE TypeOK
    OBVIOUS
  <2>1. queue # <<>>
    BY EmptySeq DEF IInv, Shape
  <2> QED
    BY <2>1 DEF IInv, Scalars, Objects, Running, Shape, TypeOK, Alarm
<1> QED
  BY <1>1, Invariant, PTL

\* Every alarm object is in the list once, or is being run by one handler that
\* will delete it: never both, never neither, whatever handlers unschedule.
THEOREM EveryObjectHasOneOwner == Spec => []OneOwner
<1>1. IInv => OneOwner
  <2> SUFFICES ASSUME IInv PROVE OneOwner
    OBVIOUS
  <2>1. ToSet(running) = {running[i] : i \in 1..Len(running)}
    BY InvariantFacts, ToSetElements
  <2>2. ToSet(running) \subseteq DOMAIN alarms \ Pending(queue)
    BY <2>1 DEF IInv, Running
  <2>3. DOMAIN alarms \subseteq Pending(queue) \cup ToSet(running)
    BY <2>1 DEF IInv, Owned
  <2>4. Pending(queue) \subseteq DOMAIN alarms
    BY DEF IInv, Owned
  <2>5. /\ \A i, j \in 1..Len(queue) : queue[i].token = queue[j].token => i = j
        /\ \A i, j \in 1..Len(running) : running[i] = running[j] => i = j
    BY DEF IInv, Shape, Running
  <2> QED
    BY <2>2, <2>3, <2>4, <2>5 DEF OneOwner
<1> QED
  BY <1>1, Invariant, PTL

\* The differences in the list always add up to the times that clients asked
\* for, neither too early nor later than the clock shows, and the end of the
\* list is never due: every walk through the list stops.
THEOREM TimesAreKept == Spec => []AlarmTimes
<1>1. IInv => AlarmTimes
  <2> SUFFICES ASSUME IInv, NEW i \in Positions(queue)
               PROVE  /\ TimeTo(queue)[i] >= Due(queue[i].token) - now
                      /\ TimeTo(queue)[i] >=
                            Due(queue[i].token) - setBack - fLastSyncTime
                      /\ \/ TimeTo(queue)[i] = 0
                         \/ TimeTo(queue)[i] <=
                               ClockDue(queue[i].token) - fLastSyncTime
    <3>1. IInv => EternityHolds
      BY DEF IInv, Shape, OnTime, EternityLeft, EternityHolds
    <3> HIDE DEF IInv, EternityHolds
    <3> QED
      BY <3>1 DEF AlarmTimes
  <2>1. TimeLeft(TimeTo(queue)[i], alarms[queue[i].token],
                 fLastSyncTime, now, setBack)
    BY DEF IInv, OnTime
  <2> DEFINE a == alarms[queue[i].token]
             left == TimeTo(queue)[i]
  <2>2. Due(queue[i].token) = a.at + a.delay
        /\ ClockDue(queue[i].token) = a.clock + a.delay
    BY DEF Due, ClockDue
  <2> HIDE DEF a, left
  <2>3. /\ left >= a.at + a.delay - now
        /\ left >= a.at + a.delay - setBack - fLastSyncTime
        /\ left = 0 \/ left <= a.clock + a.delay - fLastSyncTime
    BY <2>1 DEF TimeLeft, a, left
  <2>4. /\ a.at \in Nat /\ a.delay \in Nat /\ a.clock \in Int /\ left \in Nat
        /\ now \in Nat /\ setBack \in Nat /\ fLastSyncTime \in Int
    <3>1. queue[i].token \in DOMAIN alarms
      BY InvariantFacts DEF Pending
    <3>2. TimeTo(queue) \in [0..Len(queue) -> Nat] /\ i \in 0..Len(queue)
      BY InvariantFacts, ShapeEntries
    <3> QED
      BY <3>1, <3>2, InvariantFacts DEF Scalars, Alarm, a, left
  <2>5. /\ left >= Due(queue[i].token) - now
        /\ left >= Due(queue[i].token) - setBack - fLastSyncTime
        /\ left = 0 \/ left <= ClockDue(queue[i].token) - fLastSyncTime
    BY <2>2, <2>3, <2>4
  <2> QED
    BY <2>5 DEF left
<1> QED
  BY <1>1, Invariant, PTL

\* No task ever runs before its delay has really passed.
THEOREM NeverTooEarly == Spec => []NeverEarly
<1>1. IInv => NeverEarly
  BY DEF IInv, Running, NeverEarly
<1> QED
  BY <1>1, Invariant, PTL

-----------------------------------------------------------------------------
(***************************************************************************)
(* The list of time differences implements the table of due times of       *)
(* AlarmService, for all delays and any number of alarms, until the clock  *)
(* is set back for the first time.                                         *)
(*                                                                         *)
(* IInv is not enough: that the alarm which fires is the first one asked   *)
(* for of those due at the same time depends on the order of the whole     *)
(* list ("Order"), which an insertion keeps because what is left of each   *)
(* delay is exact while there is only one clock.                           *)
(***************************************************************************)

DueOf(a) == a.at + a.delay

\* Alarm t comes before alarm u.
Before(A, t, u) == \/ DueOf(A[t]) < DueOf(A[u])
                   \/ DueOf(A[t]) = DueOf(A[u]) /\ t < u

InOrder(q, A) ==
    \A i, j \in Positions(q) : i < j => Before(A, q[i].token, q[j].token)

\* Clients and the clock agree on when each alarm was asked for.
OneClock(A) == \A t \in DOMAIN A : A[t].clock = A[t].at

Order == setBack = 0 => InOrder(queue, alarms) /\ OneClock(alarms)

-----------------------------------------------------------------------------
(***************************************************************************)
(* The operations on the list keep the order.                              *)
(***************************************************************************)

\* The order depends on the alarms of pending tokens only.
LEMMA OrderOfPending ==
  ASSUME NEW q, NEW A, NEW B, InOrder(q, A), \A t \in Pending(q) : A[t] = B[t]
  PROVE  InOrder(q, B)
<1>1. \A i \in Positions(q) : q[i].token \in Pending(q)
  BY DEF Pending
<1> QED
  BY <1>1 DEF InOrder, Before

\* synchronize() does not move an entry.
LEMMA SynchronizedInOrder ==
  ASSUME Scalars, NEW q, Shape(q), NEW A, InOrder(q, A)
  PROVE  InOrder(Synchronized(q), A)
<1>1. CASE TimeNow < fLastSyncTime
  BY <1>1 DEF Synchronized
<1>2. CASE ~ (TimeNow < fLastSyncTime)
  <2> DEFINE e == TimeNow - fLastSyncTime
             r == Elapse(q, e)
  <2>1. e \in Nat
    BY <1>2, DelayAssumption DEF Scalars, TimeNow
  <2>2. Len(r) = Len(q) /\ \A i \in 1..Len(q) : r[i].token = q[i].token
    BY <2>1, ShapeEntries, ElapseList
  <2>3. Synchronized(q) = r
    BY <1>2 DEF Synchronized
  <2> HIDE DEF r
  <2>4. /\ Positions(r) = Positions(q)
        /\ \A i \in Positions(q) : r[i].token = q[i].token
    BY <2>2, ShapeEntries DEF Positions
  <2> QED
    BY <2>3, <2>4 DEF InOrder
<1> QED
  BY <1>1, <1>2

\* removeEntry() leaves the others in their order.
LEMMA UnlinkInOrder ==
  ASSUME NEW q, Shape(q), NEW k \in Positions(q), NEW A, InOrder(q, A)
  PROVE  InOrder(Unlink(q, k), A)
<1> DEFINE r == Unlink(q, k)
           old(j) == IF j < k THEN j ELSE j + 1
<1>1. /\ q \in Seq(Entries) /\ Len(q) \in Nat \ {0} /\ k \in 1..Len(q) - 1
  BY ShapeEntries DEF Positions
<1>2. /\ Len(r) = Len(q) - 1
      /\ \A j \in 1..Len(q) - 1 : r[j].token = q[old(j)].token
  BY <1>1, UnlinkList
<1> HIDE DEF r
<1>3. /\ \A j \in Positions(r) : old(j) \in Positions(q) /\ j \in 1..Len(q) - 1
      /\ \A i, j \in Positions(r) : i < j => old(i) < old(j)
  BY <1>1, <1>2 DEF Positions
<1> HIDE DEF old
<1>4. InOrder(r, A)
  BY <1>2, <1>3 DEF InOrder
<1> QED
  BY <1>4 DEF r

LEMMA RemoveInOrder ==
  ASSUME NEW q, Shape(q), NEW token, NEW A, InOrder(q, A)
  PROVE  InOrder(RemoveEntry(q, token), A)
<1>1. CASE token \in Pending(q)
  <2> DEFINE k == PositionOf(q, token)
  <2>1. k \in Positions(q)
    BY <1>1 DEF Pending, PositionOf
  <2>2. RemoveEntry(q, token) = Unlink(q, k)
    BY <1>1 DEF RemoveEntry
  <2> HIDE DEF k
  <2> QED
    BY <2>1, <2>2, UnlinkInOrder
<1>2. CASE token \notin Pending(q)
  BY <1>2 DEF RemoveEntry
<1> QED
  BY <1>1, <1>2

\* addEntry() puts a new alarm, whose token is above all others, behind those
\* due no later and before those due later.
LEMMA InsertInOrder ==
  ASSUME Scalars, setBack = 0, NEW q, Shape(q),
         NEW token \in Tokens, \A t \in Pending(q) : t < token,
         NEW delay \in Nat, delay + MaxTime < Eternity,
         NEW A, \A t \in Pending(q) : A[t] \in Alarm /\ A[t].clock = A[t].at,
         A[token] = [delay |-> delay, at |-> now, clock |-> TimeNow],
         OnTime(q, A, TimeNow, now, setBack),
         InOrder(q, A)
  PROVE  InOrder(Insert(q, token, delay), A)
<1> DEFINE r == Insert(q, token, delay)
           left(i) == TimeTo(q)[i]
           due(i) == DueOf(A[q[i].token])
<1>1. /\ now \in Nat /\ now <= MaxTime /\ TimeNow = now
      /\ Eternity \in Nat /\ MaxTime \in Nat
  BY DelayAssumption DEF Scalars, TimeNow
<1>2. /\ q \in Seq(Entries) /\ Len(q) \in Nat \ {0}
      /\ TimeTo(q) \in [0..Len(q) -> Nat]
      /\ \A i \in Positions(q) : i \in 1..Len(q) /\ q[i].token \in Pending(q)
  BY ShapeEntries DEF Pending
<1>3. delay < TimeTo(q)[Len(q)]
  BY <1>1, <1>2 DEF OnTime, EternityLeft
<1>4. PICK cur \in 1..Len(q) :
         /\ TimeTo(q)[cur - 1] <= delay /\ delay < TimeTo(q)[cur]
         /\ Len(r) = Len(q) + 1
         /\ \A j \in 1..Len(q) + 1 :
               r[j].token = IF j < cur THEN q[j].token
                            ELSE IF j = cur THEN token ELSE q[j - 1].token
  <2>1. q \in Seq(Entries) /\ Len(q) >= 1 /\ token \in {Self} \cup Tokens
    BY <1>2
  <2> QED
    BY ONLY <2>1, <1>3, delay \in Nat, InsertList DEF r
<1> HIDE DEF r
<1>5. ASSUME NEW i \in Positions(q)
      PROVE  /\ left(i) \in Nat /\ due(i) \in Nat /\ i \in 1..Len(q)
             /\ left(i) >= due(i) - now
             /\ left(i) = 0 \/ left(i) <= due(i) - now
  <2> DEFINE a == A[q[i].token]
  <2>1. a \in Alarm /\ a.clock = a.at /\ left(i) \in Nat
    BY <1>2
  <2>2. TimeLeft(left(i), a, TimeNow, now, setBack)
    BY DEF OnTime
  <2>3. due(i) = a.at + a.delay
    BY DEF DueOf
  <2> HIDE DEF a, left, due
  <2> QED
    BY <1>1, <1>2, <2>1, <2>2, <2>3 DEF TimeLeft, Alarm
<1>6. ASSUME NEW i \in Positions(q), i < cur
      PROVE  due(i) <= now + delay
  <2>1. i \in 0..Len(q) /\ cur - 1 \in i..Len(q) /\ cur - 1 \in 0..Len(q)
    BY <1>2, <1>6
  <2>2. TimeTo(q)[i] <= TimeTo(q)[cur - 1]
    BY <1>2, <2>1, TimeToIncreases
  <2>3. TimeTo(q)[cur - 1] \in Nat
    BY <1>2, <2>1
  <2>4. left(i) <= delay /\ left(i) \in Nat
    BY <1>4, <1>5, <2>2, <2>3
  <2> HIDE DEF left, due
  <2> QED
    BY <1>1, <1>5, <2>4
<1>7. ASSUME NEW i \in Positions(q), i >= cur
      PROVE  due(i) > now + delay
  <2>1. cur \in 0..Len(q) /\ i \in cur..Len(q)
    BY <1>2, <1>7
  <2>2. TimeTo(q)[cur] <= TimeTo(q)[i] /\ TimeTo(q)[cur] \in Nat
    BY <1>2, <2>1, TimeToIncreases
  <2>3. delay < left(i)
    BY <1>4, <1>5, <2>2
  <2> HIDE DEF left, due
  <2> QED
    BY <1>1, <1>5, <2>3
<1>8. DueOf(A[token]) = now + delay
  BY DEF DueOf
<1> HIDE DEF left
<1>9. ASSUME NEW i \in Positions(r)
      PROVE  \/ i < cur /\ i \in Positions(q) /\ r[i].token = q[i].token
             \/ i = cur /\ r[i].token = token
             \/ i > cur /\ i - 1 \in Positions(q) /\ r[i].token = q[i - 1].token
  BY <1>2, <1>4 DEF Positions
<1>10. ASSUME NEW i \in Positions(r), NEW j \in Positions(r), i < j
       PROVE  Before(A, r[i].token, r[j].token)
  <2>1. CASE j < cur
    <3>1. i < cur /\ i \in Int /\ j \in Int /\ cur \in Int
      BY <1>2, <1>4, <1>10, <2>1 DEF Positions
    <3>2. j \in Positions(q) /\ r[j].token = q[j].token
      BY <1>9, <2>1, <3>1
    <3>3. i \in Positions(q) /\ r[i].token = q[i].token
      BY <1>9, <3>1
    <3> QED
      BY <1>10, <3>2, <3>3 DEF InOrder
  <2>2. CASE j = cur
    <3>1. i \in Positions(q) /\ i < cur
          /\ r[i].token = q[i].token /\ r[j].token = token
      BY <1>2, <1>4, <1>9, <1>10, <2>2 DEF Positions
    <3>2. due(i) <= now + delay /\ due(i) \in Nat /\ q[i].token < token
      BY <1>2, <1>5, <1>6, <3>1
    <3>3. /\ DueOf(A[r[i].token]) = due(i) /\ DueOf(A[r[j].token]) = now + delay
          /\ r[i].token < r[j].token
      BY <1>8, <3>1, <3>2
    <3>4. now + delay \in Int
      BY <1>1
    <3> HIDE DEF due
    <3> QED
      BY <3>2, <3>3, <3>4 DEF Before
  <2>3. CASE j > cur
    <3>1. j - 1 \in Positions(q) /\ r[j].token = q[j - 1].token /\ j - 1 >= cur
      BY <1>2, <1>4, <1>9, <2>3 DEF Positions
    <3>2. CASE i = cur
      <4>1. due(j - 1) > now + delay /\ r[i].token = token
        BY <1>7, <1>9, <3>1, <3>2
      <4> QED
        BY <1>1, <1>5, <1>8, <3>1, <4>1 DEF Before
    <3>3. CASE i # cur
      <4>1. PICK k \in Positions(q) : r[i].token = q[k].token /\ k < j - 1
        BY <1>2, <1>4, <1>9, <1>10, <2>3, <3>3 DEF Positions
      <4> QED
        BY <3>1, <4>1 DEF InOrder
    <3> QED
      BY <3>2, <3>3
  <2> QED
    BY <1>2, <1>4, <2>1, <2>2, <2>3 DEF Positions
<1> QED
  BY <1>10 DEF InOrder, r

-----------------------------------------------------------------------------
(***************************************************************************)
(* Each step is a step of the service, or none.                            *)
(***************************************************************************)
Table(tokens) == [t \in tokens |-> Due(t)]

\* scheduleDelayedTask() and rescheduleDelayedTask(): a new alarm is added to
\* the list q and to the objects D that remain after a cancellation.
LEMMA Added ==
  ASSUME IInv, Order, NEW q, Shape(q),
         NEW D \in SUBSET DOMAIN alarms, NEW d \in Delays,
         Pending(q) \subseteq D,
         OnTime(q, alarms, fLastSyncTime, now, setBack),
         setBack = 0 => InOrder(q, alarms),
         NewAlarmHandler(Restrict(alarms, D), NotNegative(d)),
         AddEntry(q, tokenCounter + 1, NotNegative(d)),
         UNCHANGED <<timeVars, running>>
  PROVE  Order' /\ Service!AskedFor(Table(Pending(q)), d)
<1> DEFINE token == tokenCounter + 1
           delay == NotNegative(d)
           new == [delay |-> delay, at |-> now, clock |-> TimeNow]
           s == Synchronized(q)
<1>1. /\ Scalars /\ alarms \in [DOMAIN alarms -> Alarm]
      /\ DOMAIN alarms \subseteq Tokens
      /\ \A t \in DOMAIN alarms : t <= tokenCounter /\ t \in Nat
  BY InvariantFacts
<1>2. /\ tokenCounter \in Nat /\ tokenCounter <= MaxTokens /\ MaxTokens \in Nat
      /\ tokenCounter >= 1 /\ now \in Nat /\ TimeNow \in Int
      /\ TimeNow = now - setBack
  BY <1>1, DelayAssumption DEF Scalars, NewAlarmHandler, Self, TimeNow
<1>3. /\ delay \in Nat /\ delay + MaxTime < Eternity /\ d \in Int
      /\ now + delay = IF d < 0 THEN now ELSE now + d
  BY <1>2, DelayAssumption DEF NotNegative
<1>4. token \in Tokens /\ \A t \in DOMAIN alarms : t < token
  BY <1>1, <1>2 DEF Tokens
<1>5. /\ tokenCounter' = token
      /\ DOMAIN alarms' = D \cup {token}
      /\ alarms'[token] = new
      /\ \A t \in D : alarms'[t] = alarms[t] /\ t # token
  <2>1. /\ DOMAIN Restrict(alarms, D) = D
        /\ \A t \in D : Restrict(alarms, D)[t] = alarms[t]
    BY DEF Restrict
  <2>2. alarms' = [t \in D \cup {token} |->
                      IF t = token THEN new ELSE Restrict(alarms, D)[t]]
    BY <2>1 DEF NewAlarmHandler
  <2>3. \A t \in D : t # token
    BY <1>1, <1>2, <1>4
  <2> HIDE DEF new, token
  <2> QED
    BY <2>1, <2>2, <2>3 DEF NewAlarmHandler, token
<1>6. /\ now' = now /\ setBack' = setBack /\ running' = running
      /\ queue' = Insert(s, token, delay)
  BY DEF AddEntry, timeVars
<1> HIDE DEF token, delay, new, s
<1>7. /\ Shape(s) /\ Pending(s) = Pending(q)
      /\ OnTime(s, alarms, TimeNow, now, setBack)
  BY <1>1, SynchronizedOnTime DEF s
<1>8. /\ \A t \in Pending(s) : alarms[t] = alarms'[t] /\ t < token
      /\ token \notin Pending(s)
  BY <1>4, <1>5, <1>7
<1>9. OnTime(s, alarms', TimeNow, now, setBack)
  BY <1>7, <1>8, OnTimeOfPending
<1>10. alarms'[token] = [delay |-> delay, at |-> now, clock |-> TimeNow]
  BY <1>5 DEF new
<1>11. Pending(queue') = Pending(q) \cup {token}
  BY <1>1, <1>3, <1>4, <1>6, <1>7, <1>8, <1>9, <1>10, InsertOnTime
<1>12. Order'
  <2> SUFFICES ASSUME setBack = 0
               PROVE  InOrder(queue', alarms') /\ OneClock(alarms')
    BY <1>6 DEF Order
  <2>1. OneClock(alarms')
    BY <1>2, <1>5, <1>10 DEF OneClock, Order
  <2>2. InOrder(s, alarms')
    BY <1>1, <1>8, SynchronizedInOrder, OrderOfPending DEF s
  <2>3. \A t \in Pending(s) : alarms'[t] \in Alarm /\ alarms'[t].clock = alarms'[t].at
    BY <1>1, <1>5, <1>7, <2>1 DEF OneClock
  <2>4. InOrder(Insert(s, token, delay), alarms')
    BY <1>1, <1>3, <1>4, <1>7, <1>8, <1>9, <1>10, <2>2, <2>3, InsertInOrder
  <2> QED
    BY <1>6, <2>1, <2>4
<1>13. Service!AskedFor(Table(Pending(q)), d)
  <2>1. /\ \A t \in Pending(q) : Due(t)' = Due(t) /\ t # token
        /\ alarms'[token].at + alarms'[token].delay =
               IF d < 0 THEN now ELSE now + d
    BY <1>3, <1>5, <1>8, <1>10, <1>7 DEF Due
  <2>2. [t \in Pending(queue) |-> Due(t)]' =
            [t \in Pending(q) \cup {token} |->
                IF t \in Pending(q) THEN Due(t)
                ELSE IF d < 0 THEN now ELSE now + d]
    BY <1>11, <2>1 DEF Due
  <2>3. /\ DOMAIN Table(Pending(q)) = Pending(q)
        /\ \A t \in Pending(q) : Table(Pending(q))[t] = Due(t)
    BY DEF Table
  <2> QED
    BY <1>5, <1>6, <2>2, <2>3 DEF Service!AskedFor, token
<1> QED
  BY <1>12, <1>13

\* What a step does to the order, and to the service.
Simulated == Order' /\ (setBack' = 0 => [Service!Next]_(Service!vars))

\* A step of the list that keeps every pending alarm is none of the service.
LEMMA NoStep ==
  ASSUME Pending(queue') = Pending(queue), alarms' = alarms,
         UNCHANGED <<now, tokenCounter, running>>
  PROVE  UNCHANGED Service!vars
BY DEF Service!vars, Due

LEMMA ScheduleSimulated ==
  ASSUME IInv, Order, NEW d \in Delays, ScheduleDelayedTask(d)
  PROVE  Simulated
<1>1. Restrict(alarms, DOMAIN alarms) = alarms
  BY InvariantFacts DEF Restrict
<1>2. /\ NewAlarmHandler(Restrict(alarms, DOMAIN alarms), NotNegative(d))
      /\ AddEntry(queue, tokenCounter + 1, NotNegative(d))
      /\ UNCHANGED <<timeVars, running>>
  BY <1>1 DEF ScheduleDelayedTask
<1>3. Order' /\ Service!AskedFor(Table(Pending(queue)), d)
  BY <1>2, InvariantFacts, Added DEF Order
<1> QED
  BY <1>3 DEF Simulated, Service!Next, Service!Ask, Table

LEMMA UnscheduleSimulated ==
  ASSUME IInv, Order, NEW t \in ClientTokens, UnscheduleDelayedTask(t)
  PROVE  Simulated
<1> DEFINE D == DOMAIN alarms \ (Pending(queue) \cap {t})
<1>1. /\ Pending(queue') = Pending(queue) \ {t}
      /\ setBack = 0 => InOrder(queue', alarms)
  BY InvariantFacts, RemoveOnTime, RemoveInOrder DEF UnscheduleDelayedTask, Order
<1>2. /\ DOMAIN alarms' = D /\ \A u \in D : alarms'[u] = alarms[u]
  BY DEF UnscheduleDelayedTask, Deleted, Restrict
<1>3. UNCHANGED <<now, setBack, fLastSyncTime, tokenCounter, running>>
  BY DEF UnscheduleDelayedTask, timeVars
<1>4. \A u \in Pending(queue') : alarms[u] = alarms'[u]
  BY <1>1, <1>2, InvariantFacts
<1>5. Order'
  BY <1>1, <1>2, <1>3, <1>4, OrderOfPending DEF Order, OneClock
<1>6. [u \in Pending(queue) |-> Due(u)]' = Table(Pending(queue) \ {t})
  BY <1>1, <1>4 DEF Table, Due
<1>7. CASE t \in Pending(queue)
  BY <1>3, <1>5, <1>6, <1>7
     DEF Simulated, Service!Next, Service!Cancel, Service!Without, Table
<1>8. CASE t \notin Pending(queue)
  <2>1. Table(Pending(queue) \ {t}) = Table(Pending(queue))
    BY <1>8
  <2> QED
    BY <1>3, <1>5, <1>6, <2>1 DEF Simulated, Service!vars, Table
<1> QED
  BY <1>7, <1>8

LEMMA RescheduleSimulated ==
  ASSUME IInv, Order, NEW t \in ClientTokens, NEW d \in Delays,
         RescheduleDelayedTask(t, d)
  PROVE  Simulated
<1> DEFINE D == DOMAIN alarms \ (Pending(queue) \cap {t})
           q == RemoveEntry(queue, t)
<1>1. /\ Shape(q) /\ Pending(q) = Pending(queue) \ {t}
      /\ OnTime(q, alarms, fLastSyncTime, now, setBack)
  BY InvariantFacts, RemoveOnTime
<1>2. setBack = 0 => InOrder(q, alarms)
  BY InvariantFacts, RemoveInOrder DEF Order
<1>3. /\ NewAlarmHandler(Restrict(alarms, D), NotNegative(d))
      /\ AddEntry(q, tokenCounter + 1, NotNegative(d))
      /\ UNCHANGED <<timeVars, running>>
  BY DEF RescheduleDelayedTask, Deleted
<1>4. D \in SUBSET DOMAIN alarms /\ Pending(q) \subseteq D
  BY <1>1, InvariantFacts
<1> HIDE DEF D, q
<1>5. Order' /\ Service!AskedFor(Table(Pending(queue) \ {t}), d)
  BY <1>1, <1>2, <1>3, <1>4, Added
<1>6. CASE t \in Pending(queue)
  <2>1. Table(Pending(queue) \ {t}) = Service!Without(t)
    BY DEF Service!Without, Table
  <2> QED
    BY <1>5, <1>6, <2>1 DEF Simulated, Service!Next, Service!Replace
<1>7. CASE t \notin Pending(queue)
  <2>1. Pending(queue) \ {t} = Pending(queue)
    BY <1>7
  <2> QED
    BY <1>5, <2>1 DEF Simulated, Service!Next, Service!Ask, Table
<1> QED
  BY <1>6, <1>7

LEMMA TimeToNextSimulated ==
  ASSUME IInv, Order, TimeToNextAlarm
  PROVE  Simulated
<1>1. /\ Pending(queue') = Pending(queue)
      /\ setBack = 0 => InOrder(queue', alarms)
  BY InvariantFacts, SynchronizedOnTime, SynchronizedInOrder
     DEF TimeToNextAlarm, Order
<1>2. UNCHANGED <<now, setBack, tokenCounter, running, alarms>>
  BY DEF TimeToNextAlarm, timeVars
<1> QED
  BY <1>1, <1>2, NoStep DEF Simulated, Order

\* What fires is the first entry: it is due, and the first of those pending.
LEMMA HandleAlarmSimulated ==
  ASSUME IInv, Order, HandleAlarm
  PROVE  Simulated
<1> DEFINE last == IF queue[1].delta # 0 THEN TimeNow ELSE fLastSyncTime
           q == AtAlarm
           t == q[1].token
<1>1. /\ now \in Nat /\ setBack \in Nat /\ now <= MaxTime
      /\ fLastSyncTime \in Int /\ TimeNow \in Int
  BY InvariantFacts, DelayAssumption DEF Scalars, TimeNow
<1>2. /\ Shape(q) /\ Pending(q) = Pending(queue)
      /\ OnTime(q, alarms, last, now, setBack) /\ last \in Int
      /\ setBack = 0 => InOrder(q, alarms)
  <2>1. CASE queue[1].delta # 0
    <3>1. q = Synchronized(queue) /\ last = TimeNow
      BY <2>1 DEF AtAlarm
    <3> QED
      BY <1>1, <3>1, InvariantFacts, SynchronizedOnTime, SynchronizedInOrder DEF Order
  <2>2. CASE ~ (queue[1].delta # 0)
    BY <1>1, <2>2, InvariantFacts DEF AtAlarm, Order
  <2> QED
    BY <2>1, <2>2
<1>3. UNCHANGED <<now, setBack, tokenCounter, alarms>>
  BY DEF HandleAlarm, timeVars
<1>4. CASE q[1].delta # 0
  <2>1. queue' = q /\ running' = running
    BY <1>4 DEF HandleAlarm
  <2> HIDE DEF last, q
  <2> QED
    BY <1>2, <1>3, <2>1, NoStep DEF Simulated, Order
<1>5. CASE q[1].delta = 0
  <2>1. queue' = Unlink(q, 1) /\ running' = Append(running, t)
    BY <1>5 DEF HandleAlarm
  <2> HIDE DEF last, q
  <2>2. /\ Len(q) \in Nat \ {0} /\ TimeTo(q)[1] = 0
    <3>1. /\ Len(q) \in Nat \ {0} /\ TimeTo(q)[0] = 0
          /\ \A i \in 1..Len(q) : TimeTo(q)[i] = TimeTo(q)[i - 1] + q[i].delta
      BY <1>2, ShapeEntries
    <3> QED
      BY <1>5, <3>1
  <2>3. 1 \in Positions(q)
    <3>1. SUFFICES ASSUME Len(q) = 1 PROVE FALSE
      <4> DEFINE m == Len(q)
      <4>1. m \in Nat \ {0} /\ m # 1
        BY <2>2, <3>1
      <4> HIDE DEF m
      <4>2. 1 \in 1..m - 1
        BY <4>1
      <4> QED
        BY <4>2 DEF Positions, m
    <3>2. 0 >= Eternity - now
      BY <1>2, <2>2, <3>1 DEF OnTime, EternityLeft
    <3>3. Eternity \in Nat /\ MaxTime \in Nat /\ MaxTime < Eternity
      BY DelayAssumption
    <3> QED
      BY <1>1, <3>2, <3>3
  <2>4. /\ Pending(queue') = Pending(queue) \ {t}
        /\ setBack = 0 => InOrder(queue', alarms)
    BY <1>2, <2>1, <2>3, UnlinkOnTime, UnlinkInOrder
  <2>5. t \in Pending(queue) /\ t \in DOMAIN alarms
    BY <1>2, <2>3, InvariantFacts DEF Pending
  <2>6. Due(t) <= now
    <3>1. TimeLeft(0, alarms[t], last, now, setBack)
      BY <1>2, <2>2, <2>3 DEF OnTime
    <3>2. alarms[t].at \in Nat /\ alarms[t].delay \in Nat
      BY <2>5, InvariantFacts DEF Alarm
    <3> QED
      BY <1>1, <3>1, <3>2 DEF TimeLeft, Due
  <2>7. ASSUME setBack = 0, NEW u \in Pending(queue)
        PROVE  Due(t) < Due(u) \/ (Due(t) = Due(u) /\ t <= u)
    <3>1. PICK i \in Positions(q) : u = q[i].token
      BY <1>2 DEF Pending
    <3>2. CASE i = 1
      <4>1. t = u /\ t \in Nat
        BY <2>5, <3>1, <3>2, InvariantFacts
      <4> QED
        BY <4>1
    <3>3. CASE i # 1
      <4>1. 1 < i
        BY <2>2, <3>3 DEF Positions
      <4>2. Before(alarms, t, u)
        BY <1>2, <2>3, <2>7, <3>1, <4>1 DEF InOrder
      <4>3. t \in Nat /\ u \in Nat
        BY <2>5, InvariantFacts
      <4> QED
        BY <4>2, <4>3 DEF Before, DueOf, Due
    <3> QED
      BY <3>2, <3>3
  <2> HIDE DEF t
  <2>8. Order'
    BY <1>3, <2>4 DEF Order
  <2>9. [u \in Pending(queue) |-> Due(u)]' = [u \in Pending(queue) \ {t} |-> Due(u)]
    BY <1>3, <2>4 DEF Due
  <2>10. ASSUME setBack = 0
         PROVE  Service!Fire
    BY <1>3, <2>1, <2>5, <2>6, <2>7, <2>9, <2>10
       DEF Service!Fire, Service!IsFirst, Service!Without
  <2> QED
    BY <1>3, <2>8, <2>10 DEF Simulated, Service!Next
<1> QED
  BY <1>4, <1>5

LEMMA ReturnSimulated ==
  ASSUME IInv, Order, HandlerReturns
  PROVE  Simulated
<1> DEFINE t == Last(running)
<1>1. /\ running # <<>> /\ running' = SubSeq(running, 1, Len(running) - 1)
      /\ alarms' = [u \in DOMAIN alarms \ {t} |-> alarms[u]]
      /\ UNCHANGED <<now, setBack, queue, tokenCounter>>
  BY DEF HandlerReturns, Front, Restrict, timeVars, listVars
<1>2. t \notin Pending(queue)
  <2>1. Len(running) \in 1..Len(running)
    BY <1>1, InvariantFacts, EmptySeq
  <2> QED
    BY <2>1 DEF IInv, Running, Last
<1> HIDE DEF t
<1>3. \A u \in Pending(queue) : alarms[u] = alarms'[u]
  BY <1>1, <1>2, InvariantFacts
<1>4. Order'
  BY <1>1, <1>3, OrderOfPending DEF Order, OneClock
<1>5. [u \in Pending(queue) |-> Due(u)]' = [u \in Pending(queue) |-> Due(u)]
  <2>1. queue' = queue
    BY <1>1
  <2>2. \A u \in Pending(queue) :
          alarms'[u].at + alarms'[u].delay = alarms[u].at + alarms[u].delay
    BY <1>3
  <2> QED
    BY <2>1, <2>2 DEF Due, Pending
<1> QED
  BY <1>1, <1>4, <1>5 DEF Simulated, Service!Next, Service!Return

LEMMA ClockSimulated ==
  ASSUME IInv, Order, Tick \/ SetClockBack
  PROVE  Simulated
<1>1. UNCHANGED <<queue, alarms, tokenCounter, running>>
  BY DEF Tick, SetClockBack, listVars
<1>2. [u \in Pending(queue) |-> Due(u)]' = [u \in Pending(queue) |-> Due(u)]
  BY <1>1 DEF Due
<1>3. CASE Tick
  BY <1>1, <1>2, <1>3
     DEF Tick, Simulated, Order, Service!Next, Service!Tick
<1>4. CASE SetClockBack
  <2>1. setBack' # 0
    BY <1>4, InvariantFacts, DelayAssumption DEF SetClockBack, Scalars
  <2> QED
    BY <2>1 DEF Simulated, Order
<1> QED
  BY <1>3, <1>4

LEMMA NextSimulated ==
  ASSUME IInv, Order, [Next]_vars
  PROVE  Simulated
<1>1. CASE UNCHANGED vars
  BY <1>1, NoStep DEF vars, Simulated, Order
<1> QED
  BY <1>1, ScheduleSimulated, UnscheduleSimulated, RescheduleSimulated,
     TimeToNextSimulated, HandleAlarmSimulated, ReturnSimulated, ClockSimulated
     DEF Next

\* At the start nothing is pending.
LEMMA StartSimulated ==
  ASSUME Init
  PROVE  Order /\ Service!Init
<1>1. Positions(queue) = {}
  BY DEF Init, Positions, Entry
<1>2. Pending(queue) = {}
  BY <1>1 DEF Pending
<1>3. Order
  BY <1>1 DEF Init, Order, InOrder, OneClock
<1>4. [t \in Pending(queue) |-> Due(t)] = <<>>
  BY <1>2
<1> QED
  BY <1>3, <1>4 DEF Init, Service!Init, Self

-----------------------------------------------------------------------------
\* The entries stay in the order of their due times, and of their tokens where
\* these are equal, as long as the clock is not set back.
THEOREM OrderIsKept == Spec => [](IInv /\ Order)
<1>1. Init => IInv /\ Order
  BY InitInvariant, StartSimulated
<1>2. IInv /\ Order /\ [Next]_vars => (IInv /\ Order)'
  BY NextInvariant, NextSimulated DEF Simulated
<1> QED
  BY <1>1, <1>2, PTL DEF Spec

\* DelayQueue.cpp serves its clients as a table of due times would: what fires
\* is due, the earliest, and of two due at the same time the one asked for
\* first; until the clock is set back.
THEOREM ServesAsATable == Spec => ImplementsAlarmService
<1>1. Init => Service!Init
  BY StartSimulated
<1>2. IInv /\ Order /\ [Next]_vars
          => [setBack' = 0 => [Service!Next]_(Service!vars)]_vars
  BY NextSimulated DEF Simulated
<1> QED
  BY <1>1, <1>2, OrderIsKept, PTL DEF Spec, ImplementsAlarmService
=============================================================================
