------------------------ MODULE StreamReplicatorProofs ------------------------
(***************************************************************************)
(* For any number of replicas, frames and calls inside one another: a      *)
(* replica that waits for a frame is in one place of the replicator, one   *)
(* that does not wait is nowhere, and until a mishap the replicator's      *)
(* counts and toggles agree and its master waits for another only.         *)
(*                                                                         *)
(* OnePlace is not inductive by itself: that a replica which was given a   *)
(* frame is still active needs the toggles to be 0 or 1 ("Toggles"), and   *)
(* what is taken out of a list is followed by the lemmas below.  BInv adds *)
(* what a call that is not over yet knows.                                 *)
(***************************************************************************)
EXTENDS StreamReplicator, TLAPS, SequenceTheorems, WellFoundedInduction,
        FiniteSetTheorems

Current == fReplicasAwaitingCurrentFrame
Following == fReplicasAwaitingNextFrame

Lists ==
    /\ Current \in Seq(Replicas) /\ Following \in Seq(Replicas)
    /\ fMasterReplica \in ReplicaOrNULL

\* OnePlace, said of each list for itself.
Apart ==
    /\ IsInjective(Current) /\ IsInjective(Following)
    /\ ToSet(Current) \cap ToSet(Following) = {}
    /\ fMasterReplica \notin ToSet(Current) \cup ToSet(Following)

Asked ==
    awaiting = (ToSet(Current) \cup ToSet(Following) \cup {fMasterReplica}) \ {NULL}

Playing ==
    /\ alive \subseteq Replicas
    /\ awaiting \subseteq {replica \in alive : IsActive(replica)}

Toggles ==
    /\ fFrameIndex \in {0, 1}
    /\ frameIndex \in [Replicas -> {-1, 0, 1}]

IInv == Lists /\ Apart /\ Asked /\ Playing /\ Toggles

-----------------------------------------------------------------------------
(***************************************************************************)
(* Lists without repetition.                                               *)
(***************************************************************************)

\* The search for a least element finds one.
LEMMA LeastIsThere ==
  ASSUME NEW S \in SUBSET Nat, S # {}
  PROVE  Min(S) \in S
<1> DEFINE Less == {ss \in Nat \X Nat : ss[1] < ss[2]}
<1>1. IsWellFoundedOn(Less, Nat)
  BY NatLessThanWellFounded DEF OpToRel
<1> HIDE DEF Less
<1>2. PICK x \in S : \A y \in S : ~ (<<y, x>> \in Less)
  BY <1>1, WFMin
<1>3. ASSUME NEW y \in S, y < x
      PROVE  FALSE
  <2>1. <<y, x>> \in Less
    BY <1>3 DEF Less
  <2> QED
    BY <1>2, <2>1
<1>4. \A y \in S : x <= y
  BY <1>3
<1> QED
  BY <1>4 DEF Min

\* An element that is put first.
LEMMA PutFirst ==
  ASSUME NEW S, NEW q \in Seq(S), IsInjective(q), NEW e \in S, e \notin ToSet(q)
  PROVE  /\ <<e>> \o q \in Seq(S) /\ IsInjective(<<e>> \o q)
         /\ ToSet(<<e>> \o q) = ToSet(q) \cup {e}
<1> DEFINE r == <<e>> \o q
<1>1. <<e>> \in Seq(S) /\ Len(<<e>>) = 1 /\ <<e>>[1] = e
  OBVIOUS
<1>2. /\ r \in Seq(S) /\ Len(r) = 1 + Len(q)
      /\ \A k \in 1 .. 1 + Len(q) : r[k] = IF k <= 1 THEN <<e>>[k] ELSE q[k - 1]
  BY <1>1, ConcatProperties
<1>3. DOMAIN r = 1 .. Len(q) + 1 /\ DOMAIN q = 1 .. Len(q) /\ Len(q) \in Nat
  BY <1>2
<1>4. r[1] = e
  BY <1>1, <1>2
<1>5. \A k \in DOMAIN r : k # 1 => k - 1 \in DOMAIN q /\ r[k] = q[k - 1]
  BY <1>2, <1>3
<1>6. \A k \in DOMAIN q : k + 1 \in DOMAIN r /\ r[k + 1] = q[k]
  <2>1. SUFFICES ASSUME NEW k \in DOMAIN q
                 PROVE  k + 1 \in DOMAIN r /\ r[k + 1] = q[k]
    OBVIOUS
  <2>2. k + 1 \in DOMAIN r /\ k + 1 # 1 /\ (k + 1) - 1 = k
    BY <1>3
  <2> QED
    BY <1>5, <2>2
<1> HIDE DEF r
<1>7. IsInjective(r)
  <2> SUFFICES ASSUME NEW i \in DOMAIN r, NEW j \in DOMAIN r, r[i] = r[j]
               PROVE  i = j
    BY DEF IsInjective
  <2>1. CASE i = 1 \/ j = 1
    BY <1>4, <1>5, <2>1 DEF ToSet
  <2>2. CASE i # 1 /\ j # 1
    <3>1. i - 1 = j - 1
      BY <1>5, <2>2 DEF IsInjective
    <3> QED
      BY <1>3, <3>1
  <2> QED
    BY <2>1, <2>2
<1>8. ToSet(r) = ToSet(q) \cup {e}
  <2>1. ASSUME NEW x \in ToSet(r)
        PROVE  x \in ToSet(q) \cup {e}
    BY <1>4, <1>5 DEF ToSet
  <2>2. ToSet(q) \subseteq ToSet(r)
    BY <1>6 DEF ToSet
  <2>3. e \in ToSet(r)
    BY <1>3, <1>4 DEF ToSet
  <2> QED
    BY <2>1, <2>2, <2>3
<1> QED
  BY <1>2, <1>7, <1>8 DEF r

\* The first element is taken out.
LEMMA TakeFirst ==
  ASSUME NEW S, NEW q \in Seq(S), IsInjective(q), q # <<>>
  PROVE  /\ Head(q) \in S /\ Head(q) \in ToSet(q)
         /\ Tail(q) \in Seq(S) /\ IsInjective(Tail(q))
         /\ ToSet(Tail(q)) = ToSet(q) \ {Head(q)}
<1> DEFINE r == Tail(q)
<1>1. /\ r \in Seq(S) /\ DOMAIN r = 1 .. Len(q) - 1
      /\ \A k \in DOMAIN r : r[k] = q[k + 1]
      /\ DOMAIN q = 1 .. Len(q) /\ Len(q) \in Nat \ {0}
      /\ Head(q) = q[1]
  OBVIOUS
<1> HIDE DEF r
<1>2. Head(q) \in S /\ Head(q) \in ToSet(q)
  BY <1>1 DEF ToSet
<1>3. IsInjective(r)
  <2> SUFFICES ASSUME NEW i \in DOMAIN r, NEW j \in DOMAIN r, r[i] = r[j]
               PROVE  i = j
    BY DEF IsInjective
  <2>1. i + 1 \in DOMAIN q /\ j + 1 \in DOMAIN q /\ q[i + 1] = q[j + 1]
    BY <1>1
  <2>2. i + 1 = j + 1
    BY <2>1 DEF IsInjective
  <2> QED
    BY <1>1, <2>2
<1>4. ASSUME NEW x \in ToSet(r)
      PROVE  x \in ToSet(q) /\ x # Head(q)
  <2>1. PICK k \in DOMAIN r : x = r[k]
    BY DEF ToSet
  <2>2. k + 1 \in DOMAIN q /\ k + 1 # 1 /\ 1 \in DOMAIN q /\ x = q[k + 1]
    BY <1>1, <2>1
  <2> QED
    BY <1>1, <2>2 DEF IsInjective, ToSet
<1>5. ASSUME NEW x \in ToSet(q), x # Head(q)
      PROVE  x \in ToSet(r)
  <2>1. PICK k \in DOMAIN q : x = q[k]
    BY DEF ToSet
  <2>2. k - 1 \in DOMAIN r /\ (k - 1) + 1 = k
    BY <1>1, <1>5, <2>1
  <2>3. x = r[k - 1]
    BY <1>1, <2>1, <2>2
  <2> QED
    BY <2>2, <2>3 DEF ToSet
<1> QED
  BY <1>1, <1>2, <1>3, <1>4, <1>5 DEF r

\* What is left of a list when the element at position i is taken out.
LEMMA TakeAt ==
  ASSUME NEW S, NEW q \in Seq(S), NEW i \in 1 .. Len(q)
  PROVE  /\ RemoveAt(q, i) \in Seq(S)
         /\ Len(RemoveAt(q, i)) = Len(q) - 1
         /\ \A j \in 1 .. Len(q) - 1 :
               RemoveAt(q, i)[j] = IF j < i THEN q[j] ELSE q[j + 1]
<1> DEFINE a == SubSeq(q, 1, i - 1)
           b == SubSeq(q, i + 1, Len(q))
<1>1. /\ a \in Seq(S) /\ Len(a) = i - 1
      /\ \A j \in 1 .. i - 1 : a[j] = q[j]
  OBVIOUS
<1>2. /\ b \in Seq(S) /\ Len(b) = Len(q) - i
      /\ \A j \in 1 .. Len(q) - i : b[j] = q[i + j]
  OBVIOUS
<1>3. RemoveAt(q, i) = a \o b
  BY DEF RemoveAt
<1> HIDE DEF a, b
<1>4. /\ a \o b \in Seq(S) /\ Len(a \o b) = Len(a) + Len(b)
      /\ \A j \in 1 .. Len(a) + Len(b) :
            (a \o b)[j] = IF j <= Len(a) THEN a[j] ELSE b[j - Len(a)]
  BY <1>1, <1>2, ConcatProperties
<1>5. ASSUME NEW j \in 1 .. Len(q) - 1
      PROVE  (a \o b)[j] = IF j < i THEN q[j] ELSE q[j + 1]
  <2>1. CASE j < i
    BY <1>1, <1>2, <1>4, <2>1
  <2>2. CASE ~ (j < i)
    <3>1. j - Len(a) \in 1 .. Len(q) - i /\ i + (j - Len(a)) = j + 1
      BY <1>1, <2>2
    <3>2. b[j - Len(a)] = q[j + 1]
      BY <1>2, <3>1
    <3>3. j \in 1 .. Len(a) + Len(b) /\ ~ (j <= Len(a))
      BY <1>1, <1>2, <2>2
    <3> QED
      BY <1>4, <2>2, <3>2, <3>3
  <2> QED
    BY <2>1, <2>2
<1> QED
  BY <1>1, <1>2, <1>3, <1>4, <1>5

\* An element is taken out, wherever it is, if it is there at all.
LEMMA TakeOut ==
  ASSUME NEW S, NEW q \in Seq(S), IsInjective(q), NEW e
  PROVE  /\ RemoveFirst(q, e) \in Seq(S) /\ IsInjective(RemoveFirst(q, e))
         /\ ToSet(RemoveFirst(q, e)) = ToSet(q) \ {e}
<1>1. DOMAIN q = 1 .. Len(q) /\ Len(q) \in Nat
  OBVIOUS
<1>2. CASE ~ \E i \in 1 .. Len(q) : q[i] = e
  BY <1>1, <1>2 DEF RemoveFirst, ToSet
<1>3. CASE \E i \in 1 .. Len(q) : q[i] = e
  <2> DEFINE I == {i \in 1 .. Len(q) : q[i] = e}
             n == Min(I)
             r == RemoveAt(q, n)
             Old(j) == IF j < n THEN j ELSE j + 1
  <2>1. RemoveFirst(q, e) = r
    BY <1>3 DEF RemoveFirst, SelectInSeq
  <2>2. n \in I
    <3>1. I \in SUBSET Nat /\ I # {}
      BY <1>3
    <3> HIDE DEF I
    <3> QED
      BY <3>1, LeastIsThere
  <2>3. n \in 1 .. Len(q) /\ q[n] = e
    BY <2>2
  <2> HIDE DEF n, I
  <2>4. /\ r \in Seq(S) /\ Len(r) = Len(q) - 1
        /\ \A j \in 1 .. Len(q) - 1 : r[j] = q[Old(j)]
    BY <2>3, TakeAt
  <2>5. DOMAIN r = 1 .. Len(q) - 1
    BY <1>1, <2>3, <2>4
  <2> HIDE DEF r
  <2>6. /\ \A j \in DOMAIN r : Old(j) \in DOMAIN q /\ Old(j) # n
        /\ \A j, k \in DOMAIN r : Old(j) = Old(k) => j = k
    BY <1>1, <2>3, <2>5
  <2>7. ASSUME NEW k \in DOMAIN q, k # n
        PROVE  \E j \in DOMAIN r : Old(j) = k
    <3>1. CASE k < n
      BY <1>1, <2>3, <2>5, <3>1
    <3>2. CASE k > n
      <4>1. k - 1 \in DOMAIN r /\ Old(k - 1) = k
        BY <1>1, <2>3, <2>5, <3>2
      <4> QED
        BY <4>1
    <3> QED
      BY <1>1, <2>3, <2>7, <3>1, <3>2
  <2> HIDE DEF Old
  <2>8. IsInjective(r)
    BY <2>4, <2>5, <2>6 DEF IsInjective
  <2>9. ASSUME NEW x \in ToSet(r)
        PROVE  x \in ToSet(q) /\ x # e
    <3>1. PICK j \in DOMAIN r : x = r[j]
      BY DEF ToSet
    <3>2. x = q[Old(j)] /\ Old(j) \in DOMAIN q /\ Old(j) # n
      BY <2>4, <2>5, <2>6, <3>1
    <3> QED
      BY <1>1, <2>3, <3>2 DEF ToSet, IsInjective
  <2>10. ASSUME NEW x \in ToSet(q), x # e
         PROVE  x \in ToSet(r)
    <3>1. PICK k \in DOMAIN q : x = q[k]
      BY DEF ToSet
    <3>2. PICK j \in DOMAIN r : Old(j) = k
      BY <2>3, <2>7, <2>10, <3>1
    <3>3. r[j] = x
      BY <2>4, <2>5, <3>1, <3>2
    <3> QED
      BY <3>3 DEF ToSet
  <2> QED
    BY <2>1, <2>4, <2>8, <2>9, <2>10
<1> QED
  BY <1>2, <1>3

\* Two lists that share nothing, one after the other.
LEMMA Joined ==
  ASSUME NEW S, NEW a \in Seq(S), NEW b \in Seq(S), IsInjective(a), IsInjective(b),
         ToSet(a) \cap ToSet(b) = {}
  PROVE  IsInjective(a \o b) /\ ToSet(a \o b) = ToSet(a) \cup ToSet(b)
<1> DEFINE r == a \o b
<1>1. /\ r \in Seq(S) /\ Len(r) = Len(a) + Len(b)
      /\ \A k \in 1 .. Len(a) + Len(b) :
            r[k] = IF k <= Len(a) THEN a[k] ELSE b[k - Len(a)]
  BY ConcatProperties
<1>2. /\ DOMAIN r = 1 .. Len(a) + Len(b) /\ Len(a) \in Nat /\ Len(b) \in Nat
      /\ DOMAIN a = 1 .. Len(a) /\ DOMAIN b = 1 .. Len(b)
  BY <1>1
<1> HIDE DEF r
<1>3. \A k \in DOMAIN r : \/ k \in DOMAIN a /\ r[k] = a[k]
                          \/ k - Len(a) \in DOMAIN b /\ r[k] = b[k - Len(a)]
  BY <1>1, <1>2
<1>4. \A k \in DOMAIN a : k \in DOMAIN r /\ r[k] = a[k]
  BY <1>1, <1>2
<1>5. \A k \in DOMAIN b : k + Len(a) \in DOMAIN r /\ r[k + Len(a)] = b[k]
  <2> SUFFICES ASSUME NEW k \in DOMAIN b
               PROVE  k + Len(a) \in DOMAIN r /\ r[k + Len(a)] = b[k]
    OBVIOUS
  <2>1. /\ k + Len(a) \in DOMAIN r /\ ~ (k + Len(a) <= Len(a))
        /\ (k + Len(a)) - Len(a) = k
    BY <1>2
  <2> QED
    BY <1>1, <1>2, <2>1
<1>6. IsInjective(r)
  <2> SUFFICES ASSUME NEW i \in DOMAIN r, NEW j \in DOMAIN r, r[i] = r[j]
               PROVE  i = j
    BY DEF IsInjective
  <2>1. CASE i \in DOMAIN a /\ r[i] = a[i] /\ j \in DOMAIN a /\ r[j] = a[j]
    BY <2>1 DEF IsInjective
  <2>2. CASE /\ i - Len(a) \in DOMAIN b /\ r[i] = b[i - Len(a)]
             /\ j - Len(a) \in DOMAIN b /\ r[j] = b[j - Len(a)]
    <3>1. i - Len(a) = j - Len(a)
      BY <2>2 DEF IsInjective
    <3> QED
      BY <1>2, <3>1
  <2>3. ASSUME NEW x \in DOMAIN a, NEW y \in DOMAIN b, a[x] = b[y]
        PROVE  FALSE
    BY <2>3 DEF ToSet
  <2> QED
    BY <1>3, <2>1, <2>2, <2>3
<1>7. ToSet(r) \subseteq ToSet(a) \cup ToSet(b)
  BY <1>3 DEF ToSet
<1>8. ToSet(a) \subseteq ToSet(r) /\ ToSet(b) \subseteq ToSet(r)
  BY <1>4, <1>5 DEF ToSet
<1> QED
  BY <1>6, <1>7, <1>8 DEF r

LEMMA Nothing == ToSet(<<>>) = {} /\ IsInjective(<<>>)
  BY DEF ToSet, IsInjective

-----------------------------------------------------------------------------
(***************************************************************************)
(* The actions.                                                            *)
(***************************************************************************)
LEMMA Initially == Init => IInv
  BY Nothing, ReplicatorAssumption
     DEF Init, IInv, Lists, Apart, Asked, Playing, Toggles, Current, Following,
         ReplicaOrNULL, IsActive

\* What no action of the program, of the source or of a delivery touches keeps
\* its place.
LEMMA SamePlaces ==
  ASSUME IInv, UNCHANGED <<listVars, fFrameIndex, frameIndex, alive, awaiting>>
  PROVE  IInv'
  BY DEF IInv, Lists, Apart, Asked, Playing, Toggles, Current, Following,
         ReplicaOrNULL, IsActive, listVars

LEMMA CreateKeeps ==
  ASSUME IInv, NEW replica \in Replicas, CreateStreamReplica(replica)
  PROVE  IInv'
  BY DEF CreateStreamReplica, IInv, Lists, Apart, Asked, Playing, Toggles,
         Current, Following, ReplicaOrNULL, IsActive, listVars

LEMMA GetNextFrameKeeps ==
  ASSUME IInv, NEW replica \in Replicas, GetNextFrame(replica)
  PROVE  IInv'
<1>1. /\ replica \in alive \ awaiting /\ replica # NULL
      /\ replica \notin ToSet(Current) /\ replica \notin ToSet(Following)
      /\ replica # fMasterReplica
  BY ReplicatorAssumption DEF GetNextFrame, IInv, Asked
<1>2. Playing' /\ Toggles'
  <2>1. AskedIndex(replica) \in {0, 1}
    BY DEF IInv, Toggles, AskedIndex, IsActive
  <2> QED
    BY <1>1, <2>1 DEF GetNextFrame, IInv, Playing, Toggles, IsActive
<1>3. CASE /\ fMasterReplica = NULL /\ fMasterReplica' = replica
           /\ UNCHANGED <<fReplicasAwaitingCurrentFrame, fReplicasAwaitingNextFrame>>
  <2>1. awaiting' = awaiting \cup {replica}
    BY DEF GetNextFrame
  <2> QED
    BY <1>1, <1>2, <1>3, <2>1
       DEF IInv, Lists, Apart, Asked, Current, Following, ReplicaOrNULL
<1>4. CASE /\ fReplicasAwaitingNextFrame' = <<replica>> \o fReplicasAwaitingNextFrame
           /\ UNCHANGED <<fMasterReplica, fReplicasAwaitingCurrentFrame>>
  <2>1. /\ Following' \in Seq(Replicas) /\ IsInjective(Following')
        /\ ToSet(Following') = ToSet(Following) \cup {replica}
    BY <1>1, <1>4, PutFirst DEF IInv, Lists, Apart, Following
  <2>2. Current' = Current /\ fMasterReplica' = fMasterReplica
    BY <1>4 DEF Current
  <2>3. awaiting' = awaiting \cup {replica}
    BY DEF GetNextFrame
  <2> QED
    BY <1>1, <1>2, <2>1, <2>2, <2>3 DEF IInv, Lists, Apart, Asked, ReplicaOrNULL
<1>5. CASE /\ fReplicasAwaitingCurrentFrame' = <<replica>> \o fReplicasAwaitingCurrentFrame
           /\ UNCHANGED <<fMasterReplica, fReplicasAwaitingNextFrame>>
  <2>1. /\ Current' \in Seq(Replicas) /\ IsInjective(Current')
        /\ ToSet(Current') = ToSet(Current) \cup {replica}
    BY <1>1, <1>5, PutFirst DEF IInv, Lists, Apart, Current
  <2>2. Following' = Following /\ fMasterReplica' = fMasterReplica
    BY <1>5 DEF Following
  <2>3. awaiting' = awaiting \cup {replica}
    BY DEF GetNextFrame
  <2> QED
    BY <1>1, <1>2, <2>1, <2>2, <2>3 DEF IInv, Lists, Apart, Asked, ReplicaOrNULL
<1> QED
  BY <1>3, <1>4, <1>5 DEF GetNextFrame

\* All but that a replica which waits is not being closed, which is looked at
\* with what calls this.
LEMMA DeactivateKeeps ==
  ASSUME IInv, NEW replica \in Replicas, NEW then,
         DeactivateStreamReplica(replica, then)
  PROVE  /\ Lists' /\ Apart' /\ Asked' /\ Toggles'
         /\ awaiting' = awaiting \ {replica}
         /\ \A other \in awaiting' : IsActive(other)'
<1>1. awaiting' = awaiting \ {replica} /\ fFrameIndex' = fFrameIndex
  BY DEF DeactivateStreamReplica
<1>2. replica # NULL
  BY ReplicatorAssumption
<1>3. CASE ~ IsActive(replica) /\ UNCHANGED <<listVars, frameIndex>>
  <2>1. awaiting' = awaiting
    BY <1>1, <1>3 DEF IInv, Playing
  <2> QED
    BY <1>1, <1>3, <2>1
       DEF IInv, Lists, Apart, Asked, Playing, Toggles, Current, Following,
           ReplicaOrNULL, IsActive, listVars
<1>4. CASE IsActive(replica) /\ frameIndex' = [frameIndex EXCEPT ![replica] = -1]
  <2>1. Toggles' /\ \A other \in awaiting' : IsActive(other)'
    BY <1>1, <1>4 DEF IInv, Toggles, Playing, IsActive
  <2>2. CASE replica = fMasterReplica /\ ReplaceMaster(replica)
    <3>1. Following' = Following
      BY <2>2 DEF ReplaceMaster, Following
    <3>2. CASE Current = <<>> /\ fMasterReplica' = NULL /\ Current' = Current
      <4>1. ToSet(Current) = {}
        BY <3>2, Nothing
      <4> QED
        BY <1>1, <1>2, <2>1, <2>2, <3>1, <3>2, <4>1, ReplicatorAssumption
           DEF IInv, Lists, Apart, Asked, ReplicaOrNULL, ToSet
    <3>3. CASE /\ Current # <<>> /\ fMasterReplica' = Head(Current)
               /\ Current' = Tail(Current)
      <4>1. /\ Head(Current) \in Replicas /\ Head(Current) \in ToSet(Current)
            /\ Current' \in Seq(Replicas) /\ IsInjective(Current')
            /\ ToSet(Current') = ToSet(Current) \ {Head(Current)}
        BY <3>3, TakeFirst DEF IInv, Lists, Apart
      <4> QED
        BY <1>1, <1>2, <2>1, <2>2, <3>1, <3>3, <4>1, ReplicatorAssumption
           DEF IInv, Lists, Apart, Asked, ReplicaOrNULL
    <3> QED
      BY <2>2, <3>2, <3>3 DEF ReplaceMaster, Current
  <2>3. CASE /\ replica # fMasterReplica /\ LeaveLists(replica)
             /\ fMasterReplica' = fMasterReplica
    <3>1. /\ Current' \in Seq(Replicas) /\ IsInjective(Current')
          /\ ToSet(Current') = ToSet(Current) \ {replica}
      BY <2>3, TakeOut DEF LeaveLists, Current, IInv, Lists, Apart
    <3>2. /\ Following' \in Seq(Replicas) /\ IsInjective(Following')
          /\ ToSet(Following') = ToSet(Following) \ {replica}
      BY <2>3, TakeOut DEF LeaveLists, Following, IInv, Lists, Apart
    <3> QED
      BY <1>1, <1>2, <2>1, <2>3, <3>1, <3>2
         DEF IInv, Lists, Apart, Asked, ReplicaOrNULL
  <2> QED
    BY <1>4, <2>2, <2>3 DEF DeactivateStreamReplica
<1> QED
  BY <1>3, <1>4 DEF DeactivateStreamReplica

LEMMA StopKeeps ==
  ASSUME IInv, NEW replica \in Replicas,
         StopGettingFrames(replica) \/ CloseReplica(replica)
  PROVE  IInv'
<1>1. /\ Lists' /\ Apart' /\ Asked' /\ Toggles'
      /\ awaiting' = awaiting \ {replica}
      /\ \A other \in awaiting' : IsActive(other)'
  BY DeactivateKeeps DEF StopGettingFrames, CloseReplica
<1>2. alive' = alive \/ alive' = alive \ {replica}
  BY DEF StopGettingFrames, CloseReplica
<1> QED
  BY <1>1, <1>2 DEF IInv, Playing, IsActive

LEMMA ClosureKeeps ==
  ASSUME IInv, TellOfClosure
  PROVE  IInv'
<1>1. UNCHANGED <<fFrameIndex, frameIndex, alive>>
  BY DEF TellOfClosure
<1>2. CASE /\ Current # <<>> /\ Current' = Tail(Current)
           /\ awaiting' = awaiting \ {Head(Current)}
           /\ Following' = Following /\ fMasterReplica' = fMasterReplica
  <2>1. /\ Head(Current) \in Replicas /\ Head(Current) \in ToSet(Current)
        /\ Current' \in Seq(Replicas) /\ IsInjective(Current')
        /\ ToSet(Current') = ToSet(Current) \ {Head(Current)}
    BY <1>2, TakeFirst DEF IInv, Lists, Apart
  <2> QED
    BY <1>1, <1>2, <2>1
       DEF IInv, Lists, Apart, Asked, Playing, Toggles, ReplicaOrNULL, IsActive
<1>3. CASE /\ Following # <<>> /\ Following' = Tail(Following)
           /\ awaiting' = awaiting \ {Head(Following)}
           /\ Current' = Current /\ fMasterReplica' = fMasterReplica
  <2>1. /\ Head(Following) \in Replicas /\ Head(Following) \in ToSet(Following)
        /\ Following' \in Seq(Replicas) /\ IsInjective(Following')
        /\ ToSet(Following') = ToSet(Following) \ {Head(Following)}
    BY <1>3, TakeFirst DEF IInv, Lists, Apart
  <2> QED
    BY <1>1, <1>3, <2>1
       DEF IInv, Lists, Apart, Asked, Playing, Toggles, ReplicaOrNULL, IsActive
<1>4. CASE /\ fMasterReplica' = NULL /\ awaiting' = awaiting \ {fMasterReplica}
           /\ Current' = Current /\ Following' = Following
  <2>1. NULL \notin ToSet(Current) \cup ToSet(Following)
    BY ReplicatorAssumption DEF IInv, Lists, ToSet
  <2> QED
    BY <1>1, <1>4, <2>1
       DEF IInv, Lists, Apart, Asked, Playing, Toggles, ReplicaOrNULL, IsActive
<1> QED
  BY <1>2, <1>3, <1>4 DEF TellOfClosure, Current, Following

LEMMA DeliverToAnotherKeeps ==
  ASSUME IInv, DeliverToAnother
  PROVE  IInv'
<1> DEFINE replica == Head(Current)
<1>1. /\ Current # <<>> /\ Current' = Tail(Current)
      /\ Following' = Following /\ fMasterReplica' = fMasterReplica
      /\ awaiting' = awaiting \ {replica}
      /\ frameIndex' = [frameIndex EXCEPT ![replica] = Toggled(@)]
      /\ fFrameIndex' = fFrameIndex /\ alive' = alive
  BY DEF DeliverToAnother, Current, Following
<1>2. /\ replica \in Replicas /\ replica \in ToSet(Current)
      /\ Current' \in Seq(Replicas) /\ IsInjective(Current')
      /\ ToSet(Current') = ToSet(Current) \ {replica}
  BY <1>1, TakeFirst DEF IInv, Lists, Apart
<1> HIDE DEF replica
<1>3. IsActive(replica)
  BY <1>2, ReplicatorAssumption DEF IInv, Asked, Playing
<1>4. Toggles' /\ Playing'
  BY <1>1, <1>2, <1>3 DEF IInv, Toggles, Playing, Toggled, IsActive
<1> QED
  BY <1>1, <1>2, <1>4, ReplicatorAssumption
     DEF IInv, Lists, Apart, Asked, ReplicaOrNULL

LEMMA DeliverToMasterKeeps ==
  ASSUME IInv, DeliverToMaster
  PROVE  IInv'
<1>1. /\ Current = <<>> /\ fMasterReplica # NULL /\ Following' = <<>>
      /\ awaiting' = awaiting \ {fMasterReplica}
      /\ frameIndex' = [frameIndex EXCEPT ![fMasterReplica] = Toggled(@)]
      /\ fFrameIndex' = Toggled(fFrameIndex) /\ alive' = alive
  BY DEF DeliverToMaster, DeliveryIsDue, PassToNextFrame, Current, Following
<1>2. /\ ToSet(Current) = {} /\ ToSet(Following') = {}
      /\ IsInjective(Following') /\ Following' \in Seq(Replicas)
  BY <1>1, Nothing
<1>3. fMasterReplica \in Replicas /\ IsActive(fMasterReplica)
  BY <1>1 DEF IInv, Lists, Asked, Playing, ReplicaOrNULL
<1>4. Toggles' /\ Playing'
  BY <1>1, <1>3 DEF IInv, Toggles, Playing, Toggled, IsActive
<1>5. CASE Following = <<>> /\ fMasterReplica' = NULL /\ Current' = <<>>
  <2>1. ToSet(Current') = {} /\ IsInjective(Current') /\ ToSet(Following) = {}
    BY <1>5, Nothing
  <2> QED
    BY <1>1, <1>2, <1>4, <1>5, <2>1 DEF IInv, Lists, Apart, Asked, ReplicaOrNULL
<1>6. CASE /\ Following # <<>> /\ fMasterReplica' = Head(Following)
           /\ Current' = Tail(Following)
  <2>1. /\ Head(Following) \in Replicas /\ Head(Following) \in ToSet(Following)
        /\ Current' \in Seq(Replicas) /\ IsInjective(Current')
        /\ ToSet(Current') = ToSet(Following) \ {Head(Following)}
    BY <1>6, TakeFirst DEF IInv, Lists, Apart
  <2> QED
    BY <1>1, <1>2, <1>4, <1>6, <2>1, ReplicatorAssumption
       DEF IInv, Lists, Apart, Asked, ReplicaOrNULL
<1> QED
  BY <1>5, <1>6 DEF DeliverToMaster, PassToNextFrame, Current, Following

-----------------------------------------------------------------------------
(***************************************************************************)
(* The theorems.                                                           *)
(***************************************************************************)

\* The invariant: StreamReplicator.cpp keeps the lists, the master and those
\* that wait together, in every step.
THEOREM Invariant == Spec => []IInv
<1>1. ASSUME IInv, [Next]_vars
      PROVE  IInv'
  <2>1. ASSUME NEW replica \in Replicas, CreateStreamReplica(replica)
        PROVE  IInv'
    BY <1>1, <2>1, CreateKeeps
  <2>2. ASSUME NEW replica \in Replicas, GetNextFrame(replica)
        PROVE  IInv'
    BY <1>1, <2>2, GetNextFrameKeeps
  <2>3. ASSUME NEW replica \in Replicas,
               StopGettingFrames(replica) \/ CloseReplica(replica)
        PROVE  IInv'
    BY <1>1, <2>3, StopKeeps
  <2>4. CASE TellOfClosure
    BY <1>1, <2>4, ClosureKeeps
  <2>5. CASE DeliverToAnother
    BY <1>1, <2>5, DeliverToAnotherKeeps
  <2>6. CASE DeliverToMaster
    BY <1>1, <2>6, DeliverToMasterKeeps
  <2>7. CASE \/ \E replica \in Replicas : GetNextFrameOfClosed(replica)
             \/ Deactivated \/ AfterGettingFrame \/ OnSourceClosure
             \/ DeliverReturns \/ ProgramReturns
    <3>1. UNCHANGED <<listVars, fFrameIndex, frameIndex, alive, awaiting>>
      BY <2>7 DEF GetNextFrameOfClosed, Deactivated, AfterGettingFrame,
                  OnSourceClosure, DeliverReturns, ProgramReturns
    <3> QED
      BY <1>1, <3>1, SamePlaces
  <2>8. CASE UNCHANGED vars
    <3>1. UNCHANGED <<listVars, fFrameIndex, frameIndex, alive, awaiting>>
      BY <2>8 DEF vars
    <3> QED
      BY <1>1, <3>1, SamePlaces
  <2> QED
    BY <1>1, <2>1, <2>2, <2>3, <2>4, <2>5, <2>6, <2>7, <2>8 DEF Next
<1> QED
  BY Initially, <1>1, PTL DEF Spec

\* A replica that waits is the master or once in one of the two lists, and one
\* that stopped or was closed is nowhere: no callback of deliverReceivedFrame()
\* or onSourceClosure() goes to a replica that was deleted.
THEOREM EveryRequestInOnePlace == Spec => []OnePlace
<1>1. ASSUME IInv
      PROVE  OnePlace
  <2>1. /\ IsInjective(Current \o Following)
        /\ ToSet(Current \o Following) = ToSet(Current) \cup ToSet(Following)
    BY <1>1, Joined DEF IInv, Lists, Apart
  <2> QED
    BY <1>1, <2>1 DEF OnePlace, IInv, Apart, Asked, Playing, Current, Following
<1> QED
  BY Invariant, <1>1, PTL

-----------------------------------------------------------------------------
(***************************************************************************)
(* The book-keeping: counts, toggles, and what a pending delivery knows.   *)
(***************************************************************************)
Active == {replica \in Replicas : IsActive(replica)}
Given == {replica \in Replicas : HasCurrentFrame(replica)}

\* The source closes only while nothing is called.
Closures == {"closure", "closing"}
ClosureFirst(s) == \A i \in DOMAIN s : s[i] \in Closures => i = 1
Calls ==
    /\ stack \in Seq(Points) /\ ClosureFirst(stack)
    /\ ToSet(stack) \cap Closures # {} => fInputSourceHasClosed

Tally == fNumActiveReplicas = Cardinality(Active)

\* Until a mishap.
Books ==
    /\ IndexesAgree
    /\ fNumDeliveriesMadeSoFar = Cardinality(Given)
    /\ reading => fMasterReplica # NULL
    /\ "deliver" \in ToSet(stack) => fMasterReplica # NULL /\ ~reading
    /\ fInputSourceHasClosed => ~reading /\ Following = <<>>
    /\ ~fInputSourceHasClosed /\ (fMasterReplica = NULL \/ reading) => Given = {}

\* A frame that was read is given to its master, unless others are waited for.
Busy == ToSet(stack) \cap ({"deliver"} \cup Closures) # {}
Waits ==
    fMasterReplica # NULL /\ ~reading =>
        Busy \/ (Current = <<>> /\ fNumDeliveriesMadeSoFar # fNumActiveReplicas - 1)

BInv == IInv /\ Calls /\ Tally /\ (mishaps = {} => Books /\ Waits)

-----------------------------------------------------------------------------
\* What is called from a call, and what is left when it returns.
LEMMA Pushed ==
  ASSUME NEW s \in Seq(Points), NEW p \in Points
  PROVE  /\ Append(s, p) \in Seq(Points)
         /\ ToSet(Append(s, p)) = ToSet(s) \cup {p}
         /\ ClosureFirst(s) /\ (p \notin Closures \/ s = <<>>)
                => ClosureFirst(Append(s, p))
<1> DEFINE r == Append(s, p)
<1>1. /\ r \in Seq(Points) /\ Len(s) \in Nat
      /\ DOMAIN r = 1 .. Len(s) + 1 /\ DOMAIN s = 1 .. Len(s)
      /\ r[Len(s) + 1] = p /\ \A i \in 1 .. Len(s) : r[i] = s[i]
  OBVIOUS
<1>2. s = <<>> => Len(s) = 0
  OBVIOUS
<1> HIDE DEF r
<1>3. ToSet(r) \subseteq ToSet(s) \cup {p}
  <2>1. ASSUME NEW i \in DOMAIN r
        PROVE  r[i] \in ToSet(s) \cup {p}
    BY <1>1 DEF ToSet
  <2> QED
    BY <2>1 DEF ToSet
<1>4. ToSet(s) \cup {p} \subseteq ToSet(r)
  <2>1. ASSUME NEW i \in DOMAIN s
        PROVE  s[i] \in ToSet(r)
    BY <1>1 DEF ToSet
  <2>2. p \in ToSet(r)
    BY <1>1 DEF ToSet
  <2> QED
    BY <2>1, <2>2 DEF ToSet
<1>5. ASSUME ClosureFirst(s), p \notin Closures \/ s = <<>>
      PROVE  ClosureFirst(r)
  BY <1>1, <1>2, <1>5 DEF ClosureFirst
<1> QED
  BY <1>1, <1>3, <1>4, <1>5 DEF r

LEMMA Popped ==
  ASSUME NEW s \in Seq(Points), s # <<>>
  PROVE  /\ Front(s) \in Seq(Points)
         /\ ToSet(s) = ToSet(Front(s)) \cup {Last(s)}
         /\ ClosureFirst(s) => ClosureFirst(Front(s))
         /\ ClosureFirst(s) /\ Last(s) \in Closures
                => Front(s) = <<>> /\ ToSet(s) = {Last(s)}
<1> DEFINE r == Front(s)
<1>1. /\ r \in Seq(Points) /\ Len(s) \in Nat \ {0} /\ Len(r) = Len(s) - 1
      /\ DOMAIN s = 1 .. Len(s) /\ DOMAIN r = 1 .. Len(s) - 1
      /\ Last(s) = s[Len(s)] /\ \A i \in 1 .. Len(s) - 1 : r[i] = s[i]
  <2> DEFINE n == Len(s) - 1
  <2>1. /\ Len(s) \in Nat \ {0} /\ DOMAIN s = 1 .. Len(s)
        /\ n \in Nat /\ n = Len(s) - 1
        /\ \A i \in 1 .. Len(s) : s[i] \in Points
    OBVIOUS
  <2>2. r = SubSeq(s, 1, n)
    BY DEF Front
  <2> HIDE DEF n, r
  <2>3. \A i \in 1 .. n : s[i] \in Points
    BY <2>1
  <2>4. /\ r \in Seq(Points) /\ Len(r) = IF 1 <= n THEN n - 1 + 1 ELSE 0
        /\ \A i \in 1 .. n - 1 + 1 : r[i] = s[1 + i - 1]
    BY <2>1, <2>2, <2>3, SubSeqProperties
  <2>5. DOMAIN r = 1 .. Len(r) /\ Len(r) = n
    <3>1. n \in Nat
      BY <2>1
    <3>2. DOMAIN r = 1 .. Len(r)
      BY <2>4
    <3>3. (IF 1 <= n THEN n - 1 + 1 ELSE 0) = n
      BY <3>1
    <3> QED
      BY <2>4, <3>2, <3>3
  <2>6. \A i \in 1 .. n : r[i] = s[i]
    <3>1. n \in Nat
      BY <2>1
    <3>2. \A i \in 1 .. n : i \in 1 .. n - 1 + 1 /\ 1 + i - 1 = i
      BY <3>1
    <3> QED
      BY <2>4, <3>2
  <2> QED
    BY <2>1, <2>4, <2>5, <2>6 DEF Last
<1>2. Len(r) = 0 => r = <<>>
  BY <1>1
<1> HIDE DEF r
<1>3. ToSet(s) \subseteq ToSet(r) \cup {Last(s)}
  <2>1. ASSUME NEW i \in DOMAIN s
        PROVE  s[i] \in ToSet(r) \cup {Last(s)}
    BY <1>1 DEF ToSet
  <2> QED
    BY <2>1 DEF ToSet
<1>4. ToSet(r) \cup {Last(s)} \subseteq ToSet(s)
  <2>1. ASSUME NEW i \in DOMAIN r
        PROVE  r[i] \in ToSet(s)
    BY <1>1 DEF ToSet
  <2>2. Last(s) \in ToSet(s)
    BY <1>1 DEF ToSet
  <2> QED
    BY <2>1, <2>2 DEF ToSet
<1>5. ClosureFirst(s) => ClosureFirst(r)
  BY <1>1 DEF ClosureFirst
<1>6. ASSUME ClosureFirst(s), Last(s) \in Closures
      PROVE  r = <<>> /\ ToSet(s) = {Last(s)}
  <2>1. Len(s) = 1
    BY <1>1, <1>6 DEF ClosureFirst
  <2>2. r = <<>>
    BY <1>1, <1>2, <2>1
  <2> QED
    BY <1>3, <1>4, <2>2, Nothing
<1> QED
  BY SMTT(30), <1>1, <1>3, <1>4, <1>5, <1>6 DEF r

\* Sets of replicas can be counted.
LEMMA Counted ==
  ASSUME NEW S, S \subseteq Replicas
  PROVE  /\ IsFiniteSet(S) /\ Cardinality(S) \in Nat
         /\ \A x \in S : Cardinality(S \ {x}) = Cardinality(S) - 1
         /\ \A x : x \notin S => Cardinality(S \cup {x}) = Cardinality(S) + 1
         /\ \A x : x \notin S => Cardinality(S \ {x}) = Cardinality(S)
         /\ Cardinality(S) = 0 <=> S = {}
<1>1. IsFiniteSet(S)
  BY ReplicatorAssumption, FS_Subset
<1> QED
  BY <1>1, FS_CardinalityType, FS_AddElement, FS_RemoveElement, FS_EmptySet

-----------------------------------------------------------------------------
\* Two sets of replicas as the counts see them.
LEMMA Subsets == Active \subseteq Replicas /\ Given \subseteq Active
  BY DEF Active, Given, HasCurrentFrame

\* What does not touch replicas, lists or counts.
LEMMA SameBooks ==
  ASSUME IInv, Tally,
         UNCHANGED <<listVars, fFrameIndex, frameIndex, countVars>>
  PROVE  /\ Active' = Active /\ Given' = Given
         /\ Current' = Current /\ Following' = Following
         /\ Tally' /\ (IndexesAgree => IndexesAgree')
<1>1. /\ fMasterReplica' = fMasterReplica
      /\ fReplicasAwaitingCurrentFrame' = fReplicasAwaitingCurrentFrame
      /\ fReplicasAwaitingNextFrame' = fReplicasAwaitingNextFrame
      /\ fNumActiveReplicas' = fNumActiveReplicas
  BY DEF listVars, countVars
<1>2. Active' = Active /\ Given' = Given
  BY DEF Active, Given, HasCurrentFrame, IsActive
<1> QED
  BY <1>1, <1>2
     DEF Tally, IndexesAgree, HasCurrentFrame, IsActive, Current, Following

LEMMA BooksInitially == Init => BInv
<1> SUFFICES ASSUME Init PROVE BInv
  OBVIOUS
<1>1. IInv
  BY Initially
<1>2. Active = {} /\ Given = {}
  BY DEF Init, Active, Given, HasCurrentFrame, IsActive
<1>3. Calls /\ ToSet(stack) = {}
  BY Nothing DEF Init, Calls, ClosureFirst
<1>4. Tally /\ fNumDeliveriesMadeSoFar = Cardinality(Given)
  BY <1>2, FS_EmptySet DEF Init, Tally
<1>5. IndexesAgree
  BY Nothing DEF Init, IndexesAgree
<1>6. Books
  BY <1>2, <1>3, <1>4, <1>5 DEF Init, Books, Following
<1>7. Waits
  BY DEF Init, Waits
<1> QED
  BY <1>1, <1>3, <1>4, <1>6, <1>7 DEF BInv

\* What is called or returns, and nothing else: a call that is not a delivery or
\* the closure.
LEMMA CallKeeps ==
  ASSUME BInv, IInv', Calls',
         ToSet(stack') \cap ({"deliver"} \cup Closures)
             = ToSet(stack) \cap ({"deliver"} \cup Closures),
         mishaps = {} => (reading' <=> reading),
         UNCHANGED <<listVars, fFrameIndex, frameIndex, countVars,
                     fInputSourceHasClosed, mishaps>>
  PROVE  BInv'
<1>1. /\ Active' = Active /\ Given' = Given
      /\ Current' = Current /\ Following' = Following
      /\ Tally' /\ (IndexesAgree => IndexesAgree')
  BY SameBooks DEF BInv
<1>2. /\ fMasterReplica' = fMasterReplica
      /\ fNumDeliveriesMadeSoFar' = fNumDeliveriesMadeSoFar
      /\ fNumActiveReplicas' = fNumActiveReplicas
  BY DEF listVars, countVars
<1>3. "deliver" \in ToSet(stack') <=> "deliver" \in ToSet(stack)
  BY DEF Closures
<1>4. mishaps = {} /\ Books => Books'
  BY <1>1, <1>2, <1>3 DEF Books
<1>5. mishaps = {} /\ Waits => Waits'
  BY <1>1, <1>2 DEF Waits, Busy
<1> QED
  BY <1>1, <1>4, <1>5 DEF BInv

\* The innermost call returns.
LEMMA AtTop ==
  ASSUME Calls, NEW p, At(p)
  PROVE  /\ Returned \in Seq(Points) /\ ClosureFirst(Returned)
         /\ ToSet(stack) = ToSet(Returned) \cup {p}
         /\ ToSet(Returned) \cap Closures # {} => fInputSourceHasClosed
         /\ p \in Closures => Returned = <<>> /\ ToSet(stack) = {p}
<1>1. stack \in Seq(Points) /\ stack # <<>> /\ Last(stack) = p
  BY DEF Calls, At
<1> QED
  BY <1>1, Popped DEF Calls, Returned

\* A call that is not the closure is made.
LEMMA PushKeepsCalls ==
  ASSUME Calls, NEW p \in Points \ Closures, stack' = Append(stack, p),
         UNCHANGED fInputSourceHasClosed
  PROVE  Calls' /\ ToSet(stack') = ToSet(stack) \cup {p}
BY Pushed DEF Calls

\* The innermost call returns, and another may be made.
LEMMA PopKeepsCalls ==
  ASSUME Calls, NEW p, At(p),
         stack' = Returned \/ stack' = Append(Returned, "program"),
         UNCHANGED fInputSourceHasClosed
  PROVE  /\ Calls'
         /\ ToSet(stack') \ {"program"} = ToSet(Returned) \ {"program"}
<1>1. "program" \in Points \ Closures
  BY DEF Points, Closures
<1>2. /\ Returned \in Seq(Points) /\ ClosureFirst(Returned)
      /\ ToSet(Returned) \cap Closures # {} => fInputSourceHasClosed
  BY AtTop
<1>3. CASE stack' = Returned
  BY <1>2, <1>3 DEF Calls
<1>4. CASE stack' = Append(Returned, "program")
  <2>1. /\ stack' \in Seq(Points) /\ ClosureFirst(stack')
        /\ ToSet(stack') = ToSet(Returned) \cup {"program"}
    BY <1>1, <1>2, <1>4, Pushed
  <2> QED
    BY <1>1, <1>2, <2>1 DEF Calls
<1> QED
  BY <1>3, <1>4

\* The index of one replica is set.
LEMMA IndexSet ==
  ASSUME IInv, NEW replica \in Replicas, NEW i \in {-1, 0, 1},
         frameIndex' = [frameIndex EXCEPT ![replica] = i],
         UNCHANGED fFrameIndex
  PROVE  /\ Active' = IF i = -1 THEN Active \ {replica} ELSE Active \cup {replica}
         /\ Given' = IF i = -1 \/ i = fFrameIndex
                     THEN Given \ {replica} ELSE Given \cup {replica}
         /\ IndexesAgree =>
               /\ \A r \in ToSet(Current) \cup {fMasterReplica} :
                     r \notin {replica, NULL} => frameIndex'[r] = fFrameIndex'
               /\ \A r \in ToSet(Following) \ {replica} : HasCurrentFrame(r)'
<1>1. frameIndex \in [Replicas -> {-1, 0, 1}] /\ fFrameIndex \in {0, 1}
  BY DEF IInv, Toggles
<1>2. frameIndex'[replica] = i
      /\ \A r \in Replicas \ {replica} : frameIndex'[r] = frameIndex[r]
  BY <1>1
<1>3. /\ ToSet(Current) \subseteq Replicas /\ ToSet(Following) \subseteq Replicas
      /\ fMasterReplica # NULL => fMasterReplica \in Replicas
  BY DEF IInv, Lists, ReplicaOrNULL, ToSet
<1>4. Active' = IF i = -1 THEN Active \ {replica} ELSE Active \cup {replica}
  BY <1>1, <1>2 DEF Active, IsActive
<1>5. Given' = IF i = -1 \/ i = fFrameIndex
               THEN Given \ {replica} ELSE Given \cup {replica}
  BY <1>1, <1>2 DEF Given, HasCurrentFrame, IsActive
<1>6. ASSUME IndexesAgree
      PROVE  /\ \A r \in ToSet(Current) \cup {fMasterReplica} :
                   r \notin {replica, NULL} => frameIndex'[r] = fFrameIndex'
             /\ \A r \in ToSet(Following) \ {replica} : HasCurrentFrame(r)'
  BY <1>2, <1>3, <1>6
     DEF IndexesAgree, HasCurrentFrame, IsActive, Current, Following
<1> QED
  BY <1>4, <1>5, <1>6

\* The calls that touch nothing but the stack.
LEMMA CallsOnlyKeep ==
  ASSUME BInv, IInv',
         \/ \E replica \in Replicas : \/ CreateStreamReplica(replica)
                                      \/ GetNextFrameOfClosed(replica)
         \/ Deactivated \/ ProgramReturns \/ UNCHANGED vars
  PROVE  BInv'
<1>1. Calls
  BY DEF BInv
<1>2. UNCHANGED <<listVars, fFrameIndex, frameIndex, countVars,
                  fInputSourceHasClosed, mishaps>>
  BY DEF CreateStreamReplica, GetNextFrameOfClosed, Deactivated, ProgramReturns,
         vars, historyVars
<1>3. mishaps = {} => (reading' <=> reading)
  <2>1. ASSUME Deactivated, Books, reading
        PROVE  fNumActiveReplicas # 0
    <3>1. fMasterReplica \in Active
      BY <2>1 DEF Books, BInv, IInv, Asked, Playing, Active
    <3> QED
      BY <3>1, Counted, Subsets DEF BInv, Tally
  <2> QED
    BY <2>1 DEF BInv, CreateStreamReplica, GetNextFrameOfClosed, Deactivated,
                ProgramReturns, vars
<1>4. CASE stack' = stack
  BY <1>1, <1>2, <1>3, <1>4, CallKeeps DEF Calls
<1>5. CASE stack' = Append(stack, "program")
  <2>1. "program" \in Points \ Closures /\ "program" # "deliver"
    BY DEF Points, Closures
  <2>2. Calls' /\ ToSet(stack') = ToSet(stack) \cup {"program"}
    BY <1>1, <1>2, <1>5, <2>1, PushKeepsCalls
  <2> QED
    BY <1>2, <1>3, <2>1, <2>2, CallKeeps
<1>6. ASSUME NEW p \in {"deactivated", "removed", "program"}, At(p),
             stack' = Returned
      PROVE  BInv'
  <2>1. p \notin {"deliver"} \cup Closures
    BY DEF Closures
  <2>2. Calls' /\ ToSet(stack) = ToSet(stack') \cup {p}
    BY <1>1, <1>2, <1>6, PopKeepsCalls, AtTop
  <2> QED
    BY <1>2, <1>3, <2>1, <2>2, CallKeeps
<1> QED
  BY <1>4, <1>5, <1>6
     DEF CreateStreamReplica, GetNextFrameOfClosed, Deactivated, ProgramReturns,
         vars

\* A replica asks for a frame.
LEMMA AskingKeepsBooks ==
  ASSUME BInv, IInv', NEW replica \in Replicas, GetNextFrame(replica)
  PROVE  BInv'
<1> DEFINE i == AskedIndex(replica)
<1>1. /\ frameIndex' = [frameIndex EXCEPT ![replica] = i]
      /\ fNumActiveReplicas' = fNumActiveReplicas + (IF IsActive(replica) THEN 0 ELSE 1)
      /\ fNumDeliveriesMadeSoFar' = fNumDeliveriesMadeSoFar
      /\ ~fInputSourceHasClosed /\ replica \notin awaiting
      /\ UNCHANGED <<fFrameIndex, fInputSourceHasClosed, mishaps>>
  BY DEF GetNextFrame
<1>2. /\ i \in {0, 1} /\ (i # fFrameIndex <=> replica \in Given)
      /\ IsActive(replica) <=> replica \in Active
  BY DEF BInv, IInv, Toggles, AskedIndex, IsActive, HasCurrentFrame, Given, Active
<1>3. /\ replica # NULL /\ replica # fMasterReplica
      /\ replica \notin ToSet(Current) \cup ToSet(Following)
  BY <1>1, ReplicatorAssumption DEF BInv, IInv, Asked
<1> HIDE DEF i
<1>4. /\ Active' = Active \cup {replica} /\ Given' = Given
      /\ IndexesAgree =>
            /\ \A r \in ToSet(Current) \cup {fMasterReplica} :
                  r \notin {replica, NULL} => frameIndex'[r] = fFrameIndex'
            /\ \A r \in ToSet(Following) \ {replica} : HasCurrentFrame(r)'
  <2>1. i \in {-1, 0, 1} /\ i # -1 /\ IInv
    BY <1>2 DEF BInv
  <2>2. /\ Active' = Active \cup {replica}
        /\ Given' = IF i = fFrameIndex THEN Given \ {replica} ELSE Given \cup {replica}
        /\ IndexesAgree =>
              /\ \A r \in ToSet(Current) \cup {fMasterReplica} :
                    r \notin {replica, NULL} => frameIndex'[r] = fFrameIndex'
              /\ \A r \in ToSet(Following) \ {replica} : HasCurrentFrame(r)'
    BY <1>1, <2>1, IndexSet
  <2>3. Given' = Given
    BY <1>2, <2>2
  <2> QED
    BY <2>2, <2>3
<1>5. frameIndex'[replica] = i
  BY <1>1 DEF BInv, IInv, Toggles
<1>6. Tally'
  <2>1. CASE replica \in Active
    <3>1. Active' = Active
      BY <1>4, <2>1
    <3> QED
      BY <1>1, <1>2, <2>1, <3>1, Counted, Subsets DEF BInv, Tally
  <2>2. CASE replica \notin Active
    BY <1>1, <1>2, <1>4, <2>2, Counted, Subsets DEF BInv, Tally
  <2> QED
    BY <2>1, <2>2
<1>7. CASE /\ fMasterReplica = NULL /\ fMasterReplica' = replica /\ reading' = TRUE
           /\ Current' = Current /\ Following' = Following /\ stack' = stack
  <2>1. Calls'
    BY <1>1, <1>7 DEF BInv, Calls
  <2>2. ASSUME mishaps = {}
        PROVE  Books' /\ Waits'
    <3>1. Books
      BY <2>2 DEF BInv
    <3>2. Given = {} /\ i = fFrameIndex
      BY <1>1, <1>2, <1>7, <3>1 DEF Books
    <3>3. IndexesAgree'
      BY <1>1, <1>3, <1>4, <1>5, <1>7, <3>1, <3>2
         DEF IndexesAgree, Books, Current, Following
    <3> QED
      BY <1>1, <1>3, <1>4, <1>7, <3>1, <3>2, <3>3 DEF Books, Waits
  <2> QED
    BY <1>1, <1>6, <2>1, <2>2 DEF BInv
<1>8. CASE /\ fMasterReplica # NULL /\ i # fFrameIndex /\ fMasterReplica' = fMasterReplica
           /\ fReplicasAwaitingNextFrame' = <<replica>> \o fReplicasAwaitingNextFrame
           /\ Current' = Current /\ reading' = reading /\ stack' = stack
  <2>1. Calls'
    BY <1>1, <1>8 DEF BInv, Calls
  <2>2. ToSet(Following') = ToSet(Following) \cup {replica}
    BY <1>3, <1>8, PutFirst DEF BInv, IInv, Lists, Apart, Following
  <2>3. ASSUME mishaps = {}
        PROVE  Books' /\ Waits'
    <3>1. Books /\ Waits
      BY <2>3 DEF BInv
    <3>2. HasCurrentFrame(replica)' /\ replica \in Active
      BY <1>1, <1>2, <1>5, <1>8, Subsets DEF HasCurrentFrame, IsActive
    <3>3. IndexesAgree'
      BY <1>1, <1>3, <1>4, <1>8, <2>2, <3>1, <3>2
         DEF IndexesAgree, Books, Current, Following
    <3>4. fNumActiveReplicas' = fNumActiveReplicas
      BY <1>1, <1>2, <3>2, Counted, Subsets DEF BInv, Tally
    <3> QED
      BY <1>1, <1>4, <1>8, <3>1, <3>3, <3>4 DEF Books, Waits, Busy
  <2> QED
    BY <1>1, <1>6, <2>1, <2>3 DEF BInv
<1>9. CASE /\ fMasterReplica # NULL /\ i = fFrameIndex /\ fMasterReplica' = fMasterReplica
           /\ fReplicasAwaitingCurrentFrame' = <<replica>> \o fReplicasAwaitingCurrentFrame
           /\ Following' = Following /\ reading' = reading
           /\ stack' = IF reading THEN stack ELSE Append(stack, "deliver")
  <2>1. ToSet(Current') = ToSet(Current) \cup {replica}
    BY <1>3, <1>9, PutFirst DEF BInv, IInv, Lists, Apart, Current
  <2>2. /\ Calls' /\ ToSet(stack) \subseteq ToSet(stack')
        /\ IF reading THEN ToSet(stack') = ToSet(stack)
                      ELSE ToSet(stack') = ToSet(stack) \cup {"deliver"}
    <3>1. "deliver" \in Points \ Closures
      BY DEF Points, Closures
    <3>2. CASE reading
      BY <1>1, <1>9, <3>2 DEF BInv, Calls
    <3>3. CASE ~reading
      BY <1>1, <1>9, <3>1, <3>3, PushKeepsCalls DEF BInv
    <3> QED
      BY <3>2, <3>3
  <2>3. ASSUME mishaps = {}
        PROVE  Books' /\ Waits'
    <3>1. Books /\ Waits
      BY <2>3 DEF BInv
    <3>2. IndexesAgree'
      BY <1>1, <1>3, <1>4, <1>5, <1>9, <2>1, <3>1
         DEF IndexesAgree, Books, Current, Following
    <3>3. Books'
      BY <1>1, <1>4, <1>9, <2>2, <3>1, <3>2 DEF Books
    <3>4. Waits'
      BY <1>9, <2>2 DEF Waits, Busy
    <3> QED
      BY <3>3, <3>4
  <2> QED
    BY <1>1, <1>6, <2>2, <2>3 DEF BInv
<1> QED
  BY <1>7, <1>8, <1>9 DEF GetNextFrame, Current, Following, i

LEMMA EmptyList ==
  ASSUME NEW S, NEW q \in Seq(S), ToSet(q) = {}
  PROVE  q = <<>>
<1>1. DOMAIN q = 1 .. Len(q) /\ Len(q) \in Nat
  OBVIOUS
<1>2. DOMAIN q = {}
  BY DEF ToSet
<1>3. Len(q) = 0
  BY <1>1, <1>2
<1> QED
  BY <1>3

\* The input source delivers a frame, or closes.
LEMMA SourceKeepsBooks ==
  ASSUME BInv, IInv', AfterGettingFrame \/ OnSourceClosure
  PROVE  BInv'
<1>1. IInv /\ Calls /\ Tally
  BY DEF BInv
<1>2. /\ stack = <<>> /\ reading /\ reading' = FALSE
      /\ UNCHANGED <<listVars, fFrameIndex, frameIndex, countVars, mishaps>>
  BY DEF AfterGettingFrame, OnSourceClosure, historyVars
<1>3. /\ Active' = Active /\ Given' = Given
      /\ Current' = Current /\ Following' = Following
      /\ Tally' /\ (IndexesAgree => IndexesAgree')
  BY <1>1, <1>2, SameBooks
<1>4. /\ fMasterReplica' = fMasterReplica
      /\ fNumDeliveriesMadeSoFar' = fNumDeliveriesMadeSoFar
  BY <1>2 DEF listVars, countVars
<1>5. <<>> \in Seq(Points) /\ ToSet(<<>>) = {} /\ ClosureFirst(<<>>)
  BY <1>1, <1>2, Nothing DEF Calls
<1>6. /\ Append(<<>>, "deliver") = <<"deliver">>
      /\ Append(<<>>, "closure") = <<"closure">>
  OBVIOUS
<1>7. ASSUME Books
      PROVE  /\ fMasterReplica # NULL /\ ~fInputSourceHasClosed /\ Given = {}
             /\ Following = <<>>
  <2>1. fMasterReplica # NULL /\ ~fInputSourceHasClosed /\ Given = {}
    BY <1>2, <1>7 DEF Books
  <2>2. ToSet(Following) = {}
    BY <1>1, <1>7, <2>1 DEF Books, IndexesAgree, Given, Following, IInv, Lists, ToSet
  <2> QED
    BY <1>1, <2>1, <2>2, EmptyList DEF IInv, Lists
<1>8. CASE stack' = <<"deliver">> /\ ~fInputSourceHasClosed /\ ~fInputSourceHasClosed'
  <2>1. "deliver" \in Points /\ "deliver" \notin Closures
    BY DEF Points, Closures
  <2>2. /\ stack' \in Seq(Points) /\ ClosureFirst(stack')
        /\ ToSet(stack') = {"deliver"}
    BY <1>5, <1>6, <1>8, <2>1, Pushed
  <2>3. Calls' /\ Busy'
    BY <2>1, <2>2 DEF Calls, Busy
  <2>4. mishaps = {} => Books' /\ Waits'
    BY <1>2, <1>3, <1>4, <1>7, <1>8, <2>3 DEF BInv, Books, Waits
  <2> QED
    BY <1>2, <1>3, <2>3, <2>4 DEF BInv
<1>9. CASE stack' = <<"closure">> /\ fInputSourceHasClosed'
  <2>1. "closure" \in Points /\ "closure" \in Closures
    BY DEF Points, Closures
  <2>2. /\ stack' \in Seq(Points) /\ ClosureFirst(stack')
        /\ ToSet(stack') = {"closure"}
    BY <1>5, <1>6, <1>9, <2>1, Pushed
  <2>3. Calls' /\ Busy' /\ "deliver" \notin ToSet(stack')
    BY <1>9, <2>1, <2>2 DEF Calls, Busy
  <2>4. mishaps = {} => Books' /\ Waits'
    BY <1>2, <1>3, <1>4, <1>7, <1>9, <2>3 DEF BInv, Books, Waits
  <2> QED
    BY <1>2, <1>3, <2>3, <2>4 DEF BInv
<1> QED
  BY <1>8, <1>9 DEF AfterGettingFrame, OnSourceClosure

\* The replicas are told that the source has closed.
LEMMA TellingKeepsBooks ==
  ASSUME BInv, IInv', TellOfClosure
  PROVE  BInv'
<1>1. IInv /\ Calls /\ Tally
  BY DEF BInv
<1>2. UNCHANGED <<fFrameIndex, frameIndex, countVars, fInputSourceHasClosed,
                  reading, mishaps>>
  BY DEF TellOfClosure, historyVars
<1>3. Active' = Active /\ Given' = Given /\ Tally'
  BY <1>1, <1>2 DEF Active, Given, HasCurrentFrame, IsActive, Tally, countVars
<1>4. PICK p \in Closures : At(p)
  BY DEF TellOfClosure, CurrentAreTold, Closures
<1>5. Returned = <<>> /\ ToSet(stack) = {p} /\ stack \in Seq(Points)
  BY <1>1, <1>4, AtTop DEF Calls
<1>6. fInputSourceHasClosed
  BY <1>1, <1>4, <1>5 DEF Calls
<1>7. "program" \in Points \ Closures
  BY DEF Points, Closures
<1>8. CASE /\ Current # <<>> /\ Current' = Tail(Current)
           /\ Following' = Following /\ fMasterReplica' = fMasterReplica
           /\ stack' = Append(stack, "program")
  <2>1. Calls' /\ ToSet(stack') = {p, "program"}
    BY <1>1, <1>2, <1>5, <1>7, <1>8, PushKeepsCalls
  <2>2. ToSet(Current') \subseteq ToSet(Current)
    BY <1>1, <1>8, TakeFirst DEF IInv, Lists, Apart
  <2>3. Busy'
    BY <1>4, <2>1 DEF Busy
  <2>4. IndexesAgree => IndexesAgree'
    BY <1>2, <1>8, <2>2
       DEF IndexesAgree, HasCurrentFrame, IsActive, Current, Following
  <2>5. "deliver" \in ToSet(stack') => "deliver" \in ToSet(stack)
    BY <1>5, <2>1
  <2>6. mishaps = {} => Books' /\ Waits'
    BY <1>2, <1>3, <1>8, <2>3, <2>4, <2>5 DEF BInv, Books, Waits, countVars
  <2> QED
    BY <1>2, <1>3, <2>1, <2>6 DEF BInv
<1>9. CASE /\ Following # <<>> /\ stack' = Returned \o <<"closing", "program">>
  <2>1. /\ "closing" \in Points /\ "closing" \in Closures /\ <<>> \in Seq(Points)
        /\ ClosureFirst(<<>>)
    BY Nothing DEF Points, Closures, ClosureFirst
  <2>2. /\ Append(<<>>, "closing") \in Seq(Points)
        /\ ClosureFirst(Append(<<>>, "closing"))
    BY <2>1, Pushed
  <2>3. stack' = Append(Append(<<>>, "closing"), "program")
    BY <1>5, <1>9
  <2>4. stack' \in Seq(Points) /\ ClosureFirst(stack')
    BY <1>7, <2>2, <2>3, Pushed
  <2>5. Calls'
    BY <1>2, <1>6, <2>4 DEF Calls
  <2>6. mishaps # {}
    BY <1>6, <1>9 DEF BInv, Books
  <2> QED
    BY <1>2, <1>3, <2>5, <2>6 DEF BInv
<1>10. CASE /\ Following = <<>> /\ fMasterReplica' = NULL
            /\ Current' = Current /\ Following' = Following
            /\ stack' = Returned \/ stack' = Append(Returned, "program")
  <2>1. Calls' /\ "deliver" \notin ToSet(stack')
    <3>1. Calls' /\ ToSet(stack') \ {"program"} = ToSet(<<>>) \ {"program"}
      BY <1>1, <1>2, <1>4, <1>5, <1>10, PopKeepsCalls
    <3> QED
      BY <3>1, Nothing
  <2>2. IndexesAgree => IndexesAgree'
    BY <1>2, <1>10
       DEF IndexesAgree, HasCurrentFrame, IsActive, Current, Following
  <2>3. mishaps = {} => Books' /\ Waits'
    BY <1>2, <1>3, <1>6, <1>10, <2>1, <2>2 DEF BInv, Books, Waits, countVars
  <2> QED
    BY <1>2, <1>3, <2>1, <2>3 DEF BInv
<1> QED
  BY <1>8, <1>9, <1>10 DEF TellOfClosure, Current, Following

\* deliverReceivedFrame() goes back to its caller.
LEMMA ReturningKeepsBooks ==
  ASSUME BInv, IInv', DeliverReturns
  PROVE  BInv'
<1>1. IInv /\ Calls /\ Tally
  BY DEF BInv
<1>2. /\ At("deliver") /\ Current = <<>> /\ ~DeliveryIsDue /\ stack' = Returned
      /\ UNCHANGED <<listVars, fFrameIndex, frameIndex, countVars,
                     fInputSourceHasClosed, reading, mishaps>>
  BY DEF DeliverReturns, Current, historyVars
<1>3. /\ Active' = Active /\ Given' = Given
      /\ Current' = Current /\ Following' = Following
      /\ Tally' /\ (IndexesAgree => IndexesAgree')
  BY <1>1, <1>2, SameBooks
<1>4. /\ fMasterReplica' = fMasterReplica
      /\ fNumDeliveriesMadeSoFar' = fNumDeliveriesMadeSoFar
      /\ fNumActiveReplicas' = fNumActiveReplicas
  BY <1>2 DEF listVars, countVars
<1>5. Calls' /\ ToSet(stack') \subseteq ToSet(stack)
  BY <1>1, <1>2, AtTop, PopKeepsCalls
<1>6. mishaps = {} => Books'
  BY <1>2, <1>3, <1>4, <1>5 DEF BInv, Books
<1>7. Waits'
  BY <1>2, <1>3, <1>4 DEF Waits, DeliveryIsDue, Current
<1> QED
  BY <1>2, <1>3, <1>5, <1>6, <1>7 DEF BInv

\* One turn of the loop.
LEMMA DeliveringKeepsBooks ==
  ASSUME BInv, IInv', DeliverToAnother
  PROVE  BInv'
<1> DEFINE replica == Head(Current)
           i == Toggled(frameIndex[replica])
<1>1. IInv /\ Calls /\ Tally
  BY DEF BInv
<1>2. /\ At("deliver") /\ Current # <<>> /\ Current' = Tail(Current)
      /\ Following' = Following /\ fMasterReplica' = fMasterReplica
      /\ frameIndex' = [frameIndex EXCEPT ![replica] = i]
      /\ fNumDeliveriesMadeSoFar' = fNumDeliveriesMadeSoFar + 1
      /\ stack' = Append(stack, "program")
      /\ UNCHANGED <<fFrameIndex, fNumActiveReplicas, fInputSourceHasClosed,
                     reading, mishaps>>
  BY DEF DeliverToAnother, Current, Following
<1>3. /\ replica \in Replicas /\ replica \in ToSet(Current)
      /\ ToSet(Current') = ToSet(Current) \ {replica}
  BY <1>1, <1>2, TakeFirst DEF IInv, Lists, Apart
<1>4. /\ replica # NULL /\ replica # fMasterReplica
      /\ replica \notin ToSet(Following) /\ replica \in Active
  BY <1>1, <1>3, ReplicatorAssumption DEF IInv, Apart, Asked, Playing, Active
<1> HIDE DEF replica
<1>5. frameIndex[replica] \in {0, 1} /\ fFrameIndex \in {0, 1}
  BY <1>1, <1>3, <1>4 DEF IInv, Toggles, Active, IsActive
<1>6. i \in {-1, 0, 1} /\ i # -1
  BY <1>5 DEF Toggled
<1> HIDE DEF i
<1>7. /\ Active' = Active \cup {replica}
      /\ Given' = IF i = fFrameIndex THEN Given \ {replica} ELSE Given \cup {replica}
      /\ IndexesAgree =>
            /\ \A r \in ToSet(Current) \cup {fMasterReplica} :
                  r \notin {replica, NULL} => frameIndex'[r] = fFrameIndex'
            /\ \A r \in ToSet(Following) \ {replica} : HasCurrentFrame(r)'
  BY <1>1, <1>2, <1>3, <1>6, IndexSet
<1>8. Active' = Active /\ Tally'
  BY <1>1, <1>2, <1>4, <1>7 DEF Tally
<1>9. /\ Calls' /\ ToSet(stack') = ToSet(stack) \cup {"program"}
      /\ "deliver" \in ToSet(stack)
  <2>1. "program" \in Points \ Closures
    BY DEF Points, Closures
  <2> QED
    BY <1>1, <1>2, <2>1, PushKeepsCalls, AtTop
<1>10. ASSUME Books
       PROVE  Books' /\ Waits'
  <2>1. fMasterReplica # NULL /\ ~reading
    BY <1>9, <1>10 DEF Books
  <2>2. frameIndex[replica] = fFrameIndex
    BY <1>3, <1>4, <1>10 DEF Books, IndexesAgree, Current
  <2>3. replica \notin Given /\ i # fFrameIndex
    BY <1>5, <2>2 DEF Given, HasCurrentFrame, Toggled, i
  <2>4. fNumDeliveriesMadeSoFar' = Cardinality(Given')
    <3>1. Given' = Given \cup {replica}
      BY <1>7, <2>3
    <3>2. Cardinality(Given \cup {replica}) = Cardinality(Given) + 1
      BY <2>3, Counted, Subsets
    <3> QED
      BY <1>2, <1>10, <3>1, <3>2 DEF Books
  <2>5. IndexesAgree'
    BY <1>2, <1>3, <1>4, <1>7, <1>10 DEF Books, IndexesAgree, Current, Following
  <2>6. Busy'
    BY <1>9 DEF Busy
  <2> QED
    BY <1>2, <1>9, <1>10, <2>1, <2>4, <2>5, <2>6 DEF Books, Waits
<1> QED
  BY <1>2, <1>8, <1>9, <1>10 DEF BInv

\* The master is given the frame, last, and the next frame has its turn.
LEMMA CompletingKeepsBooks ==
  ASSUME BInv, IInv', DeliverToMaster
  PROVE  BInv'
<1> DEFINE master == fMasterReplica
<1>1. IInv /\ Calls /\ Tally
  BY DEF BInv
<1>2. /\ At("deliver") /\ Current = <<>> /\ master # NULL
      /\ fNumDeliveriesMadeSoFar = fNumActiveReplicas - 1
      /\ frameIndex' = [frameIndex EXCEPT ![master] = Toggled(@)]
      /\ fFrameIndex' = Toggled(fFrameIndex)
      /\ fNumDeliveriesMadeSoFar' = 0
      /\ stack' = Append(Returned, "program")
      /\ UNCHANGED <<fNumActiveReplicas, fInputSourceHasClosed>>
      /\ reading' = (reading \/ Following # <<>>)
  BY DEF DeliverToMaster, DeliveryIsDue, ResetDeliveries, Current, Following
<1>3. master \in Replicas /\ master \in Active /\ master \notin ToSet(Following)
  BY <1>1, <1>2 DEF IInv, Lists, Apart, Asked, Playing, ReplicaOrNULL, Active
<1>4. /\ fFrameIndex \in {0, 1} /\ frameIndex \in [Replicas -> {-1, 0, 1}]
      /\ frameIndex[master] \in {0, 1}
  BY <1>1, <1>3 DEF IInv, Toggles, Active, IsActive
<1>5. /\ frameIndex'[master] = 1 - frameIndex[master]
      /\ \A r \in Replicas \ {master} : frameIndex'[r] = frameIndex[r]
      /\ fFrameIndex' = 1 - fFrameIndex
  BY <1>2, <1>3, <1>4 DEF Toggled
<1>6. Active' = Active
  BY <1>3, <1>4, <1>5 DEF Active, IsActive
<1>7. Tally'
  BY <1>1, <1>2, <1>6 DEF Tally
<1>8. Calls' /\ ToSet(stack') \ {"program"} = ToSet(Returned) \ {"program"}
  BY <1>1, <1>2, PopKeepsCalls
<1>9. "deliver" \in ToSet(stack)
  BY <1>1, <1>2, AtTop
<1>10. /\ Following' = <<>>
       /\ \/ Following = <<>> /\ fMasterReplica' = NULL /\ Current' = <<>>
          \/ /\ Following # <<>> /\ fMasterReplica' = Head(Following)
             /\ Current' = Tail(Following)
  BY DEF DeliverToMaster, PassToNextFrame, Current, Following
<1>11. /\ ToSet(Following') = {} /\ ToSet(Current') \subseteq ToSet(Following)
       /\ fMasterReplica' \in ToSet(Following) \cup {NULL}
       /\ fMasterReplica' # NULL <=> Following # <<>>
  <2>1. CASE Following = <<>>
    BY <1>10, <2>1, Nothing
  <2>2. CASE Following # <<>>
    <3>1. /\ Head(Following) \in Replicas /\ Head(Following) \in ToSet(Following)
          /\ ToSet(Tail(Following)) = ToSet(Following) \ {Head(Following)}
      BY <1>1, <2>2, TakeFirst DEF IInv, Lists, Apart
    <3>2. Head(Following) # NULL
      BY <3>1, ReplicatorAssumption
    <3>3. ToSet(Following') = {}
      BY <1>10, Nothing
    <3> QED
      BY <1>10, <2>2, <3>1, <3>2, <3>3
  <2> QED
    BY <2>1, <2>2
<1>12. ASSUME mishaps' = {}
       PROVE  Books' /\ Waits'
  <2>1. /\ mishaps = {}
        /\ "deliver" \notin ToSet(Returned)
    BY <1>12 DEF DeliverToMaster, Note
  <2>2. Books /\ ~reading
    BY <1>9, <2>1 DEF BInv, Books
  <2>3. frameIndex[master] = fFrameIndex
    BY <1>2, <2>2 DEF Books, IndexesAgree
  <2>4. Given = Active \ {master}
    <3>1. Given \subseteq Active \ {master}
      BY <2>3, Subsets DEF Given, HasCurrentFrame
    <3>2. Active \ {master} \subseteq Replicas
      BY Subsets
    <3>3. /\ IsFiniteSet(Active \ {master})
          /\ Cardinality(Active \ {master}) = Cardinality(Active) - 1
      BY <1>3, <3>2, Counted, Subsets
    <3>4. Cardinality(Given) = Cardinality(Active) - 1
      BY <1>1, <1>2, <2>2 DEF Books, Tally
    <3> QED
      BY <3>1, <3>3, <3>4, FS_Subset
  <2>5. \A r \in Given : frameIndex'[r] = fFrameIndex'
    <3> SUFFICES ASSUME NEW r \in Given
                 PROVE  frameIndex'[r] = fFrameIndex'
      OBVIOUS
    <3>1. r \in Replicas \ {master}
      BY <2>4, Subsets
    <3>2. frameIndex[r] \in {-1, 0, 1} /\ frameIndex[r] # -1
          /\ frameIndex[r] # fFrameIndex
      BY <1>4, <3>1 DEF Given, HasCurrentFrame, IsActive
    <3>3. frameIndex[r] = 1 - fFrameIndex
      BY <1>4, <3>2
    <3> QED
      BY <1>5, <3>1, <3>3
  <2>6. Given' = {}
    <3>1. ASSUME NEW r \in Given'
          PROVE  FALSE
      <4>1. r \in Active' /\ frameIndex'[r] # fFrameIndex'
        BY <3>1 DEF Given, Active, HasCurrentFrame
      <4>2. r \in Given \/ r = master
        BY <1>6, <2>4, <4>1
      <4>3. frameIndex'[master] = fFrameIndex'
        BY <1>5, <2>3
      <4> QED
        BY <2>5, <4>1, <4>2, <4>3
    <3> QED
      BY <3>1
  <2>7. fNumDeliveriesMadeSoFar' = Cardinality(Given')
    BY <1>2, <2>6, FS_EmptySet
  <2>8. ToSet(Following) \subseteq Given
    BY <1>1, <2>2 DEF Books, IndexesAgree, Given, Following, IInv, Lists, ToSet
  <2>9. IndexesAgree'
    BY <1>11, <2>5, <2>8 DEF IndexesAgree, Current, Following
  <2>10. (reading' <=> Following # <<>>) /\ "deliver" \notin ToSet(stack')
    BY <1>2, <1>8, <2>1, <2>2
  <2>11. Books'
    BY <1>2, <1>10, <1>11, <2>2, <2>6, <2>7, <2>9, <2>10 DEF Books
  <2>12. Waits'
    BY <1>11, <2>10 DEF Waits
  <2> QED
    BY <2>11, <2>12
<1> QED
  BY <1>7, <1>8, <1>12 DEF BInv

\* A replica stops or is closed.
LEMMA DeactivatingKeepsBooks ==
  ASSUME BInv, IInv', NEW replica \in Replicas,
         NEW then \in {"deactivated", "removed"},
         DeactivateStreamReplica(replica, then)
  PROVE  BInv'
<1>1. IInv /\ Calls /\ Tally
  BY DEF BInv
<1>2. /\ then \in Points \ Closures /\ then # "deliver"
      /\ "deliver" \in Points \ Closures
  BY DEF Points, Closures
<1>3. UNCHANGED <<fFrameIndex, fInputSourceHasClosed>>
  BY DEF DeactivateStreamReplica
<1>4. CASE /\ stack' = stack \/ stack' = Append(stack, then)
           /\ UNCHANGED <<listVars, countVars, reading, frameIndex, mishaps>>
  <2>1. Calls' /\ ToSet(stack') \ {then} = ToSet(stack) \ {then}
    <3>1. CASE stack' = stack
      BY <1>1, <1>3, <3>1 DEF Calls
    <3>2. CASE stack' = Append(stack, then)
      BY <1>1, <1>2, <1>3, <3>2, PushKeepsCalls
    <3> QED
      BY <1>4, <3>1, <3>2
  <2>2. ToSet(stack') \cap ({"deliver"} \cup Closures)
            = ToSet(stack) \cap ({"deliver"} \cup Closures)
    BY <1>2, <2>1
  <2> QED
    BY <1>3, <1>4, <2>1, <2>2, CallKeeps
<1>5. CASE /\ IsActive(replica)
           /\ fNumActiveReplicas' = fNumActiveReplicas - 1
           /\ frameIndex' = [frameIndex EXCEPT ![replica] = -1]
           /\ ForgetDelivery(replica)
  <2>1. /\ Active' = Active \ {replica} /\ Given' = Given \ {replica}
        /\ IndexesAgree =>
              /\ \A r \in ToSet(Current) \cup {fMasterReplica} :
                    r \notin {replica, NULL} => frameIndex'[r] = fFrameIndex'
              /\ \A r \in ToSet(Following) \ {replica} : HasCurrentFrame(r)'
    BY <1>1, <1>3, <1>5, IndexSet
  <2>2. Tally'
    <3>1. replica \in Active
      BY <1>5 DEF Active
    <3>2. Cardinality(Active \ {replica}) = Cardinality(Active) - 1
      BY <3>1, Counted, Subsets
    <3> QED
      BY <1>1, <1>5, <2>1, <3>2 DEF Tally
  <2>3. fNumDeliveriesMadeSoFar' = IF fNumDeliveriesMadeSoFar > 0
                                   THEN fNumDeliveriesMadeSoFar - 1
                                   ELSE fNumDeliveriesMadeSoFar
    <3>1. frameIndex'[replica] = -1 /\ fFrameIndex # -1
      BY <1>1, <1>5 DEF IInv, Toggles
    <3> QED
      BY <1>5, <3>1 DEF ForgetDelivery
  <2>4. ASSUME mishaps' = {}
        PROVE  /\ Books /\ Waits
               /\ replica = fMasterReplica /\ Current = <<>> => reading
               /\ fNumDeliveriesMadeSoFar' = Cardinality(Given')
    <3>1. mishaps = {}
      BY <1>5, <2>4 DEF DeactivateStreamReplica
    <3>2. Books /\ Waits
      BY <3>1 DEF BInv
    <3>3. replica = fMasterReplica /\ Current = <<>> => reading
      BY <1>5, <2>4 DEF DeactivateStreamReplica, Note, Current
    <3>4. HasCurrentFrame(replica) \/ ~ (fNumDeliveriesMadeSoFar > 0)
      BY <1>5, <2>4 DEF DeactivateStreamReplica, Note
    <3>5. fNumDeliveriesMadeSoFar = Cardinality(Given)
      BY <3>2 DEF Books
    <3>6. CASE replica \in Given
      <4>1. /\ Cardinality(Given \ {replica}) = Cardinality(Given) - 1
            /\ Cardinality(Given) \in Nat /\ Cardinality(Given) # 0
        BY <3>6, Counted, Subsets
      <4> QED
        BY <2>1, <2>3, <3>2, <3>3, <3>5, <4>1
    <3>7. CASE replica \notin Given
      <4>1. ~ (fNumDeliveriesMadeSoFar > 0)
        BY <3>4, <3>7 DEF Given
      <4>2. Given' = Given
        BY <2>1, <3>7
      <4> QED
        BY <2>3, <3>2, <3>3, <3>5, <4>1, <4>2
    <3> QED
      BY <3>6, <3>7
  <2>5. replica # NULL
    BY ReplicatorAssumption
  <2>6. CASE /\ replica = fMasterReplica /\ ReplaceMaster(replica)
             /\ stack' = Append(stack, then)
    <3>1. Calls' /\ ToSet(stack') = ToSet(stack) \cup {then}
      BY <1>1, <1>2, <1>3, <2>6, PushKeepsCalls
    <3>2. replica \notin ToSet(Current) \cup ToSet(Following)
      BY <1>1, <2>6 DEF IInv, Apart
    <3>3. Following' = Following
      BY <2>6 DEF ReplaceMaster, Following
    <3>4. "deliver" \in ToSet(stack') <=> "deliver" \in ToSet(stack)
      BY <1>2, <3>1
    <3>5. CASE /\ Current = <<>> /\ fMasterReplica' = NULL /\ reading' = FALSE
               /\ Current' = Current
      <4>1. ASSUME mishaps' = {}
            PROVE  Books' /\ Waits'
        <5>1. Books /\ reading
          BY <2>4, <2>6, <3>5, <4>1
        <5>2. /\ ~fInputSourceHasClosed /\ Given = {}
              /\ "deliver" \notin ToSet(stack')
          BY <3>4, <5>1 DEF Books
        <5>3. IndexesAgree'
          <6>1. ToSet(Current') = {}
            BY <3>5, Nothing
          <6> QED
            BY <2>1, <3>2, <3>3, <3>5, <5>1, <6>1
               DEF Books, IndexesAgree, Current, Following
        <5> QED
          BY <1>3, <2>1, <2>4, <3>5, <4>1, <5>2, <5>3 DEF Books, Waits
      <4> QED
        BY <2>2, <3>1, <4>1 DEF BInv
    <3>6. CASE /\ Current # <<>> /\ fMasterReplica' = Head(Current)
               /\ Current' = Tail(Current) /\ reading' = reading
      <4>1. /\ Head(Current) \in Replicas /\ Head(Current) \in ToSet(Current)
            /\ ToSet(Current') = ToSet(Current) \ {Head(Current)}
        BY <1>1, <3>6, TakeFirst DEF IInv, Lists, Apart
      <4>2. fMasterReplica' # NULL
        BY <3>6, <4>1, ReplicatorAssumption
      <4>3. ASSUME mishaps' = {}
            PROVE  Books' /\ Waits'
        <5>1. Books /\ Waits /\ fMasterReplica # NULL
          BY <2>4, <2>5, <2>6, <4>3
        <5>2. IndexesAgree'
          BY <2>1, <3>2, <3>3, <3>6, <4>1, <5>1
             DEF Books, IndexesAgree, Current, Following
        <5>3. Given = {} => Given' = {}
          BY <2>1
        <5>4. Books'
          BY <1>3, <2>4, <3>3, <3>4, <3>6, <4>2, <4>3, <5>1, <5>2, <5>3 DEF Books
        <5>5. Waits'
          BY <3>1, <3>6, <5>1 DEF Waits, Busy
        <5> QED
          BY <5>4, <5>5
      <4> QED
        BY <2>2, <3>1, <4>3 DEF BInv
    <3> QED
      BY <2>6, <3>5, <3>6 DEF ReplaceMaster, Current
  <2>7. CASE /\ replica # fMasterReplica /\ LeaveLists(replica)
             /\ stack' = IF fMasterReplica # NULL /\ ~reading
                         THEN stack \o <<then, "deliver">>
                         ELSE Append(stack, then)
             /\ UNCHANGED <<fMasterReplica, reading>>
    <3>1. /\ ToSet(Current') = ToSet(Current) \ {replica}
          /\ ToSet(Following') = ToSet(Following) \ {replica}
      BY <1>1, <2>7, TakeOut
         DEF LeaveLists, Current, Following, IInv, Lists, Apart
    <3>2. Following = <<>> => Following' = <<>>
      <4>1. ASSUME Following = <<>> PROVE ToSet(Following') = {}
        BY <3>1, <4>1, Nothing
      <4>2. Following' \in Seq(Replicas)
        BY DEF IInv, Lists
      <4> QED
        BY <4>1, <4>2, EmptyList
    <3>3. CASE fMasterReplica # NULL /\ ~reading
      <4>1. stack' = Append(Append(stack, then), "deliver")
        BY <1>1, <1>2, <2>7, <3>3 DEF Calls
      <4>2. /\ Append(stack, then) \in Seq(Points)
            /\ ClosureFirst(Append(stack, then))
            /\ ToSet(Append(stack, then)) = ToSet(stack) \cup {then}
        BY <1>1, <1>2, Pushed DEF Calls
      <4>3. /\ stack' \in Seq(Points) /\ ClosureFirst(stack')
            /\ ToSet(stack') = ToSet(stack) \cup {then, "deliver"}
        <5> DEFINE s == Append(stack, then)
        <5> HIDE DEF s
        <5>1. s \in Seq(Points) /\ ClosureFirst(s) /\ ToSet(s) = ToSet(stack) \cup {then}
          BY <4>2 DEF s
        <5>2. stack' = Append(s, "deliver")
          BY <4>1 DEF s
        <5>3. /\ stack' \in Seq(Points) /\ ClosureFirst(stack')
              /\ ToSet(stack') = ToSet(s) \cup {"deliver"}
          BY <1>2, <5>1, <5>2, Pushed
        <5> QED
          BY <5>1, <5>3
      <4>4. Calls' /\ Busy'
        BY <1>1, <1>2, <1>3, <4>3 DEF Calls, Busy
      <4>5. ASSUME mishaps' = {}
            PROVE  Books' /\ Waits'
        <5>1. Books /\ fMasterReplica' # NULL /\ ~reading'
          BY <2>4, <2>7, <3>3, <4>5
        <5>2. IndexesAgree'
          BY <2>1, <2>7, <3>1, <5>1 DEF Books, IndexesAgree, Current, Following
        <5> QED
          BY <1>3, <2>4, <3>2, <4>4, <4>5, <5>1, <5>2 DEF Books, Waits
      <4> QED
        BY <2>2, <4>4, <4>5 DEF BInv
    <3>4. CASE ~ (fMasterReplica # NULL /\ ~reading)
      <4>1. Calls' /\ ToSet(stack') = ToSet(stack) \cup {then}
        BY <1>1, <1>2, <1>3, <2>7, <3>4, PushKeepsCalls
      <4>2. ASSUME mishaps' = {}
            PROVE  Books' /\ Waits'
        <5>1. Books /\ (fMasterReplica' = NULL \/ reading')
          BY <2>4, <2>7, <3>4, <4>2
        <5>2. IndexesAgree'
          BY <2>1, <2>7, <3>1, <5>1 DEF Books, IndexesAgree, Current, Following
        <5>3. "deliver" \notin ToSet(stack')
          BY <1>2, <3>4, <4>1, <5>1 DEF Books
        <5>4. ~fInputSourceHasClosed => Given' = {}
          BY <2>1, <3>4, <5>1 DEF Books
        <5> QED
          BY <1>3, <2>4, <2>7, <3>2, <4>2, <5>1, <5>2, <5>3, <5>4 DEF Books, Waits
      <4> QED
        BY <2>2, <4>1, <4>2 DEF BInv
    <3> QED
      BY <3>3, <3>4
  <2> QED
    BY <1>5, <2>6, <2>7 DEF DeactivateStreamReplica
<1> QED
  BY <1>4, <1>5 DEF DeactivateStreamReplica

-----------------------------------------------------------------------------
\* The invariant of the book-keeping: whoever asks, stops, closes or is called
\* back inside deliverReceivedFrame(), its counts and toggles agree until a
\* mishap, and a master that waits, waits for another.
THEOREM BooksInvariant == Spec => []BInv
<1>1. ASSUME BInv, IInv', [Next]_vars
      PROVE  BInv'
  <2>1. ASSUME NEW replica \in Replicas,
               StopGettingFrames(replica) \/ CloseReplica(replica)
        PROVE  BInv'
    <3>1. \/ DeactivateStreamReplica(replica, "deactivated")
          \/ DeactivateStreamReplica(replica, "removed")
      BY <2>1 DEF StopGettingFrames, CloseReplica
    <3> QED
      BY <1>1, <3>1, DeactivatingKeepsBooks
  <2>2. ASSUME NEW replica \in Replicas, GetNextFrame(replica)
        PROVE  BInv'
    BY <1>1, <2>2, AskingKeepsBooks
  <2>3. CASE AfterGettingFrame \/ OnSourceClosure
    BY <1>1, <2>3, SourceKeepsBooks
  <2>4. CASE TellOfClosure
    BY <1>1, <2>4, TellingKeepsBooks
  <2>5. CASE DeliverToAnother
    BY <1>1, <2>5, DeliveringKeepsBooks
  <2>6. CASE DeliverToMaster
    BY <1>1, <2>6, CompletingKeepsBooks
  <2>7. CASE DeliverReturns
    BY <1>1, <2>7, ReturningKeepsBooks
  <2>8. CASE \/ \E replica \in Replicas : \/ CreateStreamReplica(replica)
                                          \/ GetNextFrameOfClosed(replica)
             \/ Deactivated \/ ProgramReturns \/ UNCHANGED vars
    BY <1>1, <2>8, CallsOnlyKeep
  <2> QED
    BY <1>1, <2>1, <2>2, <2>3, <2>4, <2>5, <2>6, <2>7, <2>8 DEF Next
<1> QED
  BY BooksInitially, Invariant, <1>1, PTL DEF Spec

\* Until a mishap, the deliveries counted are the replicas that have the frame
\* and a delivery has a master: the "Internal Errors" of deliverReceivedFrame()
\* do not happen.
THEOREM BooksAreTrue == Spec => []BooksAgree
<1>1. ASSUME BInv
      PROVE  BooksAgree
  <2>1. SUFFICES ASSUME mishaps = {}
                 PROVE  ReadForMaster /\ IndexesAgree /\ CountsAgree
    BY DEF BooksAgree
  <2>2. Books /\ Calls /\ Tally
    BY <1>1, <2>1 DEF BInv
  <2>3. ReadForMaster
    <3>1. At("deliver") => "deliver" \in ToSet(stack)
      BY <2>2, AtTop
    <3> QED
      BY <2>2, <3>1 DEF Books, ReadForMaster
  <2>4. CountsAgree
    BY <2>2 DEF Books, Tally, CountsAgree, Active, Given
  <2> QED
    BY <2>2, <2>3, <2>4 DEF Books
<1> QED
  BY BooksInvariant, <1>1, PTL

\* Until a mishap, the master of a frame that was read waits only for an active
\* replica that has yet to ask for this frame: deliverReceivedFrame() is called
\* whenever it has become due.
THEOREM MasterIsNotForgotten == Spec => []MasterWaitsForOthers
<1>1. ASSUME BInv
      PROVE  MasterWaitsForOthers
  <2>1. SUFFICES ASSUME mishaps = {}, stack = <<>>,
                        fMasterReplica # NULL, ~reading
                 PROVE  \E replica \in Replicas \ awaiting :
                           IsActive(replica) /\ ~HasCurrentFrame(replica)
    BY DEF MasterWaitsForOthers
  <2>2. IInv /\ Books /\ Tally
    BY <1>1, <2>1 DEF BInv
  <2>3. Current = <<>> /\ fNumDeliveriesMadeSoFar # fNumActiveReplicas - 1
    <3>1. ~Busy
      BY <2>1, Nothing DEF Busy
    <3> QED
      BY <1>1, <2>1, <3>1 DEF BInv, Waits
  <2>4. fMasterReplica \in Active /\ fMasterReplica \notin Given
    <3>1. fMasterReplica \in Replicas /\ IsActive(fMasterReplica)
      BY <2>1, <2>2 DEF IInv, Lists, Asked, Playing, ReplicaOrNULL
    <3>2. frameIndex[fMasterReplica] = fFrameIndex
      BY <2>1, <2>2 DEF Books, IndexesAgree
    <3> QED
      BY <3>1, <3>2 DEF Active, Given, HasCurrentFrame
  <2>5. PICK replica \in Active : replica \notin Given /\ replica # fMasterReplica
    <3>1. ASSUME Active \ {fMasterReplica} \subseteq Given
          PROVE  FALSE
      <4>1. Given = Active \ {fMasterReplica}
        BY <2>4, <3>1, Subsets
      <4>2. Cardinality(Active \ {fMasterReplica}) = Cardinality(Active) - 1
        BY <2>4, Counted, Subsets
      <4> QED
        BY <2>2, <2>3, <4>1, <4>2 DEF Books, Tally
    <3> QED
      BY <3>1
  <2>6. replica \notin awaiting
    <3>1. ToSet(Following) \subseteq Given
      BY <2>2 DEF Books, IndexesAgree, Given, Following, IInv, Lists, ToSet
    <3>2. ToSet(Current) = {}
      BY <2>3, Nothing
    <3> QED
      BY <2>2, <2>5, <3>1, <3>2 DEF IInv, Asked
  <2> QED
    BY <2>5, <2>6 DEF Active, Given
<1> QED
  BY BooksInvariant, <1>1, PTL

-----------------------------------------------------------------------------
(***************************************************************************)
(* Types.  The count of replicas stays a natural number since a replica    *)
(* that is being closed is counted until its call of                       *)
(* deactivateStreamReplica() returns, and what is copied from the master's *)
(* buffer is a frame since a delivery has a master when another waits.     *)
(***************************************************************************)

\* The calls that have yet to take a replica off the count.
Removals(s) == {i \in DOMAIN s : s[i] = "removed"}
Remaining == fNumReplicas = Cardinality(alive) + Cardinality(Removals(stack))

\* Only when the source closes while deliveries are nested in what is told of it
\* may replicas be left waiting without a master, and nothing is delivered then.
MasterKnown ==
    Current # <<>> /\ fMasterReplica = NULL
        => fInputSourceHasClosed /\ "deliver" \notin ToSet(stack)

Quantities ==
    /\ {fNumDeliveriesMadeSoFar, read} \subseteq Nat
    /\ {fInputSourceHasClosed, reading, deleted} \subseteq BOOLEAN
    /\ mishaps \subseteq Mishaps
    /\ buffer \in [Replicas -> Nat] /\ given \in [Replicas -> Nat]

TInv == Quantities /\ Remaining /\ MasterKnown

\* One call more, or less, to take a replica off the count.
LEMMA RemovalsPushed ==
  ASSUME NEW s \in Seq(Points), NEW p \in Points
  PROVE  /\ Cardinality(Removals(s)) \in Nat
         /\ Cardinality(Removals(Append(s, p)))
                = Cardinality(Removals(s)) + (IF p = "removed" THEN 1 ELSE 0)
<1> DEFINE r == Append(s, p)
           n == Len(s)
<1>1. /\ n \in Nat /\ DOMAIN r = 1 .. n + 1 /\ DOMAIN s = 1 .. n
      /\ r[n + 1] = p /\ \A i \in 1 .. n : r[i] = s[i]
  OBVIOUS
<1> HIDE DEF r, n
<1>2. Removals(r) = IF p = "removed" THEN Removals(s) \cup {n + 1} ELSE Removals(s)
  BY <1>1 DEF Removals
<1>3. n + 1 \notin Removals(s) /\ Removals(s) \subseteq 1 .. n
  BY <1>1 DEF Removals
<1>4. IsFiniteSet(1 .. n)
  BY <1>1, FS_Interval
<1>5. IsFiniteSet(Removals(s))
  BY <1>3, <1>4, FS_Subset
<1>6. Cardinality(Removals(s)) \in Nat
  BY <1>5, FS_CardinalityType
<1>7. Cardinality(Removals(s) \cup {n + 1}) = Cardinality(Removals(s)) + 1
  BY <1>3, <1>5, FS_AddElement
<1> QED
  BY <1>2, <1>6, <1>7 DEF r

\* A stack is its innermost call on top of the others.
LEMMA Topped ==
  ASSUME NEW s \in Seq(Points), s # <<>>
  PROVE  Front(s) \in Seq(Points) /\ Last(s) \in Points /\ s = Append(Front(s), Last(s))
<1> DEFINE t == Front(s)
           n == Len(s) - 1
<1>1. /\ Len(s) \in Nat \ {0} /\ DOMAIN s = 1 .. Len(s) /\ n \in Nat /\ Len(s) = n + 1
      /\ \A i \in 1 .. Len(s) : s[i] \in Points
  BY EmptySeq
<1>2. t = SubSeq(s, 1, n)
  BY DEF Front
<1> HIDE DEF n, t
<1>3. \A i \in 1 .. n : s[i] \in Points
  BY <1>1
<1>4. /\ t \in Seq(Points) /\ Len(t) = IF 1 <= n THEN n - 1 + 1 ELSE 0
      /\ \A i \in 1 .. n - 1 + 1 : t[i] = s[1 + i - 1]
  BY <1>1, <1>2, <1>3, SubSeqProperties
<1>5. Len(t) = n
  BY <1>1, <1>4
<1>6. \A i \in 1 .. n : t[i] = s[i]
  <2>1. \A i \in 1 .. n : i \in 1 .. n - 1 + 1 /\ 1 + i - 1 = i
    BY <1>1
  <2> QED
    BY <1>4, <2>1
<1>7. Last(s) = s[n + 1] /\ Last(s) \in Points
  BY <1>1 DEF Last
<1>8. s = Append(t, Last(s))
  <2> DEFINE r == Append(t, Last(s))
  <2>1. /\ r \in Seq(Points) /\ Len(r) = n + 1
        /\ r[n + 1] = Last(s) /\ \A i \in 1 .. n : r[i] = t[i]
    BY <1>1, <1>4, <1>5, <1>7
  <2> HIDE DEF r
  <2>2. \A i \in 1 .. n + 1 : r[i] = s[i]
    BY <1>1, <1>6, <1>7, <2>1
  <2>3. Len(r) = Len(s)
    BY <1>1, <2>1
  <2>4. \A i \in 1 .. Len(r) : r[i] = s[i]
    BY <1>1, <2>1, <2>2
  <2>5. r = s
    BY <2>1, <2>3, <2>4, SeqEqual
  <2> QED
    BY <2>5 DEF r
<1> QED
  BY <1>4, <1>7, <1>8 DEF t

\* The innermost call returns, and its removals with it.
LEMMA RemovalsPopped ==
  ASSUME Calls, NEW p, At(p)
  PROVE  /\ Returned \in Seq(Points)
         /\ Cardinality(Removals(Returned)) \in Nat
         /\ Cardinality(Removals(stack))
                = Cardinality(Removals(Returned)) + (IF p = "removed" THEN 1 ELSE 0)
<1>1. stack \in Seq(Points) /\ stack # <<>> /\ Last(stack) = p
  BY DEF Calls, At
<1>2. /\ Returned \in Seq(Points) /\ p \in Points
      /\ stack = Append(Returned, p)
  BY <1>1, Topped DEF Returned
<1>3. /\ Cardinality(Removals(Returned)) \in Nat
      /\ Cardinality(Removals(Append(Returned, p)))
             = Cardinality(Removals(Returned)) + (IF p = "removed" THEN 1 ELSE 0)
  BY <1>2, RemovalsPushed
<1> QED
  BY <1>2, <1>3

\* What touches no replica, list or history keeps what it leaves the stack agrees with.
LEMMA CallsKeepMaster ==
  ASSUME MasterKnown,
         UNCHANGED <<fReplicasAwaitingCurrentFrame, fMasterReplica>>,
         fInputSourceHasClosed => fInputSourceHasClosed',
         fMasterReplica = NULL /\ "deliver" \in ToSet(stack')
             => "deliver" \in ToSet(stack)
  PROVE  MasterKnown'
BY DEF MasterKnown, Current

\* A replica is created or asks for a frame.
LEMMA AskingKeepsTypes ==
  ASSUME BInv, TInv, NEW replica \in Replicas,
         \/ CreateStreamReplica(replica) \/ GetNextFrame(replica)
         \/ GetNextFrameOfClosed(replica)
  PROVE  TInv'
<1>1. Calls /\ alive \subseteq Replicas /\ Lists
  BY DEF BInv, IInv, Playing
<1>2. CASE CreateStreamReplica(replica)
  <2>1. Quantities'
    BY <1>2 DEF CreateStreamReplica, TInv, Quantities, countVars
  <2>2. Remaining'
    <3>1. Cardinality(alive') = Cardinality(alive) + 1 /\ Cardinality(alive) \in Nat
      BY <1>1, <1>2, Counted DEF CreateStreamReplica
    <3>2. Cardinality(Removals(stack)) \in Nat
      <4>1. "program" \in Points
        BY DEF Points
      <4> QED
        BY <1>1, <4>1, RemovalsPushed DEF Calls
    <3> QED
      BY <1>2, <3>1, <3>2 DEF CreateStreamReplica, TInv, Remaining
  <2>3. MasterKnown'
    BY <1>2, CallsKeepMaster DEF CreateStreamReplica, TInv, listVars
  <2> QED
    BY <2>1, <2>2, <2>3 DEF TInv
<1>3. CASE GetNextFrame(replica)
  <2>1. Quantities'
    BY <1>3 DEF GetNextFrame, TInv, Quantities, Mishaps
  <2>2. stack' = stack \/ stack' = Append(stack, "deliver")
    BY <1>3 DEF GetNextFrame
  <2>3. Remaining'
    <3>1. "deliver" \in Points /\ stack \in Seq(Points)
      BY <1>1 DEF Points, Calls
    <3>2. Cardinality(Removals(Append(stack, "deliver"))) = Cardinality(Removals(stack)) + 0
          /\ Cardinality(Removals(stack)) \in Nat
      BY <3>1, RemovalsPushed
    <3>3. Cardinality(Removals(stack')) = Cardinality(Removals(stack))
      <4>1. Cardinality(Removals(Append(stack, "deliver"))) = Cardinality(Removals(stack))
        BY <3>2
      <4> QED
        BY <2>2, <4>1, Zenon
    <3>4. UNCHANGED <<fNumReplicas, alive>>
      BY <1>3 DEF GetNextFrame
    <3> QED
      BY <3>3, <3>4 DEF TInv, Remaining
  <2>4. MasterKnown'
    <3>1. fMasterReplica' # NULL \/ (fMasterReplica = NULL /\ fMasterReplica' = replica)
      BY <1>3 DEF GetNextFrame
    <3>2. replica # NULL
      BY ReplicatorAssumption
    <3> QED
      BY <3>1, <3>2 DEF MasterKnown
  <2> QED
    BY <2>1, <2>3, <2>4 DEF TInv
<1>4. CASE GetNextFrameOfClosed(replica)
  <2>1. Quantities'
    BY <1>4 DEF GetNextFrameOfClosed, TInv, Quantities, countVars, historyVars
  <2>2. "program" \in Points \ Closures /\ stack \in Seq(Points)
    BY <1>1 DEF Points, Closures, Calls
  <2>3. stack' = Append(stack, "program")
    BY <1>4 DEF GetNextFrameOfClosed
  <2>4. /\ Cardinality(Removals(stack')) = Cardinality(Removals(stack)) + 0
        /\ Cardinality(Removals(stack)) \in Nat
        /\ ToSet(stack') = ToSet(stack) \cup {"program"}
    BY <2>2, <2>3, RemovalsPushed, Pushed
  <2>5. Remaining' /\ MasterKnown'
    BY <1>4, <2>4, CallsKeepMaster
       DEF GetNextFrameOfClosed, TInv, Remaining, listVars
  <2> QED
    BY <2>1, <2>5 DEF TInv
<1> QED
  BY <1>2, <1>3, <1>4

\* A replica stops or is closed: one that is closed leaves "alive", and its
\* removal is on the stack.
LEMMA DeactivatingKeepsTypes ==
  ASSUME BInv, TInv, NEW replica \in Replicas,
         StopGettingFrames(replica) \/ CloseReplica(replica)
  PROVE  TInv'
<1>1. Calls /\ alive \subseteq Replicas /\ Lists /\ stack \in Seq(Points)
  BY DEF BInv, IInv, Playing, Calls
<1>2. PICK then \in {"deactivated", "removed"} :
         /\ DeactivateStreamReplica(replica, then) /\ replica \in alive
         /\ alive' = IF then = "removed" THEN alive \ {replica} ELSE alive
  BY DEF StopGettingFrames, CloseReplica
<1>3. then \in Points /\ "deliver" \in Points
  BY DEF Points
<1>4. /\ Append(stack, then) \in Seq(Points)
      /\ stack \o <<then, "deliver">> = Append(Append(stack, then), "deliver")
  BY <1>1, <1>3
<1>5. Quantities'
  <2>1. fNumDeliveriesMadeSoFar' \in Nat
    BY <1>2 DEF DeactivateStreamReplica, ForgetDelivery, TInv, Quantities, countVars
  <2>2. buffer' \in [Replicas -> Nat] /\ reading' \in BOOLEAN
    <3>1. CASE ReplaceMaster(replica)
      <4>1. Current # <<>> => Head(Current) \in Replicas
        BY <1>1 DEF Lists
      <4> QED
        BY <3>1, <4>1 DEF ReplaceMaster, TInv, Quantities, Current
    <3>2. CASE UNCHANGED <<buffer, reading>>
      BY <3>2 DEF TInv, Quantities
    <3> QED
      BY <1>2, <3>1, <3>2 DEF DeactivateStreamReplica
  <2>3. mishaps' \subseteq Mishaps
    BY <1>2 DEF DeactivateStreamReplica, Note, Mishaps, TInv, Quantities
  <2>4. UNCHANGED <<read, given, fInputSourceHasClosed, deleted>>
    BY <1>2 DEF DeactivateStreamReplica
  <2> QED
    BY <2>1, <2>2, <2>3, <2>4 DEF TInv, Quantities
<1>6. \/ stack' = stack /\ then # "removed"
      \/ stack' = Append(stack, then)
      \/ stack' = Append(Append(stack, then), "deliver") /\ fMasterReplica # NULL
  BY <1>2, <1>4 DEF DeactivateStreamReplica
<1>7. Remaining'
  <2> DEFINE m == Cardinality(Removals(stack))
             k == IF then = "removed" THEN 1 ELSE 0
  <2>1. /\ m \in Nat /\ Cardinality(Removals(Append(stack, then))) = m + k
        /\ Cardinality(Removals(Append(Append(stack, then), "deliver"))) = m + k + 0
    <3>1. m \in Nat /\ Cardinality(Removals(Append(stack, then))) = m + k
      BY <1>1, <1>3, RemovalsPushed
    <3>2. Cardinality(Removals(Append(Append(stack, then), "deliver")))
              = Cardinality(Removals(Append(stack, then))) + 0
      BY <1>3, <1>4, RemovalsPushed
    <3> QED
      BY <3>1, <3>2
  <2>2. Cardinality(Removals(stack')) = m + k
    <3>1. CASE stack' = stack /\ then # "removed"
      <4>1. Cardinality(Removals(stack')) = m
        BY <3>1, Zenon
      <4> QED
        BY <2>1, <3>1, <4>1
    <3>2. CASE stack' = Append(stack, then)
      BY <2>1, <3>2, Zenon
    <3>3. CASE stack' = Append(Append(stack, then), "deliver")
      <4>1. Cardinality(Removals(stack')) = m + k + 0
        BY <2>1, <3>3, Zenon
      <4> QED
        BY <2>1, <4>1
    <3> QED
      BY <1>6, <3>1, <3>2, <3>3
  <2>3. Cardinality(alive) \in Nat /\ Cardinality(alive') = Cardinality(alive) - k
    BY <1>1, <1>2, Counted
  <2>4. fNumReplicas' = fNumReplicas
    BY <1>2 DEF DeactivateStreamReplica
  <2>5. fNumReplicas = Cardinality(alive) + m /\ k \in {0, 1}
    BY DEF TInv, Remaining
  <2> HIDE DEF m, k
  <2> QED
    BY <2>1, <2>2, <2>3, <2>4, <2>5 DEF Remaining
<1>8. MasterKnown'
  <2>1. fInputSourceHasClosed' = fInputSourceHasClosed
    BY <1>2 DEF DeactivateStreamReplica
  <2>2. CASE ReplaceMaster(replica)
    <3>1. CASE Current = <<>>
      BY <2>2, <3>1 DEF ReplaceMaster, MasterKnown, Current
    <3>2. CASE Current # <<>>
      <4>1. Head(Current) \in Replicas
        BY <1>1, <3>2 DEF Lists
      <4> QED
        BY <2>2, <3>2, <4>1, ReplicatorAssumption DEF ReplaceMaster, MasterKnown, Current
    <3> QED
      BY <3>1, <3>2
  <2>3. CASE fMasterReplica' = fMasterReplica /\ fMasterReplica # NULL
    BY <2>3 DEF MasterKnown
  <2>4. CASE fMasterReplica' = fMasterReplica /\ fMasterReplica = NULL
    <3>1. "deliver" \in ToSet(stack') => "deliver" \in ToSet(stack)
      <4>1. ToSet(Append(stack, then)) = ToSet(stack) \cup {then}
        BY <1>1, <1>3, Pushed
      <4>2. stack' = stack \/ stack' = Append(stack, then)
        BY <1>6, <2>4
      <4>3. "deliver" # then
        OBVIOUS
      <4>4. ToSet(stack') = ToSet(stack) \/ ToSet(stack') = ToSet(stack) \cup {then}
        BY <4>1, <4>2
      <4> QED
        BY <4>3, <4>4
    <3>2. Current # <<>> \/ Current' = <<>>
      <4>1. CASE LeaveLists(replica) /\ Current = <<>>
        <5>1. /\ Current' \in Seq(Replicas)
              /\ ToSet(Current') = ToSet(Current) \ {replica}
          BY <4>1, TakeOut DEF LeaveLists, Current, BInv, IInv, Lists, Apart
        <5>2. ToSet(Current') = {}
          BY <4>1, <5>1, Nothing
        <5> QED
          BY <5>1, <5>2, EmptyList
      <4>2. CASE Current' = Current
        BY <4>2
      <4> QED
        BY <1>2, <2>4, <4>1, <4>2, ReplicatorAssumption
           DEF DeactivateStreamReplica, listVars, Current
    <3> QED
      BY <2>1, <2>4, <3>1, <3>2 DEF TInv, MasterKnown
  <2> QED
    BY <1>2, <2>2, <2>3, <2>4 DEF DeactivateStreamReplica, listVars
<1> QED
  BY <1>5, <1>7, <1>8 DEF TInv

\* A call returns that is not a callback of the closure: a removal takes its
\* replica off the count.
LEMMA ReturningKeepsTypes ==
  ASSUME BInv, TInv, Deactivated \/ DeliverReturns \/ ProgramReturns
  PROVE  TInv'
<1>1. PICK p \in {"deactivated", "removed", "deliver", "program"} :
         /\ At(p) /\ stack' = Returned
         /\ fNumReplicas' = IF p = "removed" THEN fNumReplicas - 1 ELSE fNumReplicas
  <2>1. CASE Deactivated
    <3>1. At("removed") \/ (At("deactivated") /\ ~At("removed"))
      BY <2>1 DEF Deactivated
    <3> QED
      BY <2>1, <3>1 DEF Deactivated
  <2>2. CASE DeliverReturns
    BY <2>2 DEF DeliverReturns
  <2>3. CASE ProgramReturns
    BY <2>3 DEF ProgramReturns
  <2> QED
    BY <2>1, <2>2, <2>3
<1>2. /\ UNCHANGED <<listVars, countVars, fInputSourceHasClosed, alive, buffer, historyVars>>
      /\ {reading', deleted'} \subseteq BOOLEAN
  BY DEF Deactivated, DeliverReturns, ProgramReturns, TInv, Quantities
<1>3. Quantities'
  BY <1>2 DEF TInv, Quantities, countVars, historyVars
<1>4. Calls
  BY DEF BInv
<1>5. Remaining'
  <2>1. /\ Cardinality(Removals(Returned)) \in Nat
        /\ Cardinality(Removals(stack))
               = Cardinality(Removals(Returned)) + (IF p = "removed" THEN 1 ELSE 0)
    BY <1>1, <1>4, RemovalsPopped
  <2>2. Cardinality(alive) \in Nat
    BY Counted DEF BInv, IInv, Playing
  <2> QED
    BY <1>1, <1>2, <2>1, <2>2 DEF TInv, Remaining
<1>6. MasterKnown'
  <2>1. ToSet(stack) = ToSet(Returned) \cup {p}
    BY <1>1, <1>4, AtTop
  <2> QED
    BY <1>1, <1>2, <2>1, CallsKeepMaster DEF TInv, listVars
<1> QED
  BY <1>3, <1>5, <1>6 DEF TInv

\* The source delivers a frame, or closes.
LEMMA SourceKeepsTypes ==
  ASSUME BInv, TInv, AfterGettingFrame \/ OnSourceClosure
  PROVE  TInv'
<1>1. stack = <<>> /\ (stack' = <<"deliver">> \/ stack' = <<"closure">>)
  BY DEF AfterGettingFrame, OnSourceClosure
<1>2. Quantities'
  <2>1. CASE AfterGettingFrame
    <3>1. read' \in Nat /\ buffer \in [Replicas -> Nat]
      <4>1. read \in Nat /\ read' = read + 1
        BY <2>1 DEF AfterGettingFrame, TInv, Quantities
      <4> QED
        BY <4>1 DEF TInv, Quantities
    <3>2. buffer' = [buffer EXCEPT ![fMasterReplica] = read']
      BY <2>1 DEF AfterGettingFrame
    <3>3. buffer' \in [Replicas -> Nat]
      BY <3>1, <3>2
    <3> QED
      BY <2>1, <3>1, <3>3 DEF AfterGettingFrame, TInv, Quantities, countVars
  <2>2. CASE OnSourceClosure
    BY <2>2 DEF OnSourceClosure, TInv, Quantities, countVars, historyVars
  <2> QED
    BY <2>1, <2>2
<1>3. Removals(stack) = {} /\ Removals(stack') = {}
  BY <1>1 DEF Removals
<1>4. Remaining'
  BY <1>3 DEF AfterGettingFrame, OnSourceClosure, TInv, Remaining
<1>5. MasterKnown'
  <2>1. ToSet(<<"closure">>) = {"closure"}
    BY DEF ToSet
  <2> QED
    BY <1>1, <2>1
       DEF AfterGettingFrame, OnSourceClosure, TInv, MasterKnown, listVars, Current
<1> QED
  BY <1>2, <1>4, <1>5 DEF TInv

\* A replica is told that the source has closed: when the master is, nothing is
\* left of any delivery.
LEMMA TellingKeepsTypes ==
  ASSUME BInv, TInv, TellOfClosure
  PROVE  TInv'
<1>1. PICK p \in Closures : At(p)
  BY DEF TellOfClosure, CurrentAreTold, Closures
<1>2. Calls
  BY DEF BInv
<1>3. Returned = <<>> /\ ToSet(stack) = {p} /\ fInputSourceHasClosed
  BY <1>1, <1>2, AtTop DEF Calls
<1>4. Quantities'
  BY DEF TellOfClosure, TInv, Quantities, countVars, historyVars
<1>5. stack \in Seq(Points) /\ stack # <<>> /\ Last(stack) = p /\ p \in Points
  BY <1>1, <1>2 DEF Calls, At, Closures, Points
<1>6. stack = <<p>>
  <2>1. stack = Append(<<>>, p)
    BY <1>3, <1>5, Topped DEF Returned
  <2> QED
    BY <2>1
<1>7. stack' \in {<<>>, <<"program">>, <<p, "program">>, <<"closing", "program">>}
  BY <1>3, <1>6 DEF TellOfClosure
<1>8. Removals(stack) = {} /\ Removals(stack') = {} /\ "deliver" \notin ToSet(stack')
  BY <1>6, <1>7 DEF Removals, ToSet, Closures
<1>9. Remaining'
  BY <1>8 DEF TellOfClosure, TInv, Remaining
<1>10. MasterKnown'
  BY <1>3, <1>8 DEF TellOfClosure, MasterKnown
<1> QED
  BY <1>4, <1>9, <1>10 DEF TInv

\* A frame is delivered to a replica that waits: there is a master whose buffer
\* it is copied from.
LEMMA DeliveringKeepsTypes ==
  ASSUME BInv, TInv, DeliverToAnother
  PROVE  TInv'
<1>1. Calls /\ Lists /\ At("deliver") /\ Current # <<>>
  BY DEF BInv, IInv, DeliverToAnother, Current
<1>2. "deliver" \in ToSet(stack)
  BY <1>1, AtTop
<1>3. fMasterReplica \in Replicas /\ Head(Current) \in Replicas
  BY <1>1, <1>2 DEF TInv, MasterKnown, Lists, ReplicaOrNULL
<1>4. Quantities'
  <2>1. buffer' \in [Replicas -> Nat]
    BY <1>3 DEF DeliverToAnother, TInv, Quantities, Current
  <2>2. given' \in [Replicas -> Nat]
    BY <1>3, <2>1 DEF DeliverToAnother, TInv, Quantities, Current
  <2>3. fNumDeliveriesMadeSoFar' \in Nat
    BY DEF DeliverToAnother, TInv, Quantities
  <2> QED
    BY <2>1, <2>2, <2>3 DEF DeliverToAnother, TInv, Quantities
<1>5. Remaining'
  <2>1. "program" \in Points /\ stack \in Seq(Points)
    BY <1>1 DEF Points, Calls
  <2>2. /\ Cardinality(Removals(Append(stack, "program"))) = Cardinality(Removals(stack)) + 0
        /\ Cardinality(Removals(stack)) \in Nat
    BY <2>1, RemovalsPushed
  <2> QED
    BY <2>2 DEF DeliverToAnother, TInv, Remaining
<1>6. MasterKnown'
  BY <1>3, ReplicatorAssumption DEF DeliverToAnother, MasterKnown
<1> QED
  BY <1>4, <1>5, <1>6 DEF TInv

\* The delivery ends with its master, and those that waited for the next frame
\* have a master too.
LEMMA CompletingKeepsTypes ==
  ASSUME BInv, TInv, DeliverToMaster
  PROVE  TInv'
<1>1. Calls /\ Lists /\ At("deliver") /\ fMasterReplica \in Replicas
  BY DEF BInv, IInv, Lists, DeliverToMaster, DeliveryIsDue, ReplicaOrNULL
<1>2. Quantities'
  <2>1. given' \in [Replicas -> Nat]
    BY <1>1 DEF DeliverToMaster, TInv, Quantities
  <2>2. mishaps' \subseteq Mishaps
    BY DEF DeliverToMaster, Note, Mishaps, TInv, Quantities
  <2>3. reading' \in BOOLEAN
    BY DEF DeliverToMaster, TInv, Quantities
  <2> QED
    BY <2>1, <2>2, <2>3 DEF DeliverToMaster, ResetDeliveries, TInv, Quantities
<1>3. Remaining'
  <2>1. /\ Returned \in Seq(Points) /\ Cardinality(Removals(Returned)) \in Nat
        /\ Cardinality(Removals(stack)) = Cardinality(Removals(Returned)) + 0
    BY <1>1, RemovalsPopped
  <2>2. Cardinality(Removals(Append(Returned, "program")))
            = Cardinality(Removals(Returned)) + 0
    BY <2>1, RemovalsPushed DEF Points
  <2> QED
    BY <2>1, <2>2 DEF DeliverToMaster, TInv, Remaining
<1>4. MasterKnown'
  <2>1. Following # <<>> => Head(Following) \in Replicas
    BY <1>1 DEF Lists
  <2> QED
    BY <2>1, ReplicatorAssumption
       DEF DeliverToMaster, PassToNextFrame, MasterKnown, Current, Following
<1> QED
  BY <1>2, <1>3, <1>4 DEF TInv

\* The objects have their types, for any number of replicas and nested calls and
\* whatever mishaps have happened: no count falls below zero, and what is copied
\* from a master's buffer is copied from the buffer of a replica.
THEOREM TypeCorrect == Spec => []TypeOK
<1>1. Init => TInv
  <2> SUFFICES ASSUME Init PROVE TInv
    OBVIOUS
  <2>1. Quantities
    <3>1. /\ {fNumDeliveriesMadeSoFar, read} \subseteq Nat /\ mishaps \subseteq Mishaps
          /\ buffer \in [Replicas -> Nat] /\ given \in [Replicas -> Nat]
      BY DEF Init
    <3>2. {fInputSourceHasClosed, reading, deleted} \subseteq BOOLEAN
      BY Zenon DEF Init
    <3> QED
      BY <3>1, <3>2 DEF Quantities
  <2>2. Removals(stack) = {} /\ alive = {} /\ fNumReplicas = 0
    BY DEF Init, Removals
  <2>3. Remaining
    BY <2>2, FS_EmptySet DEF Remaining
  <2>4. MasterKnown
    BY DEF Init, MasterKnown, Current
  <2> QED
    BY <2>1, <2>3, <2>4 DEF TInv
<1>2. ASSUME BInv, TInv, [Next]_vars
      PROVE  TInv'
  <2>1. ASSUME NEW replica \in Replicas,
               \/ CreateStreamReplica(replica) \/ GetNextFrame(replica)
               \/ GetNextFrameOfClosed(replica)
        PROVE  TInv'
    BY <1>2, <2>1, AskingKeepsTypes
  <2>2. ASSUME NEW replica \in Replicas,
               StopGettingFrames(replica) \/ CloseReplica(replica)
        PROVE  TInv'
    BY <1>2, <2>2, DeactivatingKeepsTypes
  <2>3. CASE Deactivated \/ DeliverReturns \/ ProgramReturns
    BY <1>2, <2>3, ReturningKeepsTypes
  <2>4. CASE AfterGettingFrame \/ OnSourceClosure
    BY <1>2, <2>4, SourceKeepsTypes
  <2>5. CASE TellOfClosure
    BY <1>2, <2>5, TellingKeepsTypes
  <2>6. CASE DeliverToAnother
    BY <1>2, <2>6, DeliveringKeepsTypes
  <2>7. CASE DeliverToMaster
    BY <1>2, <2>7, CompletingKeepsTypes
  <2>8. CASE UNCHANGED vars
    BY <1>2, <2>8 DEF vars, listVars, countVars, historyVars, TInv, Quantities,
                      Remaining, MasterKnown, Current
  <2> QED
    BY <1>2, <2>1, <2>2, <2>3, <2>4, <2>5, <2>6, <2>7, <2>8 DEF Next
<1>3. ASSUME BInv, TInv
      PROVE  TypeOK
  <2>1. fNumActiveReplicas \in Nat
    BY <1>3, Counted, Subsets DEF BInv, Tally
  <2>2. fNumReplicas \in Nat /\ awaiting \subseteq Replicas
    <3>1. Cardinality(Removals(stack)) \in Nat
      <4>1. "program" \in Points
        BY DEF Points
      <4> QED
        BY <1>3, <4>1, RemovalsPushed DEF BInv, Calls
    <3>2. Cardinality(alive) \in Nat
      BY <1>3, Counted DEF BInv, IInv, Playing
    <3> QED
      BY <1>3, <3>1, <3>2 DEF TInv, Remaining, BInv, IInv, Playing
  <2> QED
    BY <1>3, <2>1, <2>2
       DEF TypeOK, BInv, TInv, IInv, Lists, Toggles, Playing, Calls, Quantities,
           Current, Following
<1> QED
  BY <1>1, <1>2, <1>3, BooksInvariant, PTL DEF Spec
=============================================================================
