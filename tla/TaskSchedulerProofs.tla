------------------------ MODULE TaskSchedulerProofs ------------------------
(***************************************************************************)
(* For any number of sockets, triggers, tasks, threads and nested loops:   *)
(* the types of the event loop's variables, that every socket that was     *)
(* registered is watched, and that no trigger is lost if no other thread   *)
(* raises one.                                                             *)
(*                                                                         *)
(* "Watched" is inductive by itself.  The types are not: that the trigger  *)
(* used last is a trigger depends on what each activation of SingleStep()  *)
(* looks at ("Activations"), and that an activation below the innermost    *)
(* one is inside a handler is what lets a doEventLoop() return to it.      *)
(* "Undisturbed" says that the word read by "&=~" is still the word in     *)
(* memory when it is written, which it need not be with other threads.     *)
(***************************************************************************)
EXTENDS TaskScheduler, TLAPS, SequenceTheorems, WellFoundedInduction

Descriptors == [sock : Sockets, conds : SUBSET Conditions]
ActivationSet == [at : HandlerPoints \cup LoopPoints, result : SUBSET Pairs,
                  trigger : Triggers \cup {NoTrigger},
                  word : SUBSET Triggers, only : BOOLEAN]

\* What EverySocketIsWatched says of a list, the sets and the first argument.
Watched ==
    /\ fHandlers \in Seq(Descriptors)
    /\ fdSet \in SUBSET Pairs
    /\ fMaxNumSockets \in Nat
    /\ EverySocketIsWatched

TriggerPoints == {"scan", "load", "store", "onlyTriggerHandler", "triggerHandler"}
IsSound(a) == a \in ActivationSet /\ (a.at \in TriggerPoints => a.trigger \in Triggers)

Activations ==
    /\ loop \in Seq(ActivationSet) /\ loop # <<>>
    /\ \A i \in 1 .. Len(loop) : IsSound(loop[i])
    /\ \A i \in 1 .. Len(loop) - 1 : loop[i].at \in HandlerPoints

Words ==
    /\ fTriggeredEventHandlers \in SUBSET Triggers
    /\ fTriggersAwaitingHandling \in SUBSET Triggers
    /\ fLastUsedTriggerNum \in Triggers
    /\ owed \in SUBSET Triggers
    /\ external \in [Threads -> {<<>>} \cup (Triggers \X SUBSET Triggers)]

Others ==
    /\ ready \in SUBSET Pairs
    /\ fLastHandledSocketNum \in Sockets \cup {-1}
    /\ sleeping \in SUBSET Alarms /\ due \in Seq(Alarms)
    /\ changes \in PlanSet

Undisturbed ==
    Threads = {} => /\ owed \subseteq fTriggersAwaitingHandling
                    /\ At("store") => Top.word = fTriggersAwaitingHandling

IInv == Watched /\ Activations /\ Words /\ Others /\ Undisturbed

-----------------------------------------------------------------------------
(***************************************************************************)
(* Lists and searches.                                                     *)
(***************************************************************************)

\* The search for a least element finds one.
LEMMA LeastIsThere ==
  ASSUME NEW S \in SUBSET Nat, S # {}
  PROVE  Min(S) \in S
<1> DEFINE Less == {ss \in Nat \X Nat : ss[1] < ss[2]}
<1>1. IsWellFoundedOn(Less, Nat)
  BY NatLessThanWellFounded DEF OpToRel
<1> HIDE DEF Less
<1>2. PICK x \in S : \A y \in S : ~ (<<y, x>> \in Less)
  BY <1>1, WFMin
<1>3. ASSUME NEW y \in S, y < x
      PROVE  FALSE
  <2>1. <<y, x>> \in Nat \X Nat
    OBVIOUS
  <2>2. <<y, x>> \in Less
    BY <1>3, <2>1 DEF Less
  <2> QED
    BY <1>2, <2>2
<1>4. \A y \in S : x <= y
  BY <1>3
<1> QED
  BY <1>4 DEF Min

\* lookupHandler() finds the descriptor of a socket, or there is none.
LEMMA Found ==
  ASSUME fHandlers \in Seq(Descriptors), NEW sock \in Sockets
  PROVE  \/ /\ LookupHandler(sock) = 0
            /\ \A i \in 1 .. Len(fHandlers) : fHandlers[i].sock # sock
         \/ /\ LookupHandler(sock) \in 1 .. Len(fHandlers)
            /\ fHandlers[LookupHandler(sock)].sock = sock
<1> DEFINE I == {i \in 1 .. Len(fHandlers) : fHandlers[i].sock = sock}
<1>1. LookupHandler(sock) = IF I # {} THEN Min(I) ELSE 0
  BY DEF LookupHandler, SelectInSeq
<1>2. CASE I = {}
  BY <1>1, <1>2
<1>3. CASE I # {}
  <2>1. I \in SUBSET Nat
    OBVIOUS
  <2>2. Min(I) \in I
    BY <1>3, <2>1, LeastIsThere
  <2> QED
    BY <1>1, <1>3, <2>2
<1> QED
  BY <1>2, <1>3

\* What is left of a list when the element at position i is removed.
LEMMA Removed ==
  ASSUME NEW S, NEW q \in Seq(S), NEW i \in 1 .. Len(q)
  PROVE  /\ RemoveAt(q, i) \in Seq(S)
         /\ Len(RemoveAt(q, i)) = Len(q) - 1
         /\ \A j \in 1 .. Len(q) - 1 :
               RemoveAt(q, i)[j] = IF j < i THEN q[j] ELSE q[j + 1]
<1> DEFINE a == SubSeq(q, 1, i - 1)
           b == SubSeq(q, i + 1, Len(q))
<1>1. /\ a \in Seq(S) /\ Len(a) = i - 1
      /\ \A j \in 1 .. i - 1 : a[j] = q[j]
  OBVIOUS
<1>2. /\ b \in Seq(S) /\ Len(b) = Len(q) - i
      /\ \A j \in 1 .. Len(q) - i : b[j] = q[i + j]
  OBVIOUS
<1>3. RemoveAt(q, i) = a \o b
  BY DEF RemoveAt
<1> HIDE DEF a, b
<1>4. /\ a \o b \in Seq(S) /\ Len(a \o b) = Len(a) + Len(b)
      /\ \A j \in 1 .. Len(a) : (a \o b)[j] = a[j]
      /\ \A j \in Len(a) + 1 .. Len(a) + Len(b) : (a \o b)[j] = b[j - Len(a)]
  <2>1. /\ a \o b \in Seq(S) /\ Len(a \o b) = Len(a) + Len(b)
        /\ \A j \in 1 .. Len(a) + Len(b) :
              (a \o b)[j] = IF j <= Len(a) THEN a[j] ELSE b[j - Len(a)]
    BY <1>1, <1>2, ConcatProperties
  <2> QED
    BY SMTT(30), <1>1, <1>2, <2>1
<1>5. ASSUME NEW j \in 1 .. Len(q) - 1
      PROVE  (a \o b)[j] = IF j < i THEN q[j] ELSE q[j + 1]
  <2>1. CASE j < i
    BY <1>1, <1>4, <2>1
  <2>2. CASE ~ (j < i)
    <3>1. j - Len(a) \in 1 .. Len(q) - i /\ i + (j - Len(a)) = j + 1
      BY <1>1, <2>2
    <3>2. b[j - Len(a)] = q[j + 1]
      BY <1>2, <3>1
    <3>3. j \in Len(a) + 1 .. Len(a) + Len(b)
      BY <1>1, <1>2, <2>2
    <3> QED
      BY <1>4, <2>2, <3>2, <3>3
  <2> QED
    BY <2>1, <2>2
<1> QED
  BY <1>1, <1>2, <1>3, <1>4, <1>5

LEMMA MaxOfTwo ==
  ASSUME NEW a \in Nat, NEW b \in Nat
  PROVE  Max({a, b}) = IF a >= b THEN a ELSE b
<1> DEFINE m == IF a >= b THEN a ELSE b
<1>1. m \in {a, b} /\ \A y \in {a, b} : m >= y
  OBVIOUS
<1>2. ASSUME NEW x \in {a, b}, \A y \in {a, b} : x >= y
      PROVE  x = m
  BY <1>2
<1> QED
  BY <1>1, <1>2 DEF Max

-----------------------------------------------------------------------------
(***************************************************************************)
(* Lists of descriptors.                                                   *)
(***************************************************************************)
Unique(list) ==
    \A i, j \in 1 .. Len(list) : list[i].sock = list[j].sock => i = j
Handles(list, s, c) ==
    \E i \in 1 .. Len(list) : list[i].sock = s /\ c \in list[i].conds

LEMMA Prepended ==
  ASSUME NEW q \in Seq(Descriptors), Unique(q), NEW h \in Descriptors,
         \A i \in 1 .. Len(q) : q[i].sock # h.sock
  PROVE  /\ <<h>> \o q \in Seq(Descriptors) /\ Unique(<<h>> \o q)
         /\ \A s \in Sockets, c \in Conditions :
               Handles(<<h>> \o q, s, c)
                 <=> Handles(q, s, c) \/ (s = h.sock /\ c \in h.conds)
<1> DEFINE r == <<h>> \o q
<1>1. /\ r \in Seq(Descriptors) /\ Len(r) = Len(q) + 1 /\ r[1] = h
      /\ \A i \in 1 .. Len(q) : r[i + 1] = q[i]
  <2>1. <<h>> \in Seq(Descriptors) /\ Len(<<h>>) = 1 /\ <<h>>[1] = h
    OBVIOUS
  <2>2. /\ r \in Seq(Descriptors) /\ Len(r) = 1 + Len(q)
        /\ \A k \in 1 .. 1 + Len(q) : r[k] = IF k <= 1 THEN <<h>>[k] ELSE q[k - 1]
    BY <2>1, ConcatProperties
  <2>3. ASSUME NEW i \in 1 .. Len(q)
        PROVE  r[i + 1] = q[i]
    <3>1. i + 1 \in 1 .. 1 + Len(q) /\ ~ (i + 1 <= 1) /\ (i + 1) - 1 = i
      OBVIOUS
    <3> QED
      BY <2>2, <3>1
  <2>4. r[1] = h
    BY <2>1, <2>2
  <2> QED
    BY <2>2, <2>3, <2>4
<1> HIDE DEF r
<1>2. ASSUME NEW i \in 1 .. Len(r)
      PROVE  (i = 1 /\ r[i] = h) \/ (i - 1 \in 1 .. Len(q) /\ r[i] = q[i - 1])
  <2>1. CASE i = 1
    BY <1>1, <2>1
  <2>2. CASE i # 1
    <3>1. i - 1 \in 1 .. Len(q) /\ (i - 1) + 1 = i
      BY <1>1, <2>2
    <3> QED
      BY <1>1, <3>1
  <2> QED
    BY <2>1, <2>2
<1>3. Unique(r)
  <2> SUFFICES ASSUME NEW i \in 1 .. Len(r), NEW j \in 1 .. Len(r),
                      r[i].sock = r[j].sock
               PROVE  i = j
    BY DEF Unique
  <2>1. CASE i = 1
    BY <1>1, <1>2, <2>1
  <2>2. CASE j = 1
    BY <1>1, <1>2, <2>2
  <2>3. CASE i # 1 /\ j # 1
    <3>1. q[i - 1].sock = q[j - 1].sock /\ i - 1 \in 1 .. Len(q) /\ j - 1 \in 1 .. Len(q)
      BY <1>2, <2>3
    <3>2. i - 1 = j - 1
      BY <3>1 DEF Unique
    <3> QED
      BY <3>2
  <2> QED
    BY <2>1, <2>2, <2>3
<1>4. ASSUME NEW s \in Sockets, NEW c \in Conditions
      PROVE  Handles(r, s, c) <=> Handles(q, s, c) \/ (s = h.sock /\ c \in h.conds)
  <2>1. ASSUME Handles(r, s, c)
        PROVE  Handles(q, s, c) \/ (s = h.sock /\ c \in h.conds)
    BY <1>2, <2>1 DEF Handles
  <2>2. ASSUME s = h.sock, c \in h.conds
        PROVE  Handles(r, s, c)
    <3>1. 1 \in 1 .. Len(r)
      BY <1>1
    <3> QED
      BY <1>1, <2>2, <3>1 DEF Handles
  <2>3. ASSUME Handles(q, s, c)
        PROVE  Handles(r, s, c)
    <3>1. PICK i \in 1 .. Len(q) : q[i].sock = s /\ c \in q[i].conds
      BY <2>3 DEF Handles
    <3>2. i + 1 \in 1 .. Len(r) /\ r[i + 1] = q[i]
      BY <1>1
    <3> QED
      BY <3>1, <3>2 DEF Handles
  <2> QED
    BY <2>1, <2>2, <2>3
<1> QED
  BY <1>1, <1>3, <1>4 DEF r

\* A descriptor is replaced by one for the same socket, or for one that has none.
LEMMA Replaced ==
  ASSUME NEW q \in Seq(Descriptors), Unique(q), NEW i \in 1 .. Len(q),
         NEW h \in Descriptors,
         \A j \in 1 .. Len(q) : j # i => q[j].sock # h.sock
  PROVE  /\ [q EXCEPT ![i] = h] \in Seq(Descriptors) /\ Unique([q EXCEPT ![i] = h])
         /\ \A s \in Sockets, c \in Conditions :
               Handles([q EXCEPT ![i] = h], s, c)
                 <=> \/ s # q[i].sock /\ Handles(q, s, c)
                     \/ s = h.sock /\ c \in h.conds
<1> DEFINE r == [q EXCEPT ![i] = h]
<1>1. /\ r \in Seq(Descriptors) /\ Len(r) = Len(q) /\ r[i] = h
      /\ \A j \in 1 .. Len(q) : j # i => r[j] = q[j]
  OBVIOUS
<1> HIDE DEF r
<1>2. Unique(r)
  BY <1>1 DEF Unique
<1>3. ASSUME NEW s \in Sockets, NEW c \in Conditions
      PROVE  Handles(r, s, c) <=> \/ s # q[i].sock /\ Handles(q, s, c)
                                  \/ s = h.sock /\ c \in h.conds
  <2>1. ASSUME Handles(r, s, c), ~ (s = h.sock /\ c \in h.conds)
        PROVE  s # q[i].sock /\ Handles(q, s, c)
    <3>1. PICK j \in 1 .. Len(q) : r[j].sock = s /\ c \in r[j].conds
      BY <1>1, <2>1 DEF Handles
    <3>2. j # i
      BY <1>1, <2>1, <3>1
    <3> QED
      BY <1>1, <3>1, <3>2 DEF Handles, Unique
  <2>2. ASSUME s = h.sock, c \in h.conds
        PROVE  Handles(r, s, c)
    BY <1>1, <2>2 DEF Handles
  <2>3. ASSUME s # q[i].sock, Handles(q, s, c)
        PROVE  Handles(r, s, c)
    BY <1>1, <2>3 DEF Handles
  <2> QED
    BY <2>1, <2>2, <2>3
<1> QED
  BY <1>1, <1>2, <1>3 DEF r

LEMMA Dropped ==
  ASSUME NEW q \in Seq(Descriptors), Unique(q), NEW i \in 1 .. Len(q)
  PROVE  /\ RemoveAt(q, i) \in Seq(Descriptors) /\ Unique(RemoveAt(q, i))
         /\ \A s \in Sockets, c \in Conditions :
               Handles(RemoveAt(q, i), s, c) <=> s # q[i].sock /\ Handles(q, s, c)
<1> DEFINE r == RemoveAt(q, i)
           Old(j) == IF j < i THEN j ELSE j + 1
<1>1. /\ r \in Seq(Descriptors) /\ Len(r) = Len(q) - 1
      /\ \A j \in 1 .. Len(q) - 1 : r[j] = q[Old(j)]
  BY Removed
<1> HIDE DEF r
<1>2. /\ \A j \in 1 .. Len(r) : Old(j) \in 1 .. Len(q) /\ Old(j) # i
      /\ \A j, k \in 1 .. Len(r) : Old(j) = Old(k) => j = k
      /\ \A k \in 1 .. Len(q) : k # i => \E j \in 1 .. Len(r) : Old(j) = k
  <2>1. ASSUME NEW k \in 1 .. Len(q), k # i
        PROVE  \E j \in 1 .. Len(r) : Old(j) = k
    <3>1. CASE k < i
      BY <1>1, <3>1
    <3>2. CASE k > i
      <4>1. k - 1 \in 1 .. Len(r) /\ Old(k - 1) = k
        BY <1>1, <3>2
      <4> QED
        BY <4>1
    <3> QED
      BY <2>1, <3>1, <3>2
  <2> QED
    BY <1>1, <2>1
<1> HIDE DEF Old
<1>3. Unique(r)
  BY <1>1, <1>2 DEF Unique
<1>4. ASSUME NEW s \in Sockets, NEW c \in Conditions
      PROVE  Handles(r, s, c) <=> s # q[i].sock /\ Handles(q, s, c)
  <2>1. ASSUME Handles(r, s, c)
        PROVE  s # q[i].sock /\ Handles(q, s, c)
    <3>1. PICK j \in 1 .. Len(r) : r[j].sock = s /\ c \in r[j].conds
      BY <2>1 DEF Handles
    <3>2. r[j] = q[Old(j)] /\ Old(j) \in 1 .. Len(q) /\ Old(j) # i
      BY <1>1, <1>2
    <3>3. q[Old(j)].sock # q[i].sock
      BY <3>2 DEF Unique
    <3> QED
      BY <3>1, <3>2, <3>3 DEF Handles
  <2>2. ASSUME s # q[i].sock, Handles(q, s, c)
        PROVE  Handles(r, s, c)
    <3>1. PICK k \in 1 .. Len(q) : q[k].sock = s /\ c \in q[k].conds
      BY <2>2 DEF Handles
    <3>2. PICK j \in 1 .. Len(r) : Old(j) = k
      BY <1>2, <2>2, <3>1
    <3>3. r[j] = q[k]
      BY <1>1, <3>2
    <3> QED
      BY <3>1, <3>3 DEF Handles
  <2> QED
    BY <2>1, <2>2
<1> QED
  BY <1>1, <1>3, <1>4 DEF r

-----------------------------------------------------------------------------
(***************************************************************************)
(* Sockets.                                                                *)
(***************************************************************************)

\* EverySocketIsWatched without comprehensions, for any list, sets and argument.
WatchedPairs(list, set, max) ==
    /\ Unique(list)
    /\ \A s \in Sockets, c \in Conditions : <<s, c>> \in set <=> Handles(list, s, c)
    /\ \A s \in Sockets, c \in Conditions : <<s, c>> \in set => s < max

LEMMA SameWatched ==
  ASSUME NEW list \in Seq(Descriptors), NEW set \in SUBSET Pairs, NEW max \in Nat
  PROVE  /\ \A i, j \in 1 .. Len(list) : list[i].sock = list[j].sock => i = j
         /\ set = UNION {{list[i].sock} \X list[i].conds : i \in 1 .. Len(list)}
         /\ set = {p \in set : p[1] < max}
         <=> WatchedPairs(list, set, max)
<1> DEFINE Registered == UNION {{list[i].sock} \X list[i].conds : i \in 1 .. Len(list)}
<1>1. Registered \in SUBSET Pairs
  <2>1. ASSUME NEW i \in 1 .. Len(list)
        PROVE  {list[i].sock} \X list[i].conds \subseteq Sockets \X Conditions
    <3>1. list[i] \in Descriptors
      OBVIOUS
    <3> QED
      BY <3>1 DEF Descriptors
  <2> QED
    BY <2>1 DEF Pairs
<1>2. \A s \in Sockets, c \in Conditions :
         <<s, c>> \in Registered
            <=> \E i \in 1 .. Len(list) : list[i].sock = s /\ c \in list[i].conds
  OBVIOUS
<1>3. set = Registered <=>
        \A s \in Sockets, c \in Conditions : <<s, c>> \in set <=> <<s, c>> \in Registered
  BY <1>1 DEF Pairs
<1>4. set = {p \in set : p[1] < max} <=>
        \A s \in Sockets, c \in Conditions : <<s, c>> \in set => s < max
  BY DEF Pairs
<1> HIDE DEF Registered
<1>5. set = Registered <=>
        \A s \in Sockets, c \in Conditions :
           <<s, c>> \in set
             <=> \E i \in 1 .. Len(list) : list[i].sock = s /\ c \in list[i].conds
  BY <1>2, <1>3
<1> QED
  BY <1>4, <1>5 DEF WatchedPairs, Registered, Unique, Handles

LEMMA WatchedNow ==
  ASSUME fHandlers \in Seq(Descriptors), fdSet \in SUBSET Pairs, fMaxNumSockets \in Nat
  PROVE  EverySocketIsWatched <=> WatchedPairs(fHandlers, fdSet, fMaxNumSockets)
BY SameWatched DEF EverySocketIsWatched, Selectable

LEMMA WatchedNext ==
  ASSUME fHandlers' \in Seq(Descriptors), fdSet' \in SUBSET Pairs, fMaxNumSockets' \in Nat
  PROVE  EverySocketIsWatched' <=> WatchedPairs(fHandlers', fdSet', fMaxNumSockets')
BY SameWatched DEF EverySocketIsWatched, Selectable

\* A socket that has a descriptor keeps it, another is given a new one in front.
LEMMA EnableKeeps ==
  ASSUME Watched, NEW sock \in Sockets, NEW conds \in SUBSET Conditions \ {{}},
         EnableHandling(sock, conds)
  PROVE  Watched'
<1> DEFINE h == [sock |-> sock, conds |-> conds]
           i == LookupHandler(sock)
<1> USE DEF Watched
<1>1. h \in Descriptors /\ h.sock = sock /\ h.conds = conds
  BY DEF Descriptors
<1>2. fMaxNumSockets' \in Nat /\ fMaxNumSockets' >= fMaxNumSockets
      /\ fMaxNumSockets' >= sock + 1
  <2>1. sock + 1 \in Nat
    BY SchedulerAssumption DEF EnableHandling, CanSelect
  <2>2. fMaxNumSockets' = Max({fMaxNumSockets, sock + 1})
    BY DEF EnableHandling
  <2> QED
    BY <2>1, <2>2, MaxOfTwo
<1>3. fdSet' = {p \in fdSet : p[1] # sock} \cup ({sock} \X conds)
  BY DEF EnableHandling, Watching
<1>4. fdSet' \in SUBSET Pairs
  BY <1>3 DEF Pairs
<1>5. WatchedPairs(fHandlers, fdSet, fMaxNumSockets)
  BY WatchedNow
<1>6. /\ fHandlers' \in Seq(Descriptors) /\ Unique(fHandlers')
      /\ \A s \in Sockets, c \in Conditions :
            Handles(fHandlers', s, c) <=> IF s = sock THEN c \in conds
                                          ELSE Handles(fHandlers, s, c)
  <2>1. CASE i = 0
    <3>1. fHandlers' = <<h>> \o fHandlers
      BY <2>1 DEF EnableHandling
    <3>2. \A k \in 1 .. Len(fHandlers) : fHandlers[k].sock # sock
      BY <2>1, Found
    <3>3. \A s \in Sockets, c \in Conditions :
             Handles(fHandlers, s, c) => s # sock
      BY <3>2 DEF Handles
    <3> HIDE DEF h
    <3> QED
      BY <1>1, <1>5, <3>1, <3>2, <3>3, Prepended DEF WatchedPairs
  <2>2. CASE i # 0
    <3>1. i \in 1 .. Len(fHandlers) /\ fHandlers[i].sock = sock
      BY <2>2, Found
    <3>2. fHandlers' = [fHandlers EXCEPT ![i] = h]
      BY <2>2 DEF EnableHandling
    <3> HIDE DEF h, i
    <3>3. \A j \in 1 .. Len(fHandlers) : j # i => fHandlers[j].sock # h.sock
      BY <1>1, <1>5, <3>1 DEF WatchedPairs, Unique
    <3>4. /\ fHandlers' \in Seq(Descriptors) /\ Unique(fHandlers')
          /\ \A s \in Sockets, c \in Conditions :
                Handles(fHandlers', s, c) <=> \/ s # fHandlers[i].sock /\ Handles(fHandlers, s, c)
                                              \/ s = h.sock /\ c \in h.conds
      <4>1. Unique(fHandlers)
        BY <1>5 DEF WatchedPairs
      <4> QED
        BY <1>1, <3>1, <3>2, <3>3, <4>1, Replaced
    <3> QED
      BY <1>1, <3>1, <3>4
  <2> QED
    BY <2>1, <2>2
<1>7. \A s \in Sockets, c \in Conditions :
         <<s, c>> \in fdSet' <=> IF s = sock THEN c \in conds ELSE <<s, c>> \in fdSet
  BY <1>3
<1>8. WatchedPairs(fHandlers', fdSet', fMaxNumSockets')
  <2>1. \A s \in Sockets, c \in Conditions : <<s, c>> \in fdSet' => s < fMaxNumSockets'
    BY <1>2, <1>5, <1>7, SchedulerAssumption DEF WatchedPairs
  <2> QED
    BY <1>5, <1>6, <1>7, <2>1 DEF WatchedPairs
<1> QED
  BY <1>2, <1>4, <1>6, <1>8, WatchedNext

\* The descriptor of a socket goes, if there is one, and fMaxNumSockets is
\* lowered by one if the socket is the largest.
LEMMA DisableKeeps ==
  ASSUME Watched, NEW sock \in Sockets, DisableHandling(sock)
  PROVE  Watched'
<1> DEFINE i == LookupHandler(sock)
<1> USE DEF Watched
<1>1. fMaxNumSockets' = IF sock + 1 = fMaxNumSockets THEN sock ELSE fMaxNumSockets
  BY DEF DisableHandling
<1>2. fdSet' = {p \in fdSet : p[1] # sock}
  BY DEF DisableHandling, Watching
<1>3. fdSet' \in SUBSET Pairs /\ fMaxNumSockets' \in Nat
  <2>1. sock \in Nat
    BY SchedulerAssumption DEF DisableHandling, CanSelect
  <2> QED
    BY <1>1, <1>2, <2>1
<1>4. WatchedPairs(fHandlers, fdSet, fMaxNumSockets)
  BY WatchedNow
<1>5. /\ fHandlers' \in Seq(Descriptors) /\ Unique(fHandlers')
      /\ \A s \in Sockets, c \in Conditions :
            Handles(fHandlers', s, c) <=> s # sock /\ Handles(fHandlers, s, c)
  <2>1. CASE i = 0
    <3>1. \A s \in Sockets, c \in Conditions : Handles(fHandlers, s, c) => s # sock
      BY <2>1, Found DEF Handles
    <3> QED
      BY <1>4, <2>1, <3>1 DEF DisableHandling, Without, WatchedPairs
  <2>2. CASE i # 0
    <3>1. i \in 1 .. Len(fHandlers) /\ fHandlers[i].sock = sock
      BY <2>2, Found
    <3>2. fHandlers' = RemoveAt(fHandlers, i)
      BY <2>2 DEF DisableHandling, Without
    <3> HIDE DEF i
    <3> QED
      BY <1>4, <3>1, <3>2, Dropped DEF WatchedPairs
  <2> QED
    BY <2>1, <2>2
<1>6. \A s \in Sockets, c \in Conditions :
         <<s, c>> \in fdSet' <=> s # sock /\ <<s, c>> \in fdSet
  BY <1>2
<1>7. WatchedPairs(fHandlers', fdSet', fMaxNumSockets')
  <2>1. \A s \in Sockets, c \in Conditions : <<s, c>> \in fdSet' => s < fMaxNumSockets'
    BY <1>1, <1>4, <1>6, SchedulerAssumption DEF WatchedPairs
  <2> QED
    BY <1>4, <1>5, <1>6, <2>1 DEF WatchedPairs
<1> QED
  BY <1>3, <1>5, <1>7, WatchedNext

\* The descriptor and the sets go over to another socket, which has none.
LEMMA MoveKeeps ==
  ASSUME Watched, NEW old \in Sockets, NEW new \in Sockets,
         ChangePort(old, new)
  PROVE  Watched'
<1> DEFINE i == LookupHandler(old)
           moved == {c \in Conditions : <<old, c>> \in fdSet}
           max == IF old + 1 = fMaxNumSockets THEN old ELSE fMaxNumSockets
<1> USE DEF Watched
<1>1. LookupHandler(new) = 0 /\ MoveSocketHandling(old, new)
  BY DEF ChangePort
<1>2. WatchedPairs(fHandlers, fdSet, fMaxNumSockets)
  BY WatchedNow
<1>3. fMaxNumSockets' \in Nat /\ fMaxNumSockets' >= max /\ fMaxNumSockets' >= new + 1
  <2>1. new + 1 \in Nat /\ max \in Nat
    BY <1>1, SchedulerAssumption DEF MoveSocketHandling, CanSelect
  <2>2. fMaxNumSockets' = Max({max, new + 1})
    BY <1>1 DEF MoveSocketHandling
  <2> QED
    BY <2>1, <2>2, MaxOfTwo
<1>4. fdSet' = {p \in fdSet : p[1] # old} \cup ({new} \X moved)
  BY <1>1 DEF MoveSocketHandling
<1>5. fdSet' \in SUBSET Pairs
  BY <1>4 DEF Pairs
<1>6. \A k \in 1 .. Len(fHandlers) : fHandlers[k].sock = new => new = old
  BY <1>1, Found
<1>7. \A s \in Sockets, c \in Conditions :
         <<s, c>> \in fdSet' <=> \/ s # old /\ Handles(fHandlers, s, c)
                                 \/ s = new /\ Handles(fHandlers, old, c)
  BY <1>2, <1>4 DEF WatchedPairs
<1>8. /\ fHandlers' \in Seq(Descriptors) /\ Unique(fHandlers')
      /\ \A s \in Sockets, c \in Conditions :
            Handles(fHandlers', s, c) <=> \/ s # old /\ Handles(fHandlers, s, c)
                                          \/ s = new /\ Handles(fHandlers, old, c)
  <2>1. CASE i = 0
    <3>1. \A k \in 1 .. Len(fHandlers) : fHandlers[k].sock # old
      BY <2>1, Found
    <3>2. \A c \in Conditions : ~Handles(fHandlers, old, c)
      BY <3>1 DEF Handles
    <3>3. fHandlers' = fHandlers
      BY <1>1, <2>1 DEF MoveSocketHandling
    <3> QED
      BY <1>2, <3>2, <3>3 DEF WatchedPairs
  <2>2. CASE i # 0
    <3> DEFINE h == [sock |-> new, conds |-> fHandlers[i].conds]
    <3>1. i \in 1 .. Len(fHandlers) /\ fHandlers[i].sock = old
      BY <2>2, Found
    <3>2. fHandlers' = [fHandlers EXCEPT ![i].sock = new]
      BY <1>1, <2>2 DEF MoveSocketHandling
    <3> HIDE DEF i
    <3>3. fHandlers[i] \in Descriptors
      BY <3>1
    <3>4. /\ h \in Descriptors /\ h.sock = new /\ h.conds = fHandlers[i].conds
          /\ [fHandlers[i] EXCEPT !.sock = new] = h
      BY <3>3 DEF Descriptors
    <3>5. fHandlers' = [fHandlers EXCEPT ![i] = h]
      BY <3>2, <3>4
    <3>6. \A j \in 1 .. Len(fHandlers) : j # i => fHandlers[j].sock # new
      BY <1>2, <1>6, <3>1 DEF WatchedPairs, Unique
    <3>7. \A c \in Conditions : Handles(fHandlers, old, c) <=> c \in fHandlers[i].conds
      BY <1>2, <3>1 DEF WatchedPairs, Unique, Handles
    <3> HIDE DEF h
    <3>8. /\ fHandlers' \in Seq(Descriptors) /\ Unique(fHandlers')
          /\ \A s \in Sockets, c \in Conditions :
                Handles(fHandlers', s, c) <=> \/ s # fHandlers[i].sock /\ Handles(fHandlers, s, c)
                                              \/ s = h.sock /\ c \in h.conds
      <4>1. Unique(fHandlers)
        BY <1>2 DEF WatchedPairs
      <4> QED
        BY <3>1, <3>4, <3>5, <3>6, <4>1, Replaced
    <3> QED
      BY <3>1, <3>4, <3>7, <3>8
  <2> QED
    BY <2>1, <2>2
<1>9. \A s \in Sockets, c \in Conditions : <<s, c>> \in fdSet' => s < fMaxNumSockets'
  BY <1>2, <1>3, <1>7, SchedulerAssumption DEF WatchedPairs
<1> QED
  BY <1>3, <1>5, <1>7, <1>8, <1>9, WatchedNext DEF WatchedPairs

-----------------------------------------------------------------------------
(***************************************************************************)
(* The stack of activations.                                               *)
(***************************************************************************)

LEMMA TopIsSound ==
  ASSUME Activations
  PROVE  /\ Top = loop[Len(loop)] /\ Len(loop) \in Nat \ {0}
         /\ Top \in ActivationSet /\ IsSound(Top)
<1>1. Len(loop) \in Nat \ {0}
  BY DEF Activations
<1> QED
  BY <1>1 DEF Activations, Top, Last, IsSound

\* The innermost activation is changed.
LEMMA SetKeeps ==
  ASSUME Activations, NEW a, IsSound(a), Set(a)
  PROVE  Activations' /\ Top' = a
<1>1. Len(loop) \in Nat \ {0} /\ loop \in Seq(ActivationSet)
  BY DEF Activations
<1>2. a \in ActivationSet
  BY DEF IsSound
<1>3. /\ loop' \in Seq(ActivationSet) /\ Len(loop') = Len(loop)
      /\ \A i \in 1 .. Len(loop) : loop'[i] = IF i = Len(loop) THEN a ELSE loop[i]
  BY <1>1, <1>2, ExceptSeq DEF Set
<1>4. Top' = a
  BY <1>1, <1>3 DEF Top, Last
<1>5. loop' # <<>>
  BY <1>1, <1>3
<1>6. \A i \in 1 .. Len(loop') : IsSound(loop'[i])
  BY <1>3 DEF Activations
<1>7. \A i \in 1 .. Len(loop') - 1 : loop'[i].at \in HandlerPoints
  BY <1>1, <1>3 DEF Activations
<1> QED
  BY <1>3, <1>4, <1>5, <1>6, <1>7 DEF Activations

\* Only where the innermost activation is changes.
LEMMA GoToKeeps ==
  ASSUME Activations, NEW point \in HandlerPoints \cup LoopPoints, GoTo(point),
         point \in TriggerPoints => Top.trigger \in Triggers
  PROVE  Activations' /\ Top'.at = point
<1> DEFINE a == [Top EXCEPT !.at = point]
<1>1. Set(a)
  BY TopIsSound DEF GoTo, Set
<1>2. a \in ActivationSet /\ a.at = point /\ a.trigger = Top.trigger
  BY TopIsSound DEF ActivationSet
<1>3. IsSound(a)
  BY <1>2 DEF IsSound
<1> HIDE DEF a
<1> QED
  BY <1>1, <1>2, <1>3, SetKeeps

\* doEventLoop() inside a handler, and its return.
LEMMA NestingKeeps ==
  ASSUME Activations, EnterEventLoop \/ LeaveEventLoop
  PROVE  Activations' /\ Top'.at # "store"
<1>1. Len(loop) \in Nat \ {0} /\ loop \in Seq(ActivationSet)
  BY DEF Activations
<1>2. CASE EnterEventLoop
  <2> DEFINE a == Activation("select")
  <2>1. a \in ActivationSet /\ a.at = "select"
    BY DEF Activation, ActivationSet, HandlerPoints, LoopPoints, NoTrigger
  <2>2. IsSound(a)
    BY <2>1 DEF IsSound, TriggerPoints
  <2> HIDE DEF a
  <2>3. loop' = Append(loop, a)
    BY <1>2 DEF EnterEventLoop, a
  <2>4. /\ loop' \in Seq(ActivationSet) /\ loop' # <<>> /\ Len(loop') = Len(loop) + 1
        /\ \A i \in 1 .. Len(loop) : loop'[i] = loop[i]
        /\ loop'[Len(loop) + 1] = a
    BY <1>1, <2>1, <2>3, AppendProperties
  <2>5. loop[Len(loop)].at \in HandlerPoints
    BY <1>2, TopIsSound DEF EnterEventLoop, InHandler
  <2>6. \A i \in 1 .. Len(loop') : IsSound(loop'[i])
    BY <1>1, <2>2, <2>4 DEF Activations
  <2>7. \A i \in 1 .. Len(loop') - 1 : loop'[i].at \in HandlerPoints
    BY <1>1, <2>4, <2>5 DEF Activations
  <2>8. Top' = a
    BY <2>4 DEF Top, Last
  <2> QED
    BY <2>1, <2>4, <2>6, <2>7, <2>8 DEF Activations
<1>3. CASE LeaveEventLoop
  <2>1. Len(loop) - 1 \in Nat \ {0} /\ loop' = SubSeq(loop, 1, Len(loop) - 1)
    BY <1>1, <1>3 DEF LeaveEventLoop, Front
  <2>2. /\ loop' \in Seq(ActivationSet) /\ Len(loop') = Len(loop) - 1
        /\ \A i \in 1 .. Len(loop) - 1 : loop'[i] = loop[i]
    <3>1. \A i \in 1 .. Len(loop) - 1 : loop[i] \in ActivationSet
      BY <1>1
    <3>2. \A i \in 1 .. Len(loop) - 1 : 1 + i - 1 = i
      BY <1>1
    <3>3. \A n \in Nat \ {0} : n - 1 + 1 = n /\ 1 <= n
      OBVIOUS
    <3>4. Len(loop) - 1 \in Int /\ 1 \in Int
      BY <1>1
    <3> DEFINE n == Len(loop) - 1
    <3> HIDE DEF n
    <3>5. /\ SubSeq(loop, 1, n) \in Seq(ActivationSet)
          /\ Len(SubSeq(loop, 1, n)) = IF 1 <= n THEN n - 1 + 1 ELSE 0
          /\ \A i \in 1 .. n - 1 + 1 : SubSeq(loop, 1, n)[i] = loop[1 + i - 1]
      BY <3>1, <3>4, SubSeqProperties DEF n
    <3> QED
      BY <2>1, <3>2, <3>3, <3>5 DEF n
  <2>3. loop' # <<>>
    BY <2>1, <2>2
  <2>4. \A i \in 1 .. Len(loop') : IsSound(loop'[i]) /\ loop'[i].at \in HandlerPoints
    BY <1>1, <2>2 DEF Activations
  <2>5. Top'.at \in HandlerPoints
    BY <2>1, <2>2, <2>4 DEF Top, Last
  <2>6. Activations'
    BY <2>1, <2>2, <2>3, <2>4 DEF Activations
  <2> QED
    BY <2>5, <2>6 DEF HandlerPoints
<1> QED
  BY <1>2, <1>3

\* The list without an alarm.
LEMMA AlarmRemoved ==
  ASSUME NEW q \in Seq(Alarms), NEW task
  PROVE  RemoveFirst(q, task) \in Seq(Alarms)
<1> DEFINE I == {i \in 1 .. Len(q) : q[i] = task}
<1>1. CASE I = {}
  BY <1>1 DEF RemoveFirst
<1>2. CASE I # {}
  <2>1. SelectInSeq(q, LAMBDA v : v = task) = Min(I)
    BY <1>2 DEF SelectInSeq
  <2>2. I \in SUBSET Nat
    OBVIOUS
  <2>3. Min(I) \in I
    BY <1>2, <2>2, LeastIsThere
  <2>4. RemoveFirst(q, task) = RemoveAt(q, Min(I))
    BY <1>2, <2>1 DEF RemoveFirst
  <2> HIDE DEF I
  <2>5. Min(I) \in 1 .. Len(q)
    BY <2>3 DEF I
  <2> QED
    BY <2>4, <2>5, Removed
<1> QED
  BY <1>1, <1>2

\* The search for a handler ends at a descriptor of the list.
LEMMA NextHandlerIsThere ==
  ASSUME Callable # {}
  PROVE  NextHandler \in 1 .. Len(fHandlers)
<1> DEFINE past == {i \in Callable : i > LookupHandler(fLastHandledSocketNum)}
<1>1. Callable \in SUBSET Nat /\ past \in SUBSET Nat
  BY DEF Callable
<1>2. Min(Callable) \in Callable
  BY <1>1, LeastIsThere
<1>3. past # {} => Min(past) \in past
  BY <1>1, LeastIsThere
<1>4. NextHandler \in Callable
  BY <1>2, <1>3 DEF NextHandler
<1> QED
  BY <1>4 DEF Callable

-----------------------------------------------------------------------------
(***************************************************************************)
(* Steps.                                                                  *)
(***************************************************************************)

\* What a step of the loop or the environment leaves alone.
LEMMA WatchedStays ==
  ASSUME Watched, UNCHANGED <<fdSet, fHandlers, fMaxNumSockets>>
  PROVE  Watched'
BY DEF Watched, EverySocketIsWatched, Selectable

Inner == Activations /\ Words /\ Others /\ Undisturbed

LEMMA SingleStepKeeps ==
  ASSUME Watched, Inner, SingleStep \/ SelectInterrupted
  PROVE  Watched' /\ Inner'
<1>1. Top \in ActivationSet /\ IsSound(Top)
  BY TopIsSound DEF Inner
<1>2. \A a : IsSound(a) /\ Set(a) => Activations' /\ Top' = a
  BY SetKeeps DEF Inner
<1>3. \A point \in HandlerPoints \cup LoopPoints :
         GoTo(point) /\ (point \in TriggerPoints => Top.trigger \in Triggers)
            => Activations' /\ Top'.at = point
  BY GoToKeeps DEF Inner
<1>4. IsSound(Activation("select")) /\ Activation("select").at = "select"
  BY DEF IsSound, Activation, ActivationSet, LoopPoints, TriggerPoints, NoTrigger
<1>5. CASE Select
  <2> DEFINE a == [Top EXCEPT !.at = "sockets", !.result = Selectable \cap ready]
  <2>1. Selectable \cap ready \in SUBSET Pairs
    BY DEF Inner, Others
  <2>2. a \in ActivationSet /\ a.at = "sockets"
    BY <1>1, <2>1 DEF ActivationSet, LoopPoints
  <2>3. IsSound(a)
    BY <2>2 DEF IsSound, TriggerPoints
  <2> HIDE DEF a
  <2>4. Activations' /\ Top' = a
    BY <1>2, <1>5, <2>3 DEF Select, a
  <2>5. Others' /\ Words'
    BY <1>5 DEF Select, socketVars, triggerVars, alarmVars, Inner, Others, Words
  <2>6. Undisturbed'
    BY <1>5, <2>2, <2>4 DEF Select, triggerVars, Inner, Undisturbed, At
  <2>7. Watched'
    BY <1>5, WatchedStays DEF Select, socketVars
  <2> QED
    BY <2>4, <2>5, <2>6, <2>7 DEF Inner
<1>6. CASE SelectInterrupted
  <2> DEFINE a == [Top EXCEPT !.at = "sockets", !.result = fdSet]
  <2>1. a \in ActivationSet /\ a.at = "sockets"
    BY <1>1 DEF ActivationSet, LoopPoints, Watched
  <2>2. IsSound(a)
    BY <2>1 DEF IsSound, TriggerPoints
  <2> HIDE DEF a
  <2>3. Activations' /\ Top' = a
    BY <1>2, <1>6, <2>2 DEF SelectInterrupted, a
  <2>4. Others' /\ Words'
    BY <1>6 DEF SelectInterrupted, socketVars, triggerVars, alarmVars, Inner, Others, Words
  <2>5. Undisturbed'
    BY <1>6, <2>1, <2>3 DEF SelectInterrupted, triggerVars, Inner, Undisturbed, At
  <2>6. Watched'
    BY <1>6, WatchedStays DEF SelectInterrupted, socketVars
  <2> QED
    BY <2>3, <2>4, <2>5, <2>6 DEF Inner
<1>7. CASE CallSocketHandler
  <2>1. Activations' /\ Top'.at = "socketHandler"
    BY <1>3, <1>7 DEF CallSocketHandler, HandlerPoints, TriggerPoints
  <2>2. fLastHandledSocketNum' \in Sockets
    <3>1. fHandlers[NextHandler] \in Descriptors
      BY <1>7, NextHandlerIsThere DEF CallSocketHandler, Watched
    <3> QED
      BY <1>7, <3>1 DEF CallSocketHandler, Descriptors
  <2>3. ready' \in SUBSET Pairs
    BY <1>7 DEF CallSocketHandler, Inner, Others
  <2>4. Others' /\ Words'
    BY <1>7, <2>2, <2>3 DEF CallSocketHandler, triggerVars, alarmVars, Inner, Others, Words
  <2>5. Undisturbed'
    BY <1>7, <2>1 DEF CallSocketHandler, triggerVars, Inner, Undisturbed, At
  <2>6. Watched'
    BY <1>7, WatchedStays DEF CallSocketHandler
  <2> QED
    BY <2>1, <2>4, <2>5, <2>6 DEF Inner
<1>8. CASE NoSocketHandler
  <2>1. Activations' /\ Top'.at = "triggers"
    BY <1>3, <1>8 DEF NoSocketHandler, LoopPoints, TriggerPoints
  <2>2. Others' /\ Words'
    BY <1>8 DEF NoSocketHandler, triggerVars, alarmVars, Inner, Others, Words
  <2>3. Undisturbed'
    BY <1>8, <2>1 DEF NoSocketHandler, triggerVars, Inner, Undisturbed, At
  <2>4. Watched'
    BY <1>8, WatchedStays DEF NoSocketHandler
  <2> QED
    BY <2>1, <2>2, <2>3, <2>4 DEF Inner
<1>9. CASE LookAtTriggers
  <2>1. fLastUsedTriggerNum \in Triggers
    BY DEF Inner, Words
  <2>2. Activations' /\ Top'.at # "store"
    <3>1. CASE GoTo("alarms")
      BY <1>3, <3>1 DEF LoopPoints, TriggerPoints
    <3>2. ASSUME NEW point \in {"load", "scan"}, NEW only \in BOOLEAN,
                 Set([Top EXCEPT !.at = point, !.only = only,
                                 !.trigger = fLastUsedTriggerNum])
          PROVE  Activations' /\ Top'.at # "store"
      <4> DEFINE a == [Top EXCEPT !.at = point, !.only = only,
                                  !.trigger = fLastUsedTriggerNum]
      <4>1. a \in ActivationSet /\ a.at = point /\ a.trigger = fLastUsedTriggerNum
        BY <1>1, <2>1 DEF ActivationSet, LoopPoints
      <4>2. IsSound(a)
        BY <2>1, <4>1 DEF IsSound
      <4> HIDE DEF a
      <4>3. Activations' /\ Top' = a
        BY <1>2, <3>2, <4>2 DEF a
      <4> QED
        BY <4>1, <4>3
    <3>3. \/ GoTo("alarms")
          \/ Set([Top EXCEPT !.at = "load", !.only = TRUE, !.trigger = fLastUsedTriggerNum])
          \/ Set([Top EXCEPT !.at = "scan", !.only = FALSE, !.trigger = fLastUsedTriggerNum])
      BY <1>9, Zenon DEF LookAtTriggers
    <3> QED
      BY <3>1, <3>2, <3>3
  <2>3. Others' /\ Words'
    BY <1>9 DEF LookAtTriggers, socketVars, triggerVars, alarmVars, Inner, Others, Words
  <2>4. Undisturbed'
    BY <1>9, <2>2 DEF LookAtTriggers, triggerVars, Inner, Undisturbed, At
  <2>5. Watched'
    BY <1>9, WatchedStays DEF LookAtTriggers, socketVars
  <2> QED
    BY <2>2, <2>3, <2>4, <2>5 DEF Inner
<1>10. CASE ScanTriggers
  <2> DEFINE i == (Top.trigger + 1) % NumTriggers
             point == IF i \in fTriggersAwaitingHandling THEN "load"
                      ELSE IF i = fLastUsedTriggerNum THEN "alarms" ELSE "scan"
             a == [Top EXCEPT !.trigger = i, !.at = point]
  <2>1. Top.trigger \in Triggers
    BY <1>1, <1>10 DEF ScanTriggers, At, IsSound, TriggerPoints
  <2>2. i \in Triggers
    BY <2>1, SchedulerAssumption DEF Triggers
  <2>3. point \in {"load", "alarms", "scan"}
    OBVIOUS
  <2> HIDE DEF i, point
  <2>4. a \in ActivationSet /\ a.at = point /\ a.trigger = i
    BY <1>1, <2>2, <2>3 DEF ActivationSet, LoopPoints
  <2>5. IsSound(a)
    BY <2>2, <2>4 DEF IsSound
  <2> HIDE DEF a
  <2>6. Activations' /\ Top' = a
    BY <1>2, <1>10, <2>5 DEF ScanTriggers, a, i, point
  <2>7. Others' /\ Words'
    BY <1>10 DEF ScanTriggers, socketVars, triggerVars, alarmVars, Inner, Others, Words
  <2>8. Undisturbed'
    BY <1>10, <2>3, <2>4, <2>6 DEF ScanTriggers, triggerVars, Inner, Undisturbed, At
  <2>9. Watched'
    BY <1>10, WatchedStays DEF ScanTriggers, socketVars
  <2> QED
    BY <2>6, <2>7, <2>8, <2>9 DEF Inner
<1>11. CASE LoadTriggers
  <2> DEFINE a == [Top EXCEPT !.at = "store", !.word = fTriggersAwaitingHandling]
  <2>1. Top.trigger \in Triggers
    BY <1>1, <1>11 DEF LoadTriggers, At, IsSound, TriggerPoints
  <2>2. fTriggersAwaitingHandling \in SUBSET Triggers
    BY DEF Inner, Words
  <2>3. /\ a \in ActivationSet /\ a.trigger = Top.trigger
        /\ a.word = fTriggersAwaitingHandling
    BY <1>1, <2>2 DEF ActivationSet, LoopPoints
  <2>4. IsSound(a)
    BY <2>1, <2>3 DEF IsSound
  <2> HIDE DEF a
  <2>5. Activations' /\ Top' = a
    BY <1>2, <1>11, <2>4 DEF LoadTriggers, a
  <2>6. Others' /\ Words'
    BY <1>11 DEF LoadTriggers, socketVars, triggerVars, alarmVars, Inner, Others, Words
  <2>7. Undisturbed'
    BY <1>11, <2>3, <2>5 DEF LoadTriggers, triggerVars, Inner, Undisturbed, At
  <2>8. Watched'
    BY <1>11, WatchedStays DEF LoadTriggers, socketVars
  <2> QED
    BY <2>5, <2>6, <2>7, <2>8 DEF Inner
<1>12. CASE StoreTriggers
  <2>1. Top.trigger \in Triggers /\ Top.word \in SUBSET Triggers /\ At("store")
    BY <1>1, <1>12 DEF StoreTriggers, At, IsSound, TriggerPoints, ActivationSet
  <2>2. GoTo("onlyTriggerHandler") \/ GoTo("triggerHandler") \/ GoTo("alarms")
    BY <1>12 DEF StoreTriggers
  <2>3. Activations' /\ Top'.at # "store"
    BY <1>3, <2>1, <2>2 DEF HandlerPoints, LoopPoints
  <2>4. fLastUsedTriggerNum' \in {fLastUsedTriggerNum, Top.trigger}
    BY <1>12 DEF StoreTriggers
  <2>5. Others' /\ Words'
    BY <1>12, <2>1, <2>4 DEF StoreTriggers, socketVars, alarmVars, Inner, Others, Words
  <2>6. Undisturbed'
    BY <1>12, <2>1, <2>3 DEF StoreTriggers, Inner, Undisturbed, At
  <2>7. Watched'
    BY <1>12, WatchedStays DEF StoreTriggers, socketVars
  <2> QED
    BY <2>3, <2>5, <2>6, <2>7 DEF Inner
<1>13. CASE NoAlarm \/ TickAlarm \/ TaskAlarm
  <2>1. Activations' /\ Top'.at # "store"
    <3>1. CASE Set(Activation("select"))
      BY <1>2, <1>4, <3>1
    <3>2. CASE GoTo("alarmHandler")
      BY <1>3, <3>2 DEF HandlerPoints, TriggerPoints
    <3> QED
      BY <1>13, <3>1, <3>2 DEF NoAlarm, TickAlarm, TaskAlarm
  <2>2. due' \in Seq(Alarms)
    BY <1>13, HeadTailProperties
       DEF NoAlarm, TickAlarm, TaskAlarm, alarmVars, Inner, Others
  <2>3. sleeping' \in SUBSET Alarms
    BY <1>13 DEF NoAlarm, TickAlarm, TaskAlarm, alarmVars, Inner, Others, Alarms
  <2>4. /\ UNCHANGED <<socketVars, triggerVars, external, changes>>
    BY <1>13 DEF NoAlarm, TickAlarm, TaskAlarm
  <2>5. Others' /\ Words'
    BY <2>2, <2>3, <2>4 DEF socketVars, triggerVars, Inner, Others, Words
  <2>6. Undisturbed'
    BY <2>1, <2>4 DEF triggerVars, Inner, Undisturbed, At
  <2>7. Watched'
    BY <2>4, WatchedStays DEF socketVars
  <2> QED
    BY <2>1, <2>5, <2>6, <2>7 DEF Inner
<1> QED
  BY <1>5, <1>6, <1>7, <1>8, <1>9, <1>10, <1>11, <1>12, <1>13 DEF SingleStep

\* How a handler ends, and how doEventLoop() is entered and left.
LEMMA ControlKeeps ==
  ASSUME Watched, Inner, HandlerReturns \/ EnterEventLoop \/ LeaveEventLoop
  PROVE  Watched' /\ Inner'
<1>1. Top \in ActivationSet /\ IsSound(Top)
  BY TopIsSound DEF Inner
<1>2. CASE HandlerReturns
  <2>1. Set(Activation("select")) \/ GoTo("triggers") \/ GoTo("alarms")
    BY <1>2 DEF HandlerReturns, InHandler, HandlerPoints
  <2>2. Activations' /\ Top'.at # "store"
    <3>1. CASE Set(Activation("select"))
      <4>1. IsSound(Activation("select")) /\ Activation("select").at = "select"
        BY DEF IsSound, Activation, ActivationSet, LoopPoints, TriggerPoints, NoTrigger
      <4> QED
        BY <3>1, <4>1, SetKeeps DEF Inner
    <3>2. CASE GoTo("triggers")
      BY <3>2, GoToKeeps DEF Inner, LoopPoints, TriggerPoints
    <3>3. CASE GoTo("alarms")
      BY <3>3, GoToKeeps DEF Inner, LoopPoints, TriggerPoints
    <3> QED
      BY <2>1, <3>1, <3>2, <3>3
  <2>3. fLastUsedTriggerNum' \in Triggers
    BY <1>1, <1>2 DEF HandlerReturns, IsSound, TriggerPoints, Inner, Words
  <2>4. Others' /\ Words'
    BY <1>2, <2>3 DEF HandlerReturns, socketVars, alarmVars, Inner, Others, Words
  <2>5. Undisturbed'
    BY <1>2, <2>2 DEF HandlerReturns, Inner, Undisturbed, At
  <2>6. Watched'
    BY <1>2, WatchedStays DEF HandlerReturns, socketVars
  <2> QED
    BY <2>2, <2>4, <2>5, <2>6 DEF Inner
<1>3. CASE EnterEventLoop \/ LeaveEventLoop
  <2>1. Activations' /\ Top'.at # "store"
    BY <1>3, NestingKeeps DEF Inner
  <2>2. UNCHANGED <<socketVars, triggerVars, alarmVars, external, changes>>
    BY <1>3 DEF EnterEventLoop, LeaveEventLoop
  <2>3. Others' /\ Words'
    BY <2>2 DEF socketVars, triggerVars, alarmVars, Inner, Others, Words
  <2>4. Undisturbed'
    BY <2>1, <2>2 DEF triggerVars, Inner, Undisturbed, At
  <2>5. Watched'
    BY <2>2, WatchedStays DEF socketVars
  <2> QED
    BY <2>1, <2>3, <2>4, <2>5 DEF Inner
<1> QED
  BY <1>2, <1>3

\* What a handler calls.  It leaves the stack alone, and while it runs no
\* "&=~" is under way in the loop's thread.
LEMMA CallKeeps ==
  ASSUME Watched, Inner, HandlerCalls
  PROVE  Watched' /\ Inner'
<1>1. /\ Activations /\ UNCHANGED loop => Activations' /\ Top' = Top
      /\ InHandler => Top.at # "store"
  BY DEF Activations, Top, InHandler, HandlerPoints
<1>2. \A kind : Change(kind) => /\ UNCHANGED <<ready, fLastHandledSocketNum, loop, external>>
                               /\ changes' \in PlanSet /\ Top.at # "store"
  <2>1. changes \in PlanSet
    BY DEF Inner, Others
  <2>2. changes.left # 0 /\ changes.left # NoEnd => changes.left - 1 \in 0 .. MaxChanges
    BY <2>1, SchedulerAssumption DEF PlanSet
  <2> QED
    BY <1>1, <2>1, <2>2 DEF Change, PlanSet
<1>3. ASSUME NEW sock \in Sockets, NEW conds \in SUBSET Conditions \ {{}},
             EnableHandling(sock, conds)
      PROVE  Watched' /\ Inner'
  <2>1. Watched'
    BY <1>3, EnableKeeps
  <2>2. Change("sockets") /\ UNCHANGED <<triggerVars, alarmVars>>
    BY <1>3 DEF EnableHandling
  <2> QED
    BY <1>1, <1>2, <2>1, <2>2
       DEF triggerVars, alarmVars, Inner, Others, Words, Undisturbed, At
<1>4. ASSUME NEW sock \in Sockets, DisableHandling(sock)
      PROVE  Watched' /\ Inner'
  <2>1. Watched'
    BY <1>4, DisableKeeps
  <2>2. Change("sockets") /\ UNCHANGED <<triggerVars, alarmVars>>
    BY <1>4 DEF DisableHandling
  <2> QED
    BY <1>1, <1>2, <2>1, <2>2
       DEF triggerVars, alarmVars, Inner, Others, Words, Undisturbed, At
<1>5. ASSUME NEW old \in Sockets, NEW new \in Sockets, ChangePort(old, new)
      PROVE  Watched' /\ Inner'
  <2>1. Watched'
    BY <1>5, MoveKeeps
  <2>2. Change("sockets") /\ UNCHANGED <<triggerVars, alarmVars>>
    BY <1>5 DEF ChangePort, MoveSocketHandling
  <2> QED
    BY <1>1, <1>2, <2>1, <2>2
       DEF triggerVars, alarmVars, Inner, Others, Words, Undisturbed, At
<1>6. CASE CreateEventTrigger
  <2>1. Change("triggers") /\ UNCHANGED <<fdSet, fHandlers, fMaxNumSockets, alarmVars, owed,
                              fTriggersAwaitingHandling>>
    BY <1>6 DEF CreateEventTrigger
  <2>2. /\ fTriggeredEventHandlers' \in SUBSET Triggers
        /\ fLastUsedTriggerNum' \in Triggers
    BY <1>6 DEF CreateEventTrigger, Inner, Words
  <2>3. Watched'
    BY <2>1, WatchedStays
  <2> QED
    BY <1>1, <1>2, <2>1, <2>2, <2>3
       DEF alarmVars, Inner, Others, Words, Undisturbed, At
<1>7. ASSUME NEW i \in Triggers, DeleteEventTrigger(i)
      PROVE  Watched' /\ Inner'
  <2>1. Watched'
    BY <1>7, WatchedStays DEF DeleteEventTrigger
  <2> QED
    BY <1>1, <1>2, <1>7, <2>1
       DEF DeleteEventTrigger, alarmVars, Inner, Others, Words, Undisturbed, At
<1>8. ASSUME NEW i \in Triggers, TriggerEvent(i)
      PROVE  Watched' /\ Inner'
  <2>1. Watched'
    BY <1>8, WatchedStays DEF TriggerEvent, socketVars
  <2> QED
    BY <1>1, <1>8, <2>1
       DEF TriggerEvent, socketVars, alarmVars, Inner, Others, Words, Undisturbed, At
<1>9. ASSUME NEW task \in Tasks, ScheduleDelayedTask(task) \/ UnscheduleDelayedTask(task)
      PROVE  Watched' /\ Inner'
  <2>1. UNCHANGED <<socketVars, triggerVars, loop, external, changes>>
    BY <1>9 DEF ScheduleDelayedTask, UnscheduleDelayedTask
  <2>2. Watched'
    BY <2>1, WatchedStays DEF socketVars
  <2>3. task \in Alarms
    BY DEF Alarms
  <2>4. due' \in Seq(Alarms)
    BY <1>9, <2>3, AlarmRemoved, AppendProperties
       DEF ScheduleDelayedTask, UnscheduleDelayedTask, Inner, Others
  <2>5. sleeping' \in SUBSET Alarms
    BY <1>9, <2>3 DEF ScheduleDelayedTask, UnscheduleDelayedTask, Inner, Others
  <2> QED
    BY <1>1, <2>1, <2>2, <2>4, <2>5
       DEF socketVars, triggerVars, Inner, Others, Words, Undisturbed, At
<1>10. CASE EnterEventLoop
  BY <1>10, ControlKeeps
<1> QED
  BY <1>3, <1>4, <1>5, <1>6, <1>7, <1>8, <1>9, <1>10 DEF HandlerCalls

LEMMA EnvironmentKeeps ==
  ASSUME Watched, Inner, Environment
  PROVE  Watched' /\ Inner'
<1>1. Activations /\ UNCHANGED loop => Activations' /\ Top' = Top
  BY DEF Activations, Top
<1>2. ASSUME NEW sock \in Sockets, NEW cond \in Conditions, BecomesReady(sock, cond)
      PROVE  Watched' /\ Inner'
  <2>1. Watched'
    BY <1>2, WatchedStays DEF BecomesReady
  <2>2. ready' \in SUBSET Pairs
    BY <1>2 DEF BecomesReady, Pairs, Inner, Others
  <2> QED
    BY <1>1, <1>2, <2>1, <2>2
       DEF BecomesReady, triggerVars, alarmVars, Inner, Others, Words, Undisturbed, At
<1>3. ASSUME NEW alarm \in Alarms, ComesDue(alarm)
      PROVE  Watched' /\ Inner'
  <2>1. Watched'
    BY <1>3, WatchedStays DEF ComesDue, socketVars
  <2>2. due' \in Seq(Alarms)
    BY <1>3, AppendProperties DEF ComesDue, Inner, Others
  <2> QED
    BY <1>1, <1>3, <2>1, <2>2
       DEF ComesDue, socketVars, triggerVars, Inner, Others, Words, Undisturbed, At
<1>4. ASSUME NEW thread \in Threads, NEW i \in Triggers, ExternalLoad(thread, i)
      PROVE  Watched' /\ Inner'
  <2>1. Watched'
    BY <1>4, WatchedStays DEF ExternalLoad, socketVars
  <2>2. <<i, fTriggersAwaitingHandling>> \in Triggers \X SUBSET Triggers
    BY DEF Inner, Words
  <2>3. external' \in [Threads -> {<<>>} \cup (Triggers \X SUBSET Triggers)]
    BY <1>4, <2>2 DEF ExternalLoad, Inner, Words
  <2> QED
    BY <1>1, <1>4, <2>1, <2>3
       DEF ExternalLoad, socketVars, alarmVars, Inner, Others, Words, Undisturbed, At
<1>5. ASSUME NEW thread \in Threads, ExternalStore(thread)
      PROVE  Watched' /\ Inner'
  <2>1. Watched'
    BY <1>5, WatchedStays DEF ExternalStore, socketVars
  <2>2. external[thread] \in Triggers \X SUBSET Triggers
    BY <1>5 DEF ExternalStore, Inner, Words
  <2>3. external' \in [Threads -> {<<>>} \cup (Triggers \X SUBSET Triggers)]
    BY <1>5 DEF ExternalStore, Inner, Words
  <2>4. fTriggersAwaitingHandling' \in SUBSET Triggers
    BY <1>5, <2>2 DEF ExternalStore
  <2> QED
    BY <1>1, <1>5, <2>1, <2>3, <2>4
       DEF ExternalStore, socketVars, alarmVars, Inner, Others, Words, Undisturbed, At
<1> QED
  BY <1>2, <1>3, <1>4, <1>5 DEF Environment

-----------------------------------------------------------------------------
(***************************************************************************)
(* The theorems.                                                           *)
(***************************************************************************)

LEMMA InitHolds ==
  ASSUME Init
  PROVE  IInv
<1> DEFINE a == Activation("program")
<1>1. a \in ActivationSet /\ a.at = "program"
  BY DEF Activation, ActivationSet, HandlerPoints, NoTrigger
<1>2. IsSound(a)
  BY <1>1 DEF IsSound, TriggerPoints
<1> HIDE DEF a
<1>3. loop = <<a>>
  BY DEF Init, a
<1>4. Activations /\ Top = a
  BY <1>1, <1>2, <1>3 DEF Activations, Top, Last
<1>5. Words
  BY SchedulerAssumption DEF Init, Words, Triggers
<1>6. Others
  <2>1. MaxChanges \in 0 .. MaxChanges
    BY SchedulerAssumption
  <2>2. Plans \subseteq PlanSet
    <3>1. ASSUME NEW kinds \in Endless
          PROVE  kinds \in SUBSET {"sockets", "triggers"}
      BY SchedulerAssumption
    <3> QED
      BY <2>1, <3>1 DEF Plans, PlanSet, NoEnd
  <2> QED
    BY <2>2 DEF Init, Others, Alarms
<1>7. Undisturbed
  BY <1>1, <1>4 DEF Init, Undisturbed, At
<1>8. Watched
  BY DEF Init, Watched, EverySocketIsWatched, Selectable
<1> QED
  BY <1>4, <1>5, <1>6, <1>7, <1>8 DEF IInv

\* The inductive invariant of the event loop.
THEOREM Invariant == Spec => []IInv
<1>1. Init => IInv
  BY InitHolds
<1>2. ASSUME IInv, [Next]_vars
      PROVE  IInv'
  <2>1. Watched /\ Inner
    BY <1>2 DEF IInv, Inner
  <2>2. CASE Next
    <3>1. CASE SingleStep \/ SelectInterrupted
      BY <2>1, <3>1, SingleStepKeeps DEF IInv, Inner
    <3>2. CASE HandlerReturns \/ LeaveEventLoop
      BY <2>1, <3>2, ControlKeeps DEF IInv, Inner
    <3>3. CASE HandlerCalls
      BY <2>1, <3>3, CallKeeps DEF IInv, Inner
    <3>4. CASE Environment
      BY <2>1, <3>4, EnvironmentKeeps DEF IInv, Inner
    <3> QED
      BY <2>2, <3>1, <3>2, <3>3, <3>4 DEF Next
  <2>3. CASE UNCHANGED vars
    <3>1. Watched'
      BY <2>1, <2>3, WatchedStays DEF vars, socketVars
    <3>2. Activations' /\ Top' = Top
      BY <2>1, <2>3 DEF vars, Inner, Activations, Top
    <3> QED
      BY <2>1, <2>3, <3>1, <3>2
         DEF vars, socketVars, triggerVars, alarmVars, IInv, Inner, Others, Words,
             Undisturbed, At
  <2> QED
    BY <1>2, <2>2, <2>3
<1> QED
  BY <1>1, <1>2, PTL DEF Spec

\* The types of TypeOK hold for any sockets, triggers, tasks, threads and
\* bounds: whatever interrupts the loop, it indexes its tables within range.
THEOREM TypeCorrect == Spec => []TypeOK
<1>1. IInv => TypeOK
  BY DEF IInv, Watched, Activations, Words, Others, TypeOK, Descriptors, ActivationSet
<1> QED
  BY <1>1, Invariant, PTL

\* The list of handlers and the sets passed to select() agree, and the first
\* argument of select() covers them, after any number of sockets enabled,
\* disabled and moved by handlers in any order.
THEOREM SocketsAreWatched == Spec => []EverySocketIsWatched
<1>1. IInv => EverySocketIsWatched
  BY DEF IInv, Watched
<1> QED
  BY <1>1, Invariant, PTL

\* If no other thread calls triggerEvent(), an event that was triggered is
\* awaiting its handler until that is called, however deep the handlers nest.
THEOREM NoTriggerIsLost == ASSUME Threads = {} PROVE Spec => []NoTriggerLost
<1>1. IInv => NoTriggerLost
  BY DEF IInv, Undisturbed, NoTriggerLost
<1> QED
  BY <1>1, Invariant, PTL
=============================================================================
