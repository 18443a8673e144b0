------------------------- MODULE PullClientsProofs -------------------------
(***************************************************************************)
(* Proofs about the clients of pull_live555, for any number of them and of *)
(* subsessions.                                                            *)
(*                                                                         *)
(* What a client waits for is not inductive by itself: that it may wait    *)
(* for a BYE rests on what the server has set up having a sink, or having  *)
(* been taken for failed.                                                  *)
(***************************************************************************)
EXTENDS PullClients, FiniteSetTheorems, TLAPS

\* What is true of a client by itself.
Sound(c) ==
    /\ c.open => SomethingIsDue(c) \/ c.unheard # {}
    /\ SomethingIsDue(c) => c.open
    /\ c.byeHandlers = c.sinks
    /\ c.setUp \subseteq c.sinks \cup c.unheard
    /\ c.request = "SETUP" => c.subsession \in Tracks

\* What is true of a client that one of the handlers has in its hands.
InHand(c) ==
    /\ c \in ClientRecords /\ c.open
    /\ c.byeHandlers = c.sinks
    /\ c.setUp \subseteq c.sinks \cup c.unheard
    /\ c.request = "SETUP" => c.subsession \in Tracks

IInv ==
    /\ TypeOK
    /\ \A w \in Workers : Sound(clients[w])
    /\ Open \subseteq 1 .. opened
    /\ rtspClientCount = Cardinality(Open)
    /\ exited <=> opened > 0 /\ Open = {}

LEMMA OpenIsFinite ==
  ASSUME NEW S, S \subseteq Workers
  PROVE  IsFiniteSet(S) /\ Cardinality(S) \in 0 .. workerNums
<1> USE PullAssumption
<1>1. IsFiniteSet(Workers) /\ Cardinality(Workers) = workerNums
  <2>1. IsFiniteSet(1 .. workerNums)
        /\ Cardinality(1 .. workerNums) =
               IF 1 > workerNums THEN 0 ELSE workerNums - 1 + 1
    BY FS_Interval
  <2> QED
    BY <2>1 DEF Workers
<1>2. IsFiniteSet(S) /\ Cardinality(S) <= Cardinality(Workers)
  BY <1>1, FS_Subset
<1>3. Cardinality(S) \in Nat
  BY <1>2, FS_CardinalityType
<1> QED
  BY <1>1, <1>2, <1>3

LEMMA Initially == Init => IInv
<1> SUFFICES ASSUME Init PROVE IInv
  OBVIOUS
<1> USE PullAssumption
<1>1. NotOpened \in ClientRecords /\ ~NotOpened.open /\ Sound(NotOpened)
  BY DEF NotOpened, ClientRecords, Sound, SomethingIsDue
<1>2. clients = [w \in Workers |-> NotOpened]
      /\ opened = 0 /\ rtspClientCount = 0 /\ exited = FALSE
  BY DEF Init
<1>3. Open = {}
  BY <1>1, <1>2 DEF Open
<1>4. Cardinality(Open) = 0
  BY <1>3, FS_EmptySet
<1>5. TypeOK
  <2>1. clients \in [Workers -> ClientRecords]
    BY <1>1, <1>2
  <2>2. opened \in 0 .. workerNums /\ rtspClientCount \in 0 .. workerNums
    BY <1>2
  <2> HIDE PullAssumption
  <2> QED
    BY <1>2, <2>1, <2>2, Zenon DEF TypeOK
<1>6. \A w \in Workers : Sound(clients[w])
  BY <1>1, <1>2
<1> HIDE DEF TypeOK
<1> QED
  BY <1>2, <1>3, <1>4, <1>5, <1>6 DEF IInv

\* What is left of a client is closed, and nothing is due for it.
LEMMA ShutDownIsSound ==
  ASSUME NEW c \in ClientRecords, c.setUp \subseteq c.sinks \cup c.unheard
  PROVE  ShutDown(c) \in ClientRecords /\ ~ShutDown(c).open /\ Sound(ShutDown(c))
<1> DEFINE left == IF c.sinks = {} THEN c.setUp ELSE {}
<1>1. left \in SUBSET Tracks /\ left \subseteq c.unheard
  BY DEF ClientRecords
<1>2. ShutDown(c) =
        [c EXCEPT !.open = FALSE, !.request = "none",
                  !.sinks = {}, !.byeHandlers = {}, !.streamTimerTask = FALSE,
                  !.setUp = left]
  BY DEF ShutDown
<1> HIDE DEF left
<1>3. /\ ShutDown(c) \in ClientRecords /\ ~ShutDown(c).open
      /\ ShutDown(c).request = "none" /\ ShutDown(c).sinks = {}
      /\ ShutDown(c).byeHandlers = {} /\ ~ShutDown(c).streamTimerTask
      /\ ShutDown(c).setUp = left /\ ShutDown(c).unheard = c.unheard
  BY <1>1, <1>2 DEF ClientRecords
<1> QED
  BY <1>1, <1>3 DEF Sound, SomethingIsDue

\* shutdownStream() of a client that is open.
LEMMA ShutdownKeeps ==
  ASSUME IInv, NEW w \in Open, NEW c, InHand(c),
         ShutdownStream(w, c, rtspClientCount), UNCHANGED opened
  PROVE  IInv'
<1> USE PullAssumption
<1> DEFINE r == ShutDown(c)
<1>2. r \in ClientRecords /\ ~r.open /\ Sound(r)
  BY ShutDownIsSound DEF InHand
<1>3. clients' = [clients EXCEPT ![w] = r]
      /\ rtspClientCount' = rtspClientCount - 1
      /\ exited' = (rtspClientCount' = 0)
  BY DEF ShutdownStream
<1> HIDE DEF r
<1>4. w \in Workers /\ clients \in [Workers -> ClientRecords]
      /\ rtspClientCount = Cardinality(Open) /\ Open \subseteq Workers
      /\ opened \in Nat /\ opened > 0 /\ opened' = opened
  BY DEF IInv, TypeOK, Open, Workers
<1>5. clients' \in [Workers -> ClientRecords] /\ clients'[w] = r
      /\ \A v \in Workers \ {w} : clients'[v] = clients[v]
  BY <1>2, <1>3, <1>4
<1>6. Open' = Open \ {w}
  BY <1>2, <1>4, <1>5 DEF Open
<1>7. IsFiniteSet(Open) /\ Cardinality(Open') = Cardinality(Open) - 1
  BY <1>4, <1>6, OpenIsFinite, FS_RemoveElement
<1>8. rtspClientCount' = Cardinality(Open') /\ rtspClientCount' \in 0 .. workerNums
  BY <1>3, <1>4, <1>6, <1>7, OpenIsFinite
<1>9. exited' <=> Open' = {}
  BY <1>3, <1>4, <1>6, <1>7, <1>8, FS_EmptySet, FS_RemoveElement
<1>10. TypeOK'
  BY <1>3, <1>4, <1>5, <1>8 DEF IInv, TypeOK
<1>11. \A v \in Workers : Sound(clients[v])'
  BY <1>2, <1>5 DEF IInv, Sound, SomethingIsDue
<1> QED
  BY <1>4, <1>6, <1>8, <1>9, <1>10, <1>11 DEF IInv

\* A handler that leaves the client open.
LEMMA GoesOnKeeps ==
  ASSUME IInv, NEW w \in Open, NEW c, InHand(c), Sound(c),
         GoesOn(w, c), UNCHANGED <<opened, rtspClientCount>>
  PROVE  IInv'
<1>1. w \in Workers /\ clients \in [Workers -> ClientRecords]
  BY DEF IInv, TypeOK, Open
<1>2. clients' = [clients EXCEPT ![w] = c] /\ UNCHANGED exited
  BY DEF GoesOn
<1>3. clients' \in [Workers -> ClientRecords] /\ clients'[w] = c
      /\ \A v \in Workers \ {w} : clients'[v] = clients[v]
  BY <1>1, <1>2 DEF InHand
<1>4. Open' = Open
  BY <1>1, <1>3 DEF Open, InHand
<1>5. \A v \in Workers : Sound(clients[v])'
  BY <1>3 DEF IInv, Sound, SomethingIsDue
<1>6. TypeOK'
  BY <1>2, <1>3 DEF IInv, TypeOK
<1> QED
  BY <1>2, <1>4, <1>5, <1>6 DEF IInv

\* A handler that goes on to the next subsession, or to PLAY.
LEMMA SetupNextKeeps ==
  ASSUME IInv, NEW w \in Open, NEW c, InHand(c),
         SetupNextSubsession(w, c), UNCHANGED opened
  PROVE  IInv'
<1> USE PullAssumption
<1>1. CASE ShutdownStream(w, c, rtspClientCount)
  BY <1>1, ShutdownKeeps
<1>2. CASE /\ GoesOn(w, [c EXCEPT !.request = "PLAY"])
           /\ UNCHANGED rtspClientCount
  <2> DEFINE r == [c EXCEPT !.request = "PLAY"]
  <2>1. InHand(r) /\ Sound(r)
    BY DEF InHand, Sound, SomethingIsDue, ClientRecords
  <2>2. GoesOn(w, r)
    BY <1>2
  <2> HIDE DEF r
  <2> QED
    BY <1>2, <2>1, <2>2, GoesOnKeeps
<1>3. ASSUME NEW t \in c.subsession + 1 .. c.subsessions,
             GoesOn(w, [c EXCEPT !.request = "SETUP", !.subsession = t]),
             UNCHANGED rtspClientCount
      PROVE  IInv'
  <2> DEFINE r == [c EXCEPT !.request = "SETUP", !.subsession = t]
  <2>1. c \in ClientRecords /\ t \in 0 .. MaxTracks
    BY DEF InHand, ClientRecords
  <2>2. InHand(r) /\ Sound(r)
    <3>1. /\ r \in ClientRecords /\ r.open /\ r.byeHandlers = r.sinks
          /\ r.setUp \subseteq r.sinks \cup r.unheard
          /\ r.request = "SETUP" /\ r.subsession = t
      BY <2>1 DEF InHand, ClientRecords
    <3>2. t \in Tracks
      BY <2>1 DEF ClientRecords, Tracks
    <3> HIDE DEF r
    <3> QED
      BY <3>1, <3>2 DEF InHand, Sound, SomethingIsDue
  <2>3. GoesOn(w, r)
    BY <1>3
  <2> HIDE DEF r
  <2> QED
    BY <1>3, <2>2, <2>3, GoesOnKeeps
<1> QED
  BY <1>1, <1>2, <1>3 DEF SetupNextSubsession

\* A client for which something is due is open.
LEMMA DueIsInHand ==
  ASSUME IInv, NEW w \in Workers, SomethingIsDue(clients[w])
  PROVE  w \in Open /\ InHand(clients[w])
BY DEF IInv, TypeOK, Sound, Open, InHand

\* What openURL() makes.
LEMMA NewIsSound ==
    /\ NewClient \in ClientRecords /\ NewClient.open /\ Sound(NewClient)
    /\ NewClient.setUp \subseteq NewClient.sinks \cup NewClient.unheard
<1> USE PullAssumption
<1>1. /\ NotOpened \in ClientRecords
      /\ NotOpened.byeHandlers = {} /\ NotOpened.sinks = {}
      /\ NotOpened.setUp = {} /\ NotOpened.unheard = {}
  BY DEF NotOpened, ClientRecords
<1> DEFINE r == [NotOpened EXCEPT !.open = TRUE, !.request = "DESCRIBE"]
<1>2. /\ r \in ClientRecords /\ r.open /\ r.request = "DESCRIBE"
      /\ r.byeHandlers = {} /\ r.sinks = {} /\ r.setUp = {} /\ r.unheard = {}
  BY <1>1 DEF ClientRecords
<1>3. NewClient = r
  BY DEF NewClient
<1> HIDE DEF r
<1> QED
  BY <1>2, <1>3 DEF Sound, SomethingIsDue

LEMMA OpenKeeps ==
  ASSUME IInv, OpenURL
  PROVE  IInv'
<1> USE PullAssumption
<1> DEFINE w == opened'
<1>1. /\ opened < workerNums /\ ~exited /\ opened \in Nat /\ w = opened + 1
      /\ w \in Workers /\ w \notin Open /\ Open \subseteq 1 .. w
      /\ clients \in [Workers -> ClientRecords]
      /\ rtspClientCount = Cardinality(Open) /\ Open \subseteq Workers
  BY DEF OpenURL, IInv, TypeOK, Workers, Open
<1>2. \A v \in Workers : Sound(clients[v])
  BY DEF IInv
<1>3. ASSUME GoesOn(w, NewClient), rtspClientCount' = rtspClientCount + 1
      PROVE  IInv'
  <2>1. clients' = [clients EXCEPT ![w] = NewClient] /\ UNCHANGED exited
    BY <1>3 DEF GoesOn
  <2>2. clients' \in [Workers -> ClientRecords] /\ clients'[w] = NewClient
        /\ \A v \in Workers \ {w} : clients'[v] = clients[v]
    BY <1>1, <2>1, NewIsSound
  <2>3. Open' = Open \cup {w}
    BY <1>1, <2>2, NewIsSound DEF Open
  <2>4. rtspClientCount' = Cardinality(Open')
    BY <1>1, <1>3, <2>3, OpenIsFinite, FS_AddElement
  <2>5. Open' \subseteq Workers
    BY DEF Open, Workers
  <2>6. rtspClientCount' \in 0 .. workerNums
    BY <2>4, <2>5, OpenIsFinite
  <2>7. TypeOK'
    <3>1. w \in 0 .. workerNums
      BY <1>1 DEF Workers
    <3>2. exited' \in BOOLEAN
      BY <2>1 DEF IInv, TypeOK
    <3> QED
      BY <2>2, <2>6, <3>1, <3>2 DEF TypeOK, Workers
  <2>8. \A v \in Workers : Sound(clients[v])'
    BY <1>2, <2>2, NewIsSound DEF Sound, SomethingIsDue
  <2>9. ~exited' /\ Open' # {}
    BY <1>1, <2>1, <2>3
  <2>10. Open' \subseteq 1 .. w
    BY <1>1, <2>3
  <2> QED
    BY <2>4, <2>7, <2>8, <2>9, <2>10 DEF IInv
<1>4. ASSUME ShutdownStream(w, NewClient, rtspClientCount + 1)
      PROVE  IInv'
  <2> DEFINE r == ShutDown(NewClient)
  <2>1. r \in ClientRecords /\ ~r.open /\ Sound(r)
    BY NewIsSound, ShutDownIsSound
  <2>2. clients' = [clients EXCEPT ![w] = r]
    BY <1>4, Zenon DEF ShutdownStream
  <2>3. rtspClientCount' = rtspClientCount
    <3> DEFINE n == rtspClientCount + 1
    <3>1. ShutdownStream(w, NewClient, n)
      BY <1>4
    <3>2. n \in Int /\ n - 1 = rtspClientCount
      BY DEF IInv, TypeOK
    <3> HIDE DEF n, w
    <3>3. rtspClientCount' = n - 1
      BY <3>1, Zenon DEF ShutdownStream
    <3> QED
      BY <3>2, <3>3
  <2>4. exited' = (rtspClientCount' = 0)
    BY <1>4, Zenon DEF ShutdownStream
  <2> HIDE DEF r
  <2>5. clients' \in [Workers -> ClientRecords] /\ clients'[w] = r
        /\ \A v \in Workers \ {w} : clients'[v] = clients[v]
    BY <1>1, <2>1, <2>2
  <2>6. Open' = Open
    BY <1>1, <2>1, <2>5 DEF Open
  <2>7. Cardinality(Open) \in 0 .. workerNums /\ IsFiniteSet(Open)
    BY <1>1, OpenIsFinite
  <2>8. rtspClientCount' = Cardinality(Open)
    BY <1>1, <2>3, <2>7
  <2>9. exited' <=> Open' = {}
    BY <2>4, <2>6, <2>7, <2>8, FS_EmptySet
  <2>10. TypeOK'
    <3>1. w \in 0 .. workerNums
      BY <1>1 DEF Workers
    <3>2. exited' \in BOOLEAN
      BY <2>4
    <3> QED
      BY <2>5, <2>7, <2>8, <3>1, <3>2 DEF TypeOK, Workers
  <2>11. \A v \in Workers : Sound(clients[v])'
    BY <1>2, <2>1, <2>5 DEF Sound, SomethingIsDue
  <2>12. w > 0 /\ Open' \subseteq 1 .. w
    BY <1>1, <2>6
  <2> QED
    BY <2>6, <2>8, <2>9, <2>10, <2>11, <2>12 DEF IInv
<1>5. \/ GoesOn(w, NewClient) /\ rtspClientCount' = rtspClientCount + 1
      \/ ShutdownStream(w, NewClient, rtspClientCount + 1)
  BY DEF OpenURL
<1> HIDE DEF w
<1> QED
  BY <1>3, <1>4, <1>5

LEMMA DescribeKeeps ==
  ASSUME IInv, NEW w \in Workers, ContinueAfterDESCRIBE(w)
  PROVE  IInv'
<1> USE PullAssumption
<1>1. w \in Open /\ InHand(clients[w])
  BY DueIsInHand DEF ContinueAfterDESCRIBE, SomethingIsDue
<1>2. UNCHANGED opened
  BY DEF ContinueAfterDESCRIBE
<1>3. ASSUME NEW n \in 1 .. MaxTracks,
             SetupNextSubsession(w, [clients[w] EXCEPT !.subsessions = n])
      PROVE  IInv'
  <2> DEFINE r == [clients[w] EXCEPT !.subsessions = n]
  <2>1. InHand(r)
    BY <1>1 DEF InHand, ClientRecords
  <2>2. SetupNextSubsession(w, r)
    BY <1>3
  <2> HIDE DEF r
  <2> QED
    BY <1>1, <1>2, <2>1, <2>2, SetupNextKeeps
<1>4. CASE ShutdownStream(w, clients[w], rtspClientCount)
  BY <1>1, <1>2, <1>4, ShutdownKeeps
<1> QED
  BY <1>3, <1>4 DEF ContinueAfterDESCRIBE

LEMMA SetupKeeps ==
  ASSUME IInv, NEW w \in Workers, ContinueAfterSETUP(w)
  PROVE  IInv'
<1> USE PullAssumption
<1> DEFINE c == clients[w]
           t == c.subsession
           up == [c EXCEPT !.sinks = @ \cup {t}, !.byeHandlers = @ \cup {t},
                           !.setUp = @ \cup {t}]
           lost == [c EXCEPT !.setUp = @ \cup {t}, !.unheard = @ \cup {t}]
<1>1. w \in Open /\ InHand(c)
  BY DueIsInHand DEF ContinueAfterSETUP, SomethingIsDue
<1>2. UNCHANGED opened
  BY DEF ContinueAfterSETUP
<1>3. \/ SetupNextSubsession(w, up)
      \/ SetupNextSubsession(w, c)
      \/ SetupNextSubsession(w, lost)
  BY DEF ContinueAfterSETUP
<1>4. t \in Tracks
  BY DEF ContinueAfterSETUP, IInv, Sound
<1>5. InHand(up)
  BY <1>1, <1>4 DEF InHand, ClientRecords
<1>6. InHand(lost)
  BY <1>1, <1>4 DEF InHand, ClientRecords
<1> HIDE DEF c, up, lost
<1> QED
  BY <1>1, <1>2, <1>3, <1>5, <1>6, SetupNextKeeps

LEMMA PlayKeeps ==
  ASSUME IInv, NEW w \in Workers, ContinueAfterPLAY(w)
  PROVE  IInv'
<1>1. w \in Open /\ InHand(clients[w])
  BY DueIsInHand DEF ContinueAfterPLAY, SomethingIsDue
<1>2. UNCHANGED opened
  BY DEF ContinueAfterPLAY
<1>3. ASSUME clients[w].setUp # {}, NEW timed \in BOOLEAN,
             GoesOn(w, [clients[w] EXCEPT !.request = "none",
                                          !.streamTimerTask = timed]),
             UNCHANGED rtspClientCount
      PROVE  IInv'
  <2> DEFINE r == [clients[w] EXCEPT !.request = "none", !.streamTimerTask = timed]
  <2>1. /\ r \in ClientRecords /\ r.open /\ r.byeHandlers = r.sinks
        /\ r.setUp \subseteq r.sinks \cup r.unheard /\ r.setUp # {}
       /\ r.request = "none"
    BY <1>1, <1>3 DEF InHand, ClientRecords
  <2>2. GoesOn(w, r)
    BY <1>3
  <2> HIDE DEF r
  <2>3. InHand(r) /\ Sound(r)
    BY <2>1 DEF InHand, Sound, SomethingIsDue
  <2> QED
    BY <1>1, <1>2, <1>3, <2>2, <2>3, GoesOnKeeps
<1>4. CASE ShutdownStream(w, clients[w], rtspClientCount)
  BY <1>1, <1>2, <1>4, ShutdownKeeps
<1> QED
  BY <1>3, <1>4 DEF ContinueAfterPLAY

LEMMA ByeKeeps ==
  ASSUME IInv, NEW w \in Workers, NEW t \in Tracks, SubsessionByeHandler(w, t)
  PROVE  IInv'
<1> DEFINE r == [clients[w] EXCEPT !.byeHandlers = @ \ {t}, !.sinks = @ \ {t},
                                   !.setUp = @ \ {t}]
<1>1. w \in Open /\ InHand(clients[w])
  BY DueIsInHand DEF SubsessionByeHandler, SomethingIsDue
<1>2. UNCHANGED opened
      /\ IF r.sinks = {} THEN ShutdownStream(w, r, rtspClientCount)
                         ELSE GoesOn(w, r) /\ UNCHANGED rtspClientCount
  BY DEF SubsessionByeHandler
<1>3. InHand(r)
  BY <1>1 DEF InHand, ClientRecords
<1> HIDE DEF r
<1>4. CASE r.sinks = {}
  BY <1>1, <1>2, <1>3, <1>4, ShutdownKeeps
<1>5. CASE r.sinks # {}
  <2>1. Sound(r)
    BY <1>3, <1>5 DEF InHand, Sound, SomethingIsDue
  <2> QED
    BY <1>1, <1>2, <1>3, <1>5, <2>1, GoesOnKeeps
<1> QED
  BY <1>4, <1>5

LEMMA TimerKeeps ==
  ASSUME IInv, NEW w \in Workers, StreamTimerHandler(w)
  PROVE  IInv'
<1> DEFINE r == [clients[w] EXCEPT !.streamTimerTask = FALSE]
<1>1. w \in Open /\ InHand(clients[w])
  BY DueIsInHand DEF StreamTimerHandler, SomethingIsDue
<1>2. UNCHANGED opened /\ ShutdownStream(w, r, rtspClientCount)
  BY DEF StreamTimerHandler
<1>3. InHand(r)
  BY <1>1 DEF InHand, ClientRecords
<1> HIDE DEF r
<1> QED
  BY <1>1, <1>2, <1>3, ShutdownKeeps

\* What every step of the program keeps, for any number of clients and of
\* subsessions.
THEOREM Invariant == Spec => []IInv
<1>1. Init => IInv
  BY Initially
<1>2. IInv /\ [Next]_vars => IInv'
  <2> SUFFICES ASSUME IInv, [Next]_vars PROVE IInv'
    OBVIOUS
  <2>1. CASE OpenURL
    BY <2>1, OpenKeeps
  <2>2. ASSUME NEW w \in Workers,
               \/ ContinueAfterDESCRIBE(w) \/ ContinueAfterSETUP(w)
               \/ ContinueAfterPLAY(w) \/ StreamTimerHandler(w)
               \/ \E t \in Tracks : SubsessionByeHandler(w, t)
        PROVE  IInv'
    BY <2>2, DescribeKeeps, SetupKeeps, PlayKeeps, TimerKeeps, ByeKeeps
  <2>3. CASE UNCHANGED vars
    BY <2>3 DEF vars, IInv, TypeOK, Open, Sound, SomethingIsDue
  <2> QED
    BY <2>1, <2>2, <2>3 DEF Next
<1> QED
  BY <1>1, <1>2, PTL DEF Spec

\* The variables have their types, whatever the clients meet.
THEOREM TypeCorrect == Spec => []TypeOK
<1>1. IInv => TypeOK
  BY DEF IInv
<1> QED
  BY <1>1, Invariant, PTL

\* The count of testRTSPClient.cpp is that of the clients that are open, so that
\* the program runs exactly until the last of them is shut down, and every one
\* that is open waits for something that can come.
THEOREM ClientsAreAccountedFor == Spec => []RunsUntilAllEnded
<1>1. IInv => RunsUntilAllEnded
  <2> SUFFICES ASSUME IInv PROVE RunsUntilAllEnded
    OBVIOUS
  <2>1. Looping => Open # {}
    BY PullAssumption DEF IInv, Looping
  <2>2. \A w \in Workers : SomethingIsDue(clients[w]) => w \in Open
    BY DEF IInv, Sound, Open
  <2>3. \A w \in Open : SomethingIsDue(clients[w]) \/ clients[w].unheard # {}
    BY DEF IInv, Sound, Open
  <2> QED
    BY <2>1, <2>2, <2>3 DEF IInv, RunsUntilAllEnded
<1> QED
  BY <1>1, Invariant, PTL

\* A client that is shut down has torn down all that it knows to be set up.
THEOREM NothingStays == Spec => []NothingLeftBehind
<1>1. IInv => NothingLeftBehind
  <2> SUFFICES ASSUME IInv, NEW w \in Workers \ Open
               PROVE  clients[w].setUp \subseteq clients[w].unheard
    BY DEF NothingLeftBehind
  <2>1. Sound(clients[w]) /\ ~SomethingIsDue(clients[w])
    BY DEF IInv, Sound, Open
  <2> QED
    BY <2>1 DEF Sound, SomethingIsDue
<1> QED
  BY <1>1, Invariant, PTL
=============================================================================
