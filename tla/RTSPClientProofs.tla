-------------------------- MODULE RTSPClientProofs --------------------------
(***************************************************************************)
(* The client's invariants, for any number of requests, resends and nested *)
(* calls.                                                                  *)
(*                                                                         *)
(* Requests that wait for a connection are never left without one being    *)
(* made (IInv).  Besides the property itself, the invariant says that      *)
(* there is nothing in the buffer without an open connection: so a         *)
(* redirect does not close a connection that others wait for, though       *)
(* handlers may have lost one and asked for another while the call that    *)
(* reads responses was going on.  And it says that the queue is a          *)
(* sequence, of whatever: so nothing has to be known of the stack.         *)
(*                                                                         *)
(* No request is forgotten (AInv).  This one is about the stack: what the  *)
(* calls hold between them is apart from one another and from the queues,  *)
(* and a request whose resend has failed was told once and is in no place, *)
(* so that the second call of its handler is the last.                     *)
(*                                                                         *)
(* CSeqs tell requests apart (TInv): those that are still to be sent       *)
(* differ from one another and from those that the server has.             *)
(*                                                                         *)
(* Responses find their requests (RInv): until an answer out of order or a *)
(* resend disturbs them, the queue of requests and what is read, on its    *)
(* way or to be answered are in step.                                      *)
(***************************************************************************)
EXTENDS RTSPClient, TLAPS, SequenceTheorems, FiniteSetTheorems

IsSequence == \E S : fRequestsAwaitingConnection \in Seq(S)

BufferOfConnection == HasHeader => connection = "open"

\* An empty buffer has no header in it, and one that is the same has the same.
LEMMA HeadersOfBuffer ==
  /\ fResponseBuffer = <<>> => ~HasHeader
  /\ fResponseBuffer' = <<>> => ~HasHeader'
  /\ UNCHANGED fResponseBuffer => (HasHeader' <=> HasHeader)
  /\ Complete => HasHeader
<1>1. Len(<<>>) = 0 /\ 1 .. 0 = {}
  OBVIOUS
<1>2. Complete => HasHeader
  <2>1. Complete => Len(fResponseBuffer) >= 2 /\ fResponseBuffer[1].part = "header"
    BY DEF Complete, Response
  <2> QED
    BY <2>1 DEF HasHeader
<1> QED
  BY <1>1, <1>2 DEF HasHeader

IInv == IsSequence /\ ConnectionAwaited /\ BufferOfConnection

\* What enqueue() leaves is a sequence, and not empty.
LEMMA Enqueued ==
  ASSUME NEW S, NEW q \in Seq(S), NEW request
  PROVE  /\ Append(q, request) \in Seq(S \cup {request})
         /\ Append(q, request) # <<>>
<1>1. q \in Seq(S \cup {request})
  OBVIOUS
<1> QED
  BY <1>1

\* A step that leaves alone the queue, and the connection unless it was open.
LEMMA SameQueue ==
  ASSUME IInv, UNCHANGED fRequestsAwaitingConnection,
         \/ UNCHANGED connection
         \/ connection # "pending" /\ connection' # "pending",
         HasHeader' => connection' = "open"
  PROVE  IInv'
BY DEF IInv, IsSequence, ConnectionAwaited, BufferOfConnection

\* A step that empties the queue and leaves no connection pending.
LEMMA NoQueue ==
  ASSUME fRequestsAwaitingConnection' = <<>>, connection' # "pending",
         HasHeader' => connection' = "open"
  PROVE  IInv'
<1>1. <<>> \in Seq({})
  OBVIOUS
<1> QED
  BY <1>1 DEF IInv, IsSequence, ConnectionAwaited, BufferOfConnection

\* sendRequest(), whoever calls it and for whatever request.
LEMMA SendRequestKeeps ==
  ASSUME IInv, NEW request, NEW done, NEW undone,
         SendRequest(request, done, undone)
  PROVE  IInv'
<1> UNCHANGED fResponseBuffer
  BY DEF SendRequest
<1>1. CASE Enqueue(request, done)
  <2>1. PICK S : fRequestsAwaitingConnection \in Seq(S)
    BY DEF IInv, IsSequence
  <2>2. fRequestsAwaitingConnection' = Append(fRequestsAwaitingConnection, request)
    BY <1>1 DEF Enqueue
  <2>3. /\ fRequestsAwaitingConnection' \in Seq(S \cup {request})
        /\ fRequestsAwaitingConnection' # <<>>
    BY <2>1, <2>2, Enqueued
  <2>4. connection' = "pending"
    BY <1>1 DEF Enqueue, Pending, IInv, ConnectionAwaited
  <2>5. ~HasHeader'
    BY <1>1, HeadersOfBuffer DEF Enqueue, Pending, IInv, ConnectionAwaited, BufferOfConnection
  <2> QED
    BY <2>3, <2>4, <2>5 DEF IInv, IsSequence, ConnectionAwaited, BufferOfConnection
<1>2. CASE Send(request, done)
  <2>1. connection # "pending" /\ connection' # "pending"
    BY <1>2 DEF Send, Pending, IInv, ConnectionAwaited
  <2>2. UNCHANGED fRequestsAwaitingConnection
    BY <1>2 DEF Send
  <2>3. connection' = "open"
    BY <1>2 DEF Send
  <2> QED
    BY <2>1, <2>2, <2>3, SameQueue
<1>3. CASE Fail(request, undone)
  <2>1. connection # "pending" /\ connection' # "pending"
    BY <1>3 DEF Fail, OpenConnection, Pending, IInv, ConnectionAwaited
  <2>2. UNCHANGED fRequestsAwaitingConnection
    BY <1>3 DEF Fail, queueVars
  <2>3. HasHeader' => connection' = "open"
    BY <1>3, HeadersOfBuffer DEF Fail, OpenConnection, IInv, BufferOfConnection
  <2> QED
    BY <2>1, <2>2, <2>3, SameQueue
<1> QED
  BY <1>1, <1>2, <1>3 DEF SendRequest

-----------------------------------------------------------------------------
\* In the beginning nothing waits and there is no connection.
LEMMA InitEstablishes == Init => IInv
<1>1. <<>> \in Seq({})
  OBVIOUS
<1> QED
  BY <1>1, HeadersOfBuffer DEF Init, IInv, IsSequence, ConnectionAwaited, BufferOfConnection

\* Every step keeps the invariant.
LEMMA StepKeeps == IInv /\ [Next]_vars => IInv'
<1> SUFFICES ASSUME IInv, [Next]_vars PROVE IInv'
  OBVIOUS
<1>1. CASE SendCommand
  BY <1>1, SendRequestKeeps DEF SendCommand
<1>2. CASE ConnectionSucceeds
  BY <1>2, NoQueue, HeadersOfBuffer DEF ConnectionSucceeds, QueueCleared
<1>3. CASE ConnectionFails
  BY <1>3, NoQueue, HeadersOfBuffer DEF ConnectionFails, QueueCleared, ResetTCPSockets, IInv, BufferOfConnection
<1>4. CASE ResumeSending
  BY <1>4, SendRequestKeeps DEF ResumeSending
<1>5. CASE NextError
  BY <1>5, SameQueue, HeadersOfBuffer DEF NextError, queueVars, IInv, BufferOfConnection
<1>6. CASE QueueHandled
  BY <1>6, SameQueue, HeadersOfBuffer DEF QueueHandled, queueVars, IInv, BufferOfConnection
<1>7. CASE IncomingData
  BY <1>7, SameQueue, HeadersOfBuffer DEF IncomingData, queueVars, IInv, BufferOfConnection
<1>8. CASE ConnectionLost
  BY <1>8, SameQueue, HeadersOfBuffer DEF ConnectionLost, queueVars, ResetTCPSockets, ResetResponseBuffer
<1>9. CASE NoHeader
  BY <1>9, SameQueue, HeadersOfBuffer DEF NoHeader, queueVars, IInv, BufferOfConnection
<1>10. CASE NotAResponse
  BY <1>10, SameQueue, HeadersOfBuffer DEF NotAResponse, queueVars, ResetResponseBuffer
<1>11. CASE BodyMissing
  BY <1>11, SameQueue, HeadersOfBuffer DEF BodyMissing, queueVars, IInv, BufferOfConnection
<1>12. CASE ResponseToNobody
  <2>1. HasHeader
    BY <1>12, HeadersOfBuffer DEF ResponseToNobody
  <2> QED
    BY <1>12, <2>1, SameQueue, HeadersOfBuffer DEF ResponseToNobody, IInv, BufferOfConnection
<1>13. CASE CallHandler
  <2>1. HasHeader
    BY <1>13, HeadersOfBuffer DEF CallHandler
  <2> QED
    BY <1>13, <2>1, SameQueue, HeadersOfBuffer DEF CallHandler, IInv, BufferOfConnection
<1>14. CASE NeedToResend
  <2>1. connection = "open"
    BY <1>14, HeadersOfBuffer DEF NeedToResend, IInv, BufferOfConnection
  <2>2. UNCHANGED connection \/ connection' = "none"
    BY <1>14 DEF NeedToResend, ResetTCPSockets
  <2>3. UNCHANGED fRequestsAwaitingConnection /\ fResponseBuffer' = <<>>
    BY <1>14 DEF NeedToResend, ResetResponseBuffer
  <2> QED
    BY <2>1, <2>2, <2>3, SameQueue, HeadersOfBuffer
<1>15. CASE ResendCommand
  BY <1>15, SendRequestKeeps DEF ResendCommand
<1>16. CASE ResendFailed
  <2>1. ~HasHeader'
    <3>1. fResponseBuffer' = <<Body(Top.request.cseq, "bad")>> => ~HasHeader'
      BY DEF HasHeader, Body
    <3> QED
      BY <1>16, <3>1, HeadersOfBuffer DEF ResendFailed, Rubbish
  <2> QED
    BY <1>16, <2>1, SameQueue DEF ResendFailed, queueVars
<1>17. CASE HandlerReturns
  BY <1>17, SameQueue, HeadersOfBuffer DEF HandlerReturns, queueVars, IInv, BufferOfConnection
<1>18. CASE Close
  BY <1>18, NoQueue, HeadersOfBuffer DEF Close, ResetTCPSockets, ResetResponseBuffer
<1>19. CASE Answer
  BY <1>19, SameQueue, HeadersOfBuffer DEF Answer, queueVars, IInv, BufferOfConnection
<1>20. CASE UNCHANGED vars
  BY <1>20, SameQueue, HeadersOfBuffer DEF vars, queueVars, IInv, BufferOfConnection
<1> QED
  BY <1>1, <1>2, <1>3, <1>4, <1>5, <1>6, <1>7, <1>8, <1>9, <1>10, <1>11, <1>12,
     <1>13, <1>14, <1>15, <1>16, <1>17, <1>18, <1>19, <1>20 DEF Next

\* Requests that wait for a connection are woken by the end of one that is
\* being made: fRequestsAwaitingConnection is not empty exactly while
\* connectionHandler() is to be called.
THEOREM WaitersAreWoken == Spec => []ConnectionAwaited
<1>1. IInv => ConnectionAwaited
  BY DEF IInv
<1> QED
  BY <1>1, InitEstablishes, StepKeeps, PTL DEF Spec

-----------------------------------------------------------------------------
(***************************************************************************)
(* Where each request is, and what its handler was told.                   *)
(***************************************************************************)
Sent == [id : 1..MaxRequests, cseq : Nat]
Pieces == [part : {"header", "body"}, cseq : Nat, code : Codes]
Frames == [at : HandlerPoints \cup ClientPoints, request : Sent \cup {NoRequest},
           queue : Seq(Sent), cseq : Nat, more : BOOLEAN]

Ids(q) == {q[i].id : i \in DOMAIN q}
NoneTwice(q) == \A i, j \in DOMAIN q : q[i].id = q[j].id => i = j

\* The requests that a call will send or tell, and the one that it could not
\* send again.
Holds(f) == Ids(f.queue) \cup (IF f.at = "resend" THEN {f.request.id} ELSE {})
Failing(f) == IF f.at = "resendFailed" THEN {f.request.id} ELSE {}

Sound(f) ==
    /\ NoneTwice(f.queue)
    /\ f.at \notin {"resume", "errors", "errorHandler"} => f.queue = <<>>
    /\ f.at \in {"resend", "resendFailed"} => f.request \in Sent

HeldBy(s) == UNION {Holds(s[k]) : k \in DOMAIN s}
FailingIn(s) == UNION {Failing(s[k]) : k \in DOMAIN s}

Stacked(s) ==
    /\ s \in Seq(Frames)
    /\ \A k \in DOMAIN s : Sound(s[k])
    /\ \A j, k \in DOMAIN s :
          j # k => /\ Holds(s[j]) \cap Holds(s[k]) = {}
                   /\ Failing(s[j]) \cap Failing(s[k]) = {}

-----------------------------------------------------------------------------
\* An empty queue, and an empty stack.
LEMMA NothingIn ==
  ASSUME NEW S
  PROVE  /\ <<>> \in Seq(S) /\ Ids(<<>>) = {} /\ NoneTwice(<<>>)
         /\ Stacked(<<>>) /\ HeldBy(<<>>) = {} /\ FailingIn(<<>>) = {}
BY DEF Ids, NoneTwice, Stacked, HeldBy, FailingIn

\* enqueue().
LEMMA PutLast ==
  ASSUME NEW q \in Seq(Sent), NoneTwice(q), NEW r \in Sent, r.id \notin Ids(q)
  PROVE  /\ Append(q, r) \in Seq(Sent) /\ NoneTwice(Append(q, r))
         /\ Ids(Append(q, r)) = Ids(q) \cup {r.id}
<1> DEFINE p == Append(q, r)
<1>1. /\ p \in Seq(Sent) /\ Len(q) \in Nat
      /\ DOMAIN p = 1 .. Len(q) + 1 /\ DOMAIN q = 1 .. Len(q)
      /\ p[Len(q) + 1] = r /\ \A i \in 1 .. Len(q) : p[i] = q[i]
  OBVIOUS
<1> HIDE DEF p
<1>2. NoneTwice(p)
  <2> SUFFICES ASSUME NEW i \in DOMAIN p, NEW j \in DOMAIN p, p[i].id = p[j].id
               PROVE  i = j
    BY DEF NoneTwice
  <2>1. \A k \in 1 .. Len(q) : p[k].id # r.id
    BY <1>1 DEF Ids
  <2>2. CASE i = Len(q) + 1 \/ j = Len(q) + 1
    BY <1>1, <2>1, <2>2
  <2>3. CASE i \in 1 .. Len(q) /\ j \in 1 .. Len(q)
    BY <1>1, <2>3 DEF NoneTwice
  <2> QED
    BY <1>1, <2>2, <2>3
<1>3. Ids(p) \subseteq Ids(q) \cup {r.id}
  BY <1>1 DEF Ids
<1>4. Ids(q) \cup {r.id} \subseteq Ids(p)
  <2>1. ASSUME NEW i \in DOMAIN q
        PROVE  q[i].id \in Ids(p)
    BY <1>1 DEF Ids
  <2>2. r.id \in Ids(p)
    BY <1>1 DEF Ids
  <2> QED
    BY <2>1, <2>2 DEF Ids
<1> QED
  BY <1>1, <1>2, <1>3, <1>4 DEF p

\* A queue in two: the requests up to position n, and the others.
LEMMA Parted ==
  ASSUME NEW q \in Seq(Sent), NoneTwice(q), NEW n \in 0 .. Len(q)
  PROVE  LET front == SubSeq(q, 1, n)
             rest == SubSeq(q, n + 1, Len(q))
         IN  /\ front \in Seq(Sent) /\ rest \in Seq(Sent)
             /\ Len(rest) = Len(q) - n /\ NoneTwice(rest)
             /\ Ids(front) \cap Ids(rest) = {}
             /\ Ids(q) = Ids(front) \cup Ids(rest)
<1> DEFINE front == SubSeq(q, 1, n)
           rest == SubSeq(q, n + 1, Len(q))
<1>1. /\ Len(q) \in Nat /\ DOMAIN q = 1 .. Len(q) /\ n \in Nat /\ n <= Len(q)
      /\ \A i \in 1 .. Len(q) : q[i] \in Sent
  OBVIOUS
<1>2. /\ front \in Seq(Sent) /\ Len(front) = n
      /\ \A i \in 1 .. n : front[i] = q[i]
  OBVIOUS
<1>3. /\ rest \in Seq(Sent) /\ Len(rest) = Len(q) - n
      /\ \A i \in 1 .. Len(q) - n : rest[i] = q[n + i]
  OBVIOUS
<1>4. DOMAIN front = 1 .. n /\ DOMAIN rest = 1 .. Len(q) - n
  BY <1>2, <1>3
<1> HIDE DEF front, rest
<1>5. \A i \in DOMAIN rest : n + i \in DOMAIN q /\ n + i > n /\ rest[i] = q[n + i]
  BY <1>1, <1>3, <1>4
<1>6. \A i \in DOMAIN front : i \in DOMAIN q /\ i <= n /\ front[i] = q[i]
  BY <1>1, <1>2, <1>4
<1>7. NoneTwice(rest)
  <2> SUFFICES ASSUME NEW i \in DOMAIN rest, NEW j \in DOMAIN rest,
                      rest[i].id = rest[j].id
               PROVE  i = j
    BY DEF NoneTwice
  <2>1. n + i = n + j
    BY <1>5 DEF NoneTwice
  <2> QED
    BY <1>1, <1>4, <2>1
<1>8. Ids(front) \cap Ids(rest) = {}
  <2>1. ASSUME NEW i \in DOMAIN front, NEW j \in DOMAIN rest,
               front[i].id = rest[j].id
        PROVE  FALSE
    <3>1. i = n + j
      BY <1>5, <1>6, <2>1 DEF NoneTwice
    <3> QED
      BY <1>1, <1>4, <1>5, <1>6, <3>1
  <2> QED
    BY <2>1 DEF Ids
<1>9. Ids(front) \cup Ids(rest) \subseteq Ids(q)
  BY <1>5, <1>6 DEF Ids
<1>10. Ids(q) \subseteq Ids(front) \cup Ids(rest)
  <2>1. ASSUME NEW k \in DOMAIN q
        PROVE  q[k].id \in Ids(front) \cup Ids(rest)
    <3>1. CASE k <= n
      <4>1. k \in DOMAIN front /\ front[k] = q[k]
        BY <1>1, <1>2, <1>4, <3>1
      <4> QED
        BY <4>1 DEF Ids
    <3>2. CASE k > n
      <4>1. k - n \in DOMAIN rest /\ n + (k - n) = k
        BY <1>1, <1>4, <3>2
      <4>2. rest[k - n] = q[k]
        BY <1>5, <4>1
      <4> QED
        BY <4>1, <4>2 DEF Ids
    <3> QED
      BY <1>1, <3>1, <3>2
  <2> QED
    BY <2>1 DEF Ids
<1> QED
  BY <1>2, <1>3, <1>7, <1>8, <1>9, <1>10 DEF front, rest

\* dequeue().
LEMMA TakeHead ==
  ASSUME NEW q \in Seq(Sent), NoneTwice(q), q # <<>>
  PROVE  /\ Head(q) \in Sent /\ Tail(q) \in Seq(Sent) /\ NoneTwice(Tail(q))
         /\ Ids(q) = Ids(Tail(q)) \cup {Head(q).id}
         /\ Head(q).id \notin Ids(Tail(q))
<1>1. 1 \in 0 .. Len(q) /\ Head(q) \in Sent /\ Tail(q) \in Seq(Sent)
  BY HeadTailProperties, EmptySeq
<1>2. Tail(q) = SubSeq(q, 1 + 1, Len(q))
  <2>1. Tail(q) = SubSeq(q, 2, Len(q)) /\ 1 + 1 = 2
    BY TailIsSubSeq
  <2> QED
    BY <2>1
<1>3. /\ NoneTwice(Tail(q)) /\ Ids(SubSeq(q, 1, 1)) \cap Ids(Tail(q)) = {}
      /\ Ids(q) = Ids(SubSeq(q, 1, 1)) \cup Ids(Tail(q))
  <2>1. /\ NoneTwice(SubSeq(q, 1 + 1, Len(q)))
        /\ Ids(SubSeq(q, 1, 1)) \cap Ids(SubSeq(q, 1 + 1, Len(q))) = {}
        /\ Ids(q) = Ids(SubSeq(q, 1, 1)) \cup Ids(SubSeq(q, 1 + 1, Len(q)))
    BY <1>1, Parted, Zenon
  <2> QED
    BY <1>2, <2>1, Zenon
<1>4. Ids(SubSeq(q, 1, 1)) = {Head(q).id}
  <2>1. DOMAIN SubSeq(q, 1, 1) = {1} /\ SubSeq(q, 1, 1)[1] = Head(q)
    BY <1>1
  <2> QED
    BY <2>1 DEF Ids
<1> QED
  BY <1>1, <1>3, <1>4

\* The candidates for a response are the end of their queue.
LEMMA CandidatesLast ==
  ASSUME NEW S, fRequestsAwaitingResponse \in Seq(S), NEW cseq
  PROVE  LET q == fRequestsAwaitingResponse
         IN  \E n \in 0 .. Len(q) : Candidates(cseq) = SubSeq(q, n + 1, Len(q))
<1> DEFINE q == fRequestsAwaitingResponse
           c == Candidates(cseq)
           m == Cardinality(Older(cseq))
           left == SubSeq(q, m + 1, Len(q))
<1> USE DEF q
<1>1. q \in Seq(S) /\ Len(q) \in Nat
  OBVIOUS
<1>2. m \in 0 .. Len(q)
  <2>1. Older(cseq) \in SUBSET (1 .. Len(q))
    BY DEF Older
  <2>2. IsFiniteSet(1 .. Len(q)) /\ Cardinality(1 .. Len(q)) = Len(q)
    BY SMTT(30), <1>1, FS_Interval
  <2>3. IsFiniteSet(Older(cseq)) /\ m <= Len(q)
    BY <2>1, <2>2, FS_Subset
  <2> QED
    BY <1>1, <2>3, FS_CardinalityType
<1>3. c = IF left # <<>> /\ Head(left).cseq # cseq THEN Tail(left) ELSE left
  BY DEF Candidates
<1> HIDE DEF m, q, c
<1>4. CASE c = left
  BY <1>2, <1>4 DEF q, c
<1>5. CASE left # <<>> /\ c = Tail(left)
  <2>1. m + 1 \in 1 .. Len(q)
    <3>1. m = Len(q) => left = <<>>
      BY <1>1, SubSeqEmpty
    <3> QED
      BY <1>1, <1>2, <1>5, <3>1
  <2>2. Len(q) \in m + 1 .. Len(q)
    BY <1>1, <2>1
  <2>3. Tail(left) = SubSeq(q, (m + 1) + 1, Len(q))
    BY <1>1, <2>1, <2>2, HeadTailOfSubSeq
  <2> QED
    BY <1>5, <2>1, <2>3 DEF q, c
<1> QED
  BY <1>3, <1>4, <1>5

\* handleResponseBytes() takes requests off the head of their queue only: those
\* that it gives up, and those from which the answered one is taken.
LEMMA CandidatesParted ==
  ASSUME fRequestsAwaitingResponse \in Seq(Sent),
         NoneTwice(fRequestsAwaitingResponse), NEW cseq
  PROVE  LET q == fRequestsAwaitingResponse
             c == Candidates(cseq)
             front == SubSeq(q, 1, Len(q) - Len(c))
         IN  /\ c \in Seq(Sent) /\ NoneTwice(c) /\ front \in Seq(Sent)
             /\ Ids(front) \cap Ids(c) = {}
             /\ Ids(q) = Ids(front) \cup Ids(c)
<1> DEFINE q == fRequestsAwaitingResponse
           c == Candidates(cseq)
<1>1. q \in Seq(Sent) /\ NoneTwice(q) /\ Len(q) \in Nat
  OBVIOUS
<1>2. PICK n \in 0 .. Len(q) : c = SubSeq(q, n + 1, Len(q))
  BY CandidatesLast
<1> HIDE DEF q, c
<1>3. /\ SubSeq(q, 1, n) \in Seq(Sent) /\ c \in Seq(Sent)
      /\ Len(c) = Len(q) - n /\ NoneTwice(c)
      /\ Ids(SubSeq(q, 1, n)) \cap Ids(c) = {}
      /\ Ids(q) = Ids(SubSeq(q, 1, n)) \cup Ids(c)
  BY <1>1, <1>2, Parted, Zenon
<1>4. Len(q) - Len(c) = n
  BY <1>1, <1>2, <1>3
<1>5. /\ c \in Seq(Sent) /\ NoneTwice(c) /\ SubSeq(q, 1, Len(q) - Len(c)) \in Seq(Sent)
      /\ Ids(SubSeq(q, 1, Len(q) - Len(c))) \cap Ids(c) = {}
      /\ Ids(q) = Ids(SubSeq(q, 1, Len(q) - Len(c))) \cup Ids(c)
  BY <1>3, <1>4
<1> QED
  BY <1>5 DEF q, c

-----------------------------------------------------------------------------
\* A call is made.
LEMMA PushFrame ==
  ASSUME NEW s, Stacked(s), NEW f \in Frames, Sound(f),
         Holds(f) \cap HeldBy(s) = {}, Failing(f) \cap FailingIn(s) = {}
  PROVE  /\ Stacked(Append(s, f))
         /\ HeldBy(Append(s, f)) = HeldBy(s) \cup Holds(f)
         /\ FailingIn(Append(s, f)) = FailingIn(s) \cup Failing(f)
<1> DEFINE t == Append(s, f)
<1>1. /\ s \in Seq(Frames) /\ t \in Seq(Frames) /\ Len(s) \in Nat
      /\ DOMAIN t = 1 .. Len(s) + 1 /\ DOMAIN s = 1 .. Len(s)
      /\ t[Len(s) + 1] = f /\ \A i \in 1 .. Len(s) : t[i] = s[i]
  BY DEF Stacked
<1> HIDE DEF t
<1>2. \A k \in DOMAIN t : k = Len(s) + 1 \/ k \in DOMAIN s
  BY <1>1
<1>3. \A k \in DOMAIN s : k \in DOMAIN t /\ t[k] = s[k]
  BY <1>1
<1>4. Len(s) + 1 \in DOMAIN t
  BY <1>1
<1>5. \A k \in DOMAIN t : Sound(t[k])
  BY <1>1, <1>2, <1>3 DEF Stacked
<1>6. ASSUME NEW j \in DOMAIN t, NEW k \in DOMAIN t, j # k
      PROVE  /\ Holds(t[j]) \cap Holds(t[k]) = {}
             /\ Failing(t[j]) \cap Failing(t[k]) = {}
  <2>1. ASSUME NEW i \in DOMAIN s
        PROVE  /\ Holds(t[i]) \cap Holds(f) = {}
               /\ Failing(t[i]) \cap Failing(f) = {}
    BY <1>3 DEF HeldBy, FailingIn
  <2>2. CASE j \in DOMAIN s /\ k \in DOMAIN s
    BY <1>3, <1>6, <2>2 DEF Stacked
  <2>3. CASE j = Len(s) + 1
    BY <1>1, <1>2, <1>6, <2>1, <2>3
  <2>4. CASE k = Len(s) + 1
    BY <1>1, <1>2, <1>6, <2>1, <2>4
  <2> QED
    BY <1>2, <2>2, <2>3, <2>4
<1>7. HeldBy(t) = HeldBy(s) \cup Holds(f)
  <2>1. HeldBy(t) \subseteq HeldBy(s) \cup Holds(f)
    BY <1>1, <1>2, <1>3 DEF HeldBy
  <2>2. HeldBy(s) \cup Holds(f) \subseteq HeldBy(t)
    BY <1>1, <1>3, <1>4 DEF HeldBy
  <2> QED
    BY <2>1, <2>2
<1>8. FailingIn(t) = FailingIn(s) \cup Failing(f)
  <2>1. FailingIn(t) \subseteq FailingIn(s) \cup Failing(f)
    BY <1>1, <1>2, <1>3 DEF FailingIn
  <2>2. FailingIn(s) \cup Failing(f) \subseteq FailingIn(t)
    BY <1>1, <1>3, <1>4 DEF FailingIn
  <2> QED
    BY <2>1, <2>2
<1> QED
  BY <1>1, <1>5, <1>6, <1>7, <1>8 DEF Stacked, t

\* The innermost call, those below it, and the stack when it goes on as another.
LEMMA FrontAndLast ==
  ASSUME NEW S, NEW s \in Seq(S), s # <<>>
  PROVE  /\ Front(s) \in Seq(S) /\ Last(s) \in S
         /\ Last(s) = s[Len(s)] /\ Len(s) \in DOMAIN s
         /\ \A k \in DOMAIN s : k = Len(s) \/ k \in DOMAIN Front(s)
         /\ \A k \in DOMAIN Front(s) : k \in DOMAIN s /\ k # Len(s) /\ Front(s)[k] = s[k]
         /\ \A f \in S : [s EXCEPT ![Len(s)] = f] = Append(Front(s), f)
<1> DEFINE t == Front(s)
           n == Len(s) - 1
<1>1. /\ Len(s) \in Nat /\ Len(s) # 0
      /\ DOMAIN s = 1 .. Len(s) /\ n \in Nat /\ Len(s) = n + 1
  BY EmptySeq
<1>2. t = SubSeq(s, 1, n)
  BY DEF Front
<1> HIDE DEF n
<1>3. \A i \in 1 .. n : s[i] \in S
  BY <1>1
<1>4. /\ t \in Seq(S) /\ Len(t) = IF 1 <= n THEN n - 1 + 1 ELSE 0
      /\ \A i \in 1 .. n - 1 + 1 : t[i] = s[1 + i - 1]
  <2> HIDE DEF t
  <2> QED
    BY <1>1, <1>2, <1>3, SubSeqProperties
<1> HIDE DEF t
<1>5. DOMAIN t = 1 .. n /\ Len(t) = n
  <2>1. (IF 1 <= n THEN n - 1 + 1 ELSE 0) = n
    BY <1>1
  <2> QED
    BY <1>4, <2>1
<1>6. \A i \in 1 .. n : t[i] = s[i]
  <2>1. \A i \in 1 .. n : i \in 1 .. n - 1 + 1 /\ 1 + i - 1 = i
    BY <1>1
  <2> QED
    BY <1>4, <2>1
<1>7. Last(s) = s[Len(s)] /\ Len(s) \in DOMAIN s /\ Last(s) \in S
  BY <1>1 DEF Last
<1>8. \A k \in DOMAIN s : k = Len(s) \/ k \in DOMAIN t
  BY <1>1, <1>5
<1>9. \A k \in DOMAIN t : k \in DOMAIN s /\ k # Len(s) /\ t[k] = s[k]
  BY <1>1, <1>5, <1>6
<1>10. ASSUME NEW f \in S
       PROVE  [s EXCEPT ![Len(s)] = f] = Append(t, f)
  <2> DEFINE a == [s EXCEPT ![Len(s)] = f]
             b == Append(t, f)
  <2>1. Len(s) \in 1 .. Len(s)
    BY <1>1
  <2>2. /\ a \in Seq(S) /\ Len(a) = Len(s)
        /\ \A j \in 1 .. Len(s) : a[j] = IF j = Len(s) THEN f ELSE s[j]
    BY <1>1, <2>1, ExceptSeq
  <2>3. /\ b \in Seq(S) /\ Len(b) = n + 1
        /\ \A i \in 1 .. n : b[i] = t[i]
        /\ b[n + 1] = f
    BY <1>4, <1>5, AppendProperties
  <2> HIDE DEF a, b
  <2>4. \A i \in 1 .. Len(a) : a[i] = b[i]
    BY <1>1, <1>6, <2>2, <2>3
  <2>5. a = b
    BY <1>1, <2>2, <2>3, <2>4, SeqEqual
  <2> QED
    BY <2>5 DEF a, b
<1> QED
  BY <1>4, <1>7, <1>8, <1>9, <1>10 DEF t

\* The innermost call returns, or goes on as another.
LEMMA PopFrame ==
  ASSUME NEW s, Stacked(s), s # <<>>
  PROVE  /\ Stacked(Front(s)) /\ Last(s) \in Frames /\ Sound(Last(s))
         /\ HeldBy(s) = HeldBy(Front(s)) \cup Holds(Last(s))
         /\ Holds(Last(s)) \cap HeldBy(Front(s)) = {}
         /\ FailingIn(s) = FailingIn(Front(s)) \cup Failing(Last(s))
         /\ Failing(Last(s)) \cap FailingIn(Front(s)) = {}
         /\ \A f \in Frames : [s EXCEPT ![Len(s)] = f] = Append(Front(s), f)
<1> DEFINE t == Front(s)
           n == Len(s)
<1>1. /\ t \in Seq(Frames) /\ Last(s) \in Frames
      /\ Last(s) = s[n] /\ n \in DOMAIN s
      /\ \A k \in DOMAIN s : k = n \/ k \in DOMAIN t
      /\ \A k \in DOMAIN t : k \in DOMAIN s /\ k # n /\ t[k] = s[k]
      /\ \A f \in Frames : [s EXCEPT ![n] = f] = Append(t, f)
  BY FrontAndLast DEF Stacked
<1> HIDE DEF t, n
<1>2. Stacked(t)
  BY <1>1 DEF Stacked
<1>3. HeldBy(s) = HeldBy(t) \cup Holds(Last(s))
  <2>1. HeldBy(s) \subseteq HeldBy(t) \cup Holds(Last(s))
    BY <1>1 DEF HeldBy
  <2>2. HeldBy(t) \cup Holds(Last(s)) \subseteq HeldBy(s)
    BY <1>1 DEF HeldBy
  <2> QED
    BY <2>1, <2>2
<1>4. FailingIn(s) = FailingIn(t) \cup Failing(Last(s))
  <2>1. FailingIn(s) \subseteq FailingIn(t) \cup Failing(Last(s))
    BY <1>1 DEF FailingIn
  <2>2. FailingIn(t) \cup Failing(Last(s)) \subseteq FailingIn(s)
    BY <1>1 DEF FailingIn
  <2> QED
    BY <2>1, <2>2
<1>5. /\ Holds(Last(s)) \cap HeldBy(t) = {}
      /\ Failing(Last(s)) \cap FailingIn(t) = {}
  BY <1>1 DEF Stacked, HeldBy, FailingIn
<1>6. Last(s) \in Frames /\ Sound(Last(s))
  BY <1>1 DEF Stacked
<1> QED
  BY <1>1, <1>2, <1>3, <1>4, <1>5, <1>6 DEF t, n

\* The innermost call goes on as another.
LEMMA ReplaceFrame ==
  ASSUME NEW s, Stacked(s), s # <<>>, NEW f \in Frames, Sound(f),
         Holds(f) \cap HeldBy(Front(s)) = {},
         Failing(f) \cap FailingIn(Front(s)) = {}
  PROVE  /\ Stacked([s EXCEPT ![Len(s)] = f])
         /\ HeldBy([s EXCEPT ![Len(s)] = f]) = HeldBy(Front(s)) \cup Holds(f)
         /\ FailingIn([s EXCEPT ![Len(s)] = f]) = FailingIn(Front(s)) \cup Failing(f)
<1>1. [s EXCEPT ![Len(s)] = f] = Append(Front(s), f) /\ Stacked(Front(s))
  BY PopFrame
<1>2. /\ Stacked(Append(Front(s), f))
      /\ HeldBy(Append(Front(s), f)) = HeldBy(Front(s)) \cup Holds(f)
      /\ FailingIn(Append(Front(s), f)) = FailingIn(Front(s)) \cup Failing(f)
  BY <1>1, PushFrame
<1> QED
  BY <1>1, <1>2

\* The calls that are made, and what they hold.
LEMMA NewFrame ==
  ASSUME NEW p \in HandlerPoints \cup ClientPoints
  PROVE  /\ Frame(p) \in Frames /\ Frame(p).at = p /\ Frame(p).queue = <<>>
<1>1. <<>> \in Seq(Sent)
  OBVIOUS
<1> QED
  BY <1>1 DEF Frame, Frames

\* What setting a field of a call leaves alone.
LEMMA WithRequest ==
  ASSUME NEW f \in Frames, NEW r \in Sent \cup {NoRequest},
         NEW g, g = [f EXCEPT !.request = r]
  PROVE  g \in Frames /\ g.at = f.at /\ g.queue = f.queue /\ g.request = r
BY DEF Frames

\* What setting a field of a call leaves alone.
LEMMA WithQueue ==
  ASSUME NEW f \in Frames, NEW q \in Seq(Sent), NEW g, g = [f EXCEPT !.queue = q]
  PROVE  g \in Frames /\ g.at = f.at /\ g.queue = q /\ g.request = f.request
BY DEF Frames

\* A call with no queue holds at most the request that is sent again.
LEMMA CallOf ==
  ASSUME NEW f \in Frames, f.queue = <<>>,
         f.at \in {"resend", "resendFailed"} => f.request \in Sent
  PROVE  /\ Sound(f)
         /\ Holds(f) = IF f.at = "resend" THEN {f.request.id} ELSE {}
         /\ Failing(f) = IF f.at = "resendFailed" THEN {f.request.id} ELSE {}
BY NothingIn DEF Sound, Holds, Failing

\* A call that sends or tells a queue holds that queue.
LEMMA CallWithQueue ==
  ASSUME NEW f \in Frames, f.at \in {"resume", "errors", "errorHandler"},
         NoneTwice(f.queue)
  PROVE  Sound(f) /\ Holds(f) = Ids(f.queue) /\ Failing(f) = {}
BY DEF Sound, Holds, Failing

-----------------------------------------------------------------------------
(***************************************************************************)
(* The invariant.                                                          *)
(***************************************************************************)
Waiting == Ids(fRequestsAwaitingConnection)
Expecting == Ids(fRequestsAwaitingResponse)
Held == Waiting \cup Expecting \cup HeldBy(stack)

Outside ==
    /\ fRequestsAwaitingConnection \in Seq(Sent)
    /\ NoneTwice(fRequestsAwaitingConnection)
    /\ fRequestsAwaitingResponse \in Seq(Sent)
    /\ NoneTwice(fRequestsAwaitingResponse)
    /\ Waiting \cap Expecting = {}

\* No request is in two places, nor twice in one.
Queues ==
    Outside /\ Stacked(stack) /\ (Waiting \cup Expecting) \cap HeldBy(stack) = {}

Pieced ==
    /\ fCSeq \in Nat /\ unanswered \in Seq(Nat)
    /\ fResponseBuffer \in Seq(Pieces) /\ incoming \in Seq(Pieces)

\* The handlers of those that are in a place were not called, and the others
\* are told or dropped.
Accounts ==
    /\ issued \in 0 .. MaxRequests /\ calls \in [1 .. MaxRequests -> Nat]
    /\ dropped \subseteq Sent /\ Held \subseteq 1 .. issued
    /\ \A id \in 1 .. MaxRequests :
          /\ id \in Held => calls[id] = 0 /\ ~Dropped(id)
          /\ id \in FailingIn(stack) => calls[id] = 1
          /\ id \in (1 .. issued) \ Held =>
                (Told(id) /\ ~Dropped(id)) \/ (calls[id] = 0 /\ Dropped(id))
          /\ id > issued => calls[id] = 0 /\ ~Dropped(id)

Good == Queues /\ Pieced /\ Accounts

AInv == closed \/ Good

-----------------------------------------------------------------------------
\* The accounts agree again when at most one request is made, one is told, and
\* those that leave all places otherwise are dropped.
LEMMA Settled ==
  ASSUME Accounts, NEW fresh, NEW told, NEW gone \in SUBSET Sent,
         \/ fresh = {} /\ issued' = issued
         \/ /\ fresh = {issued + 1} /\ issued' = issued + 1
            /\ issued < MaxRequests,
         \/ told = {} /\ calls' = calls
         \/ \E id \in Held \cup fresh :
               told = {id} /\ calls' = [calls EXCEPT ![id] = @ + 1],
         dropped' = dropped \cup gone,
         {r.id : r \in gone} \subseteq Held, {r.id : r \in gone} \cap told = {},
         Held' = (Held \cup fresh) \ (told \cup {r.id : r \in gone}),
         FailingIn(stack') \subseteq FailingIn(stack) \cup told,
         failedResends' = failedResends
  PROVE  Accounts'
<1> DEFINE lost == {r.id : r \in gone}
<1>1. /\ issued \in 0 .. MaxRequests /\ calls \in [1 .. MaxRequests -> Nat]
      /\ dropped \subseteq Sent /\ Held \subseteq 1 .. issued /\ MaxRequests \in Nat
  BY ClientAssumption DEF Accounts
<1>2. Held \cup fresh \subseteq 1 .. issued' /\ issued' \in 0 .. MaxRequests
  <2>1. CASE fresh = {} /\ issued' = issued
    BY <1>1, <2>1
  <2>2. CASE fresh = {issued + 1} /\ issued' = issued + 1 /\ issued < MaxRequests
    <3>1. issued' \in 0 .. MaxRequests /\ issued + 1 \in 1 .. issued'
      BY <1>1, <2>2
    <3>2. 1 .. issued \subseteq 1 .. issued'
      BY <1>1, <2>2
    <3> QED
      BY <1>1, <2>2, <3>1, <3>2
  <2> QED
    BY <2>1, <2>2
<1>3. told \subseteq Held \cup fresh /\ Held \cup fresh \subseteq 1 .. MaxRequests
  BY <1>1, <1>2
<1>4. /\ calls' \in [1 .. MaxRequests -> Nat]
      /\ \A id \in 1 .. MaxRequests :
            calls'[id] = IF id \in told THEN calls[id] + 1 ELSE calls[id]
  BY <1>1, <1>3
<1>5. \A id : Dropped(id)' <=> Dropped(id) \/ id \in lost
  BY DEF Dropped
<1>6. Held' = (Held \cup fresh) \ (told \cup lost) /\ lost \subseteq Held
      /\ lost \cap told = {}
  OBVIOUS
<1> HIDE DEF lost
<1>7. ASSUME NEW id \in 1 .. MaxRequests
      PROVE  /\ id \in Held' => calls'[id] = 0 /\ ~Dropped(id)'
             /\ id \in FailingIn(stack') => calls'[id] = 1
             /\ id \in (1 .. issued') \ Held' =>
                   \/ Told(id)' /\ ~Dropped(id)'
                   \/ calls'[id] = 0 /\ Dropped(id)'
             /\ id > issued' => calls'[id] = 0 /\ ~Dropped(id)'
  <2>1. /\ id \in Held => calls[id] = 0 /\ ~Dropped(id)
        /\ id \in FailingIn(stack) => calls[id] = 1
        /\ id \in (1 .. issued) \ Held =>
              (Told(id) /\ ~Dropped(id)) \/ (calls[id] = 0 /\ Dropped(id))
        /\ id > issued => calls[id] = 0 /\ ~Dropped(id)
    BY DEF Accounts
  <2>2. id \in fresh => id > issued
    BY <1>1
  <2>3. id \in Held \cup fresh => calls[id] = 0 /\ ~Dropped(id)
    BY <2>1, <2>2
  <2>4. calls[id] \in Nat
    BY <1>1
  <2>5. CASE id \in told
    <3>1. calls'[id] = 1 /\ ~Dropped(id)' /\ id \notin Held'
      BY <1>3, <1>4, <1>5, <1>6, <2>3, <2>5
    <3>2. id \in 1 .. issued'
      BY <1>2, <1>3, <2>5
    <3> QED
      BY <1>2, <3>1, <3>2 DEF Told
  <2>6. CASE id \in lost
    <3>1. calls'[id] = 0 /\ Dropped(id)' /\ id \notin Held'
      BY <1>4, <1>5, <1>6, <2>3, <2>6
    <3>2. id \in 1 .. issued' /\ id \notin FailingIn(stack')
      BY <1>2, <1>6, <2>1, <2>6
    <3> QED
      BY <1>2, <3>1, <3>2
  <2>7. CASE id \notin told \cup lost
    <3>1. calls'[id] = calls[id] /\ (Dropped(id)' <=> Dropped(id))
      BY <1>4, <1>5, <2>7
    <3>2. id \in Held' <=> id \in Held \cup fresh
      BY <1>6, <2>7
    <3>3. Told(id)' <=> Told(id)
      BY <3>1 DEF Told
    <3>4. id \in (1 .. issued') \ Held' => id \in (1 .. issued) \ Held
      BY <1>1, <3>2
    <3>5. id > issued' => id > issued
      BY <1>1
    <3>6. id \in FailingIn(stack') => id \in FailingIn(stack)
      BY <2>7
    <3> QED
      BY <2>1, <2>3, <3>1, <3>2, <3>3, <3>4, <3>5, <3>6
  <2> QED
    BY <2>5, <2>6, <2>7
<1>8. dropped' \subseteq Sent
  BY <1>1
<1>9. Held' \subseteq 1 .. issued'
  BY <1>2
<1> QED
  BY <1>2, <1>4, <1>7, <1>8, <1>9 DEF Accounts

\* sendRequest() puts the request in one place, or tells its handler.
LEMMA SendPlaces ==
  ASSUME Outside, NEW request \in Sent, NEW done, NEW undone,
         Stacked(done), Stacked(undone), HeldBy(undone) = HeldBy(done),
         (Waiting \cup Expecting) \cap HeldBy(done) = {},
         request.id \notin Waiting \cup Expecting \cup HeldBy(done),
         unanswered \in Seq(Nat),
         SendRequest(request, done, undone)
  PROVE  /\ Queues' /\ unanswered' \in Seq(Nat)
         /\ \/ /\ Held' = Waiting \cup Expecting \cup HeldBy(done) \cup {request.id}
               /\ calls' = calls /\ FailingIn(stack') = FailingIn(done)
            \/ /\ Held' = Waiting \cup Expecting \cup HeldBy(done)
               /\ Called(request) /\ FailingIn(stack') = FailingIn(undone)
<1>1. request.cseq \in Nat
  BY DEF Sent
<1>2. CASE Enqueue(request, done)
  <2>1. /\ fRequestsAwaitingConnection' = Append(fRequestsAwaitingConnection, request)
        /\ fRequestsAwaitingResponse' = fRequestsAwaitingResponse
        /\ stack' = done /\ unanswered' = unanswered /\ calls' = calls
    BY <1>2 DEF Enqueue
  <2>2. /\ fRequestsAwaitingConnection' \in Seq(Sent)
        /\ NoneTwice(fRequestsAwaitingConnection')
        /\ Waiting' = Waiting \cup {request.id} /\ Expecting' = Expecting
    BY <2>1, PutLast DEF Outside, Waiting, Expecting
  <2>3. Queues'
    BY <2>1, <2>2 DEF Queues, Outside
  <2> QED
    BY <2>1, <2>2, <2>3 DEF Held
<1>3. CASE Send(request, done)
  <2>1. /\ fRequestsAwaitingResponse' = Append(fRequestsAwaitingResponse, request)
        /\ fRequestsAwaitingConnection' = fRequestsAwaitingConnection
        /\ stack' = done /\ calls' = calls
        /\ unanswered' = Append(unanswered, request.cseq)
    BY <1>3 DEF Send
  <2>2. /\ fRequestsAwaitingResponse' \in Seq(Sent)
        /\ NoneTwice(fRequestsAwaitingResponse')
        /\ Expecting' = Expecting \cup {request.id} /\ Waiting' = Waiting
    BY <2>1, PutLast DEF Outside, Waiting, Expecting
  <2>3. Queues' /\ unanswered' \in Seq(Nat)
    BY <1>1, <2>1, <2>2 DEF Queues, Outside
  <2> QED
    BY <2>1, <2>2, <2>3 DEF Held
<1>4. CASE Fail(request, undone)
  <2> DEFINE f == [Frame("failedHandler") EXCEPT !.request = request]
  <2>1. /\ UNCHANGED <<fRequestsAwaitingConnection, fRequestsAwaitingResponse,
                       unanswered>>
        /\ Called(request) /\ stack' = Append(undone, f)
    BY <1>4 DEF Fail, queueVars
  <2>2. /\ Frame("failedHandler") \in Frames
        /\ Frame("failedHandler").at = "failedHandler"
        /\ Frame("failedHandler").queue = <<>>
    BY NewFrame DEF HandlerPoints
  <2>3. f \in Frames /\ Sound(f) /\ Holds(f) = {} /\ Failing(f) = {}
    <3> HIDE DEF f
    <3>1. f \in Frames /\ f.at = "failedHandler" /\ f.queue = <<>>
      BY <2>2, WithRequest DEF f
    <3> QED
      BY <3>1, CallOf
  <2> HIDE DEF f
  <2>4. /\ Stacked(stack') /\ HeldBy(stack') = HeldBy(undone)
        /\ FailingIn(stack') = FailingIn(undone)
    <3>1. Holds(f) \cap HeldBy(undone) = {} /\ Failing(f) \cap FailingIn(undone) = {}
      BY <2>3
    <3>2. /\ Stacked(Append(undone, f))
          /\ HeldBy(Append(undone, f)) = HeldBy(undone) \cup Holds(f)
          /\ FailingIn(Append(undone, f)) = FailingIn(undone) \cup Failing(f)
      BY <2>3, <3>1, PushFrame, Zenon
    <3>3. /\ Stacked(stack') /\ HeldBy(stack') = HeldBy(undone) \cup Holds(f)
          /\ FailingIn(stack') = FailingIn(undone) \cup Failing(f)
      BY <2>1, <3>2, Zenon
    <3> QED
      BY <2>3, <3>3
  <2>5. Waiting' = Waiting /\ Expecting' = Expecting
    BY <2>1 DEF Waiting, Expecting
  <2>6. Queues'
    BY <2>1, <2>4, <2>5 DEF Queues, Outside
  <2> QED
    BY <2>1, <2>4, <2>5, <2>6 DEF Held
<1> QED
  BY <1>2, <1>3, <1>4 DEF SendRequest

\* Nobody is told, or one.
LEMMA NobodyTold ==
  ASSUME Accounts, UNCHANGED <<issued, calls, dropped, failedResends>>,
         Held' = Held, FailingIn(stack') \subseteq FailingIn(stack)
  PROVE  Accounts'
<1> DEFINE none == {}
<1>1. /\ none \in SUBSET Sent /\ dropped' = dropped \cup none
      /\ {r.id : r \in none} = {} /\ {r.id : r \in none} \subseteq Held
      /\ {r.id : r \in none} \cap none = {}
      /\ Held' = (Held \cup none) \ (none \cup {r.id : r \in none})
      /\ FailingIn(stack') \subseteq FailingIn(stack) \cup none
  OBVIOUS
<1>2. none = {} /\ issued' = issued /\ calls' = calls
  OBVIOUS
<1> HIDE DEF none
<1> QED
  BY <1>1, <1>2, Settled

\* The handler of one request is called, and it is held no more.
LEMMA OneTold ==
  ASSUME Accounts, UNCHANGED <<issued, dropped, failedResends>>, NEW id \in Held,
         calls' = [calls EXCEPT ![id] = @ + 1],
         Held' = Held \ {id}, FailingIn(stack') \subseteq FailingIn(stack) \cup {id}
  PROVE  Accounts'
<1> DEFINE none == {}
           told == {id}
<1>1. /\ none \in SUBSET Sent /\ dropped' = dropped \cup none
      /\ {r.id : r \in none} = {} /\ {r.id : r \in none} \subseteq Held
      /\ {r.id : r \in none} \cap told = {}
      /\ Held' = (Held \cup none) \ (told \cup {r.id : r \in none})
      /\ FailingIn(stack') \subseteq FailingIn(stack) \cup told
      /\ id \in Held \cup none
  OBVIOUS
<1>2. none = {} /\ issued' = issued /\ told = {id}
  OBVIOUS
<1> HIDE DEF none, told
<1> QED
  BY <1>1, <1>2, Settled

-----------------------------------------------------------------------------
Below == Front(stack)

\* The innermost call and those below it, apart from one another.
LEMMA TopOfStack ==
  ASSUME Stacked(stack), stack # <<>>
  PROVE  /\ Stacked(Below) /\ Top \in Frames /\ Sound(Top)
         /\ HeldBy(stack) = HeldBy(Below) \cup Holds(Top)
         /\ Holds(Top) \cap HeldBy(Below) = {}
         /\ FailingIn(stack) = FailingIn(Below) \cup Failing(Top)
         /\ Failing(Top) \cap FailingIn(Below) = {}
BY PopFrame DEF Below, Top

\* The stack after a call.
LEMMA Pushes ==
  ASSUME Stacked(stack), NEW f \in Frames, Sound(f), stack' = Append(stack, f),
         Holds(f) \cap HeldBy(stack) = {}, Failing(f) \cap FailingIn(stack) = {}
  PROVE  /\ Stacked(stack') /\ HeldBy(stack') = HeldBy(stack) \cup Holds(f)
         /\ FailingIn(stack') = FailingIn(stack) \cup Failing(f)
<1>1. /\ Stacked(Append(stack, f))
      /\ HeldBy(Append(stack, f)) = HeldBy(stack) \cup Holds(f)
      /\ FailingIn(Append(stack, f)) = FailingIn(stack) \cup Failing(f)
  BY PushFrame, Zenon
<1> QED
  BY <1>1, Zenon

\* The stack when the innermost call goes on as another.
LEMMA Replaces ==
  ASSUME Stacked(stack), stack # <<>>, NEW f \in Frames, Sound(f),
         NEW s, s = Replaced(f),
         Holds(f) \cap HeldBy(Below) = {}, Failing(f) \cap FailingIn(Below) = {}
  PROVE  /\ Stacked(s) /\ HeldBy(s) = HeldBy(Below) \cup Holds(f)
         /\ FailingIn(s) = FailingIn(Below) \cup Failing(f)
<1>1. /\ Stacked(Replaced(f)) /\ HeldBy(Replaced(f)) = HeldBy(Below) \cup Holds(f)
      /\ FailingIn(Replaced(f)) = FailingIn(Below) \cup Failing(f)
  BY ReplaceFrame, Zenon DEF Replaced, Below
<1> QED
  BY <1>1, Zenon

\* Nothing but the calls changes.
LEMMA OtherCalls ==
  ASSUME Queues, UNCHANGED queueVars, Stacked(stack'),
         HeldBy(stack') \subseteq HeldBy(stack)
  PROVE  /\ Queues' /\ Waiting' = Waiting /\ Expecting' = Expecting
         /\ Held' = Waiting \cup Expecting \cup HeldBy(stack')
<1>1. /\ fRequestsAwaitingConnection' = fRequestsAwaitingConnection
      /\ fRequestsAwaitingResponse' = fRequestsAwaitingResponse
  BY DEF queueVars
<1>2. Waiting' = Waiting /\ Expecting' = Expecting
  BY <1>1 DEF Waiting, Expecting
<1> QED
  BY <1>1, <1>2 DEF Queues, Outside, Held

\* A call that holds nothing returns.
LEMMA CallReturns ==
  ASSUME Queues, Accounts, stack # <<>>, stack' = Front(stack), Holds(Top) = {},
         UNCHANGED <<queueVars, issued, calls, dropped, failedResends>>
  PROVE  Queues' /\ Accounts'
<1>1. /\ Stacked(stack') /\ HeldBy(stack') = HeldBy(stack)
      /\ FailingIn(stack') \subseteq FailingIn(stack)
  BY TopOfStack DEF Queues, Below
<1>2. Queues' /\ Held' = Held
  BY <1>1, OtherCalls DEF Held
<1> QED
  BY <1>1, <1>2, NobodyTold

\* A call that holds nothing is made.
LEMMA CallIsMade ==
  ASSUME Queues, Accounts, NEW p \in HandlerPoints \cup ClientPoints,
         p \notin {"resend", "resendFailed"}, stack' = Append(stack, Frame(p)),
         UNCHANGED <<queueVars, issued, calls, dropped, failedResends>>
  PROVE  Queues' /\ Accounts'
<1> DEFINE f == Frame(p)
<1>1. f \in Frames /\ f.at = p /\ f.queue = <<>> /\ stack' = Append(stack, f)
  BY NewFrame
<1> HIDE DEF f
<1>2. Sound(f) /\ Holds(f) = {} /\ Failing(f) = {}
  BY <1>1, CallOf
<1>3. /\ Stacked(stack') /\ HeldBy(stack') = HeldBy(stack)
      /\ FailingIn(stack') = FailingIn(stack)
  BY <1>1, <1>2, Pushes DEF Queues
<1>4. Queues' /\ Held' = Held
  BY <1>3, OtherCalls DEF Held
<1> QED
  BY <1>3, <1>4, NobodyTold

\* A queue is taken over by the call that handles it.
LEMMA QueueTaken ==
  ASSUME Queues, Accounts, NEW p \in {"resume", "errors"}, NEW q,
         \/ /\ q = fRequestsAwaitingConnection
            /\ fRequestsAwaitingConnection' = <<>>
            /\ UNCHANGED fRequestsAwaitingResponse
         \/ /\ q = fRequestsAwaitingResponse
            /\ fRequestsAwaitingResponse' = <<>>
            /\ UNCHANGED fRequestsAwaitingConnection,
         stack' = Append(stack, [Frame(p) EXCEPT !.queue = q]),
         UNCHANGED <<issued, calls, dropped, failedResends>>
  PROVE  Queues' /\ Accounts'
<1> DEFINE f == [Frame(p) EXCEPT !.queue = q]
<1>1. q \in Seq(Sent) /\ NoneTwice(q)
  BY DEF Queues, Outside
<1>2. p \in HandlerPoints \cup ClientPoints
  BY DEF ClientPoints
<1>3. Frame(p) \in Frames /\ Frame(p).at = p
  BY <1>2, NewFrame
<1>4. stack' = Append(stack, f)
  OBVIOUS
<1>5. f \in Frames /\ f.at = p /\ f.queue = q
  <2> HIDE DEF f
  <2> QED
    BY <1>1, <1>3, WithQueue DEF f
<1> HIDE DEF f
<1>6. Sound(f) /\ Holds(f) = Ids(q) /\ Failing(f) = {}
  BY <1>1, <1>5, CallWithQueue
<1>7. Ids(q) \cap HeldBy(stack) = {}
  BY DEF Queues, Waiting, Expecting
<1>8. /\ Stacked(stack') /\ HeldBy(stack') = HeldBy(stack) \cup Ids(q)
      /\ FailingIn(stack') = FailingIn(stack)
  BY <1>4, <1>5, <1>6, <1>7, Pushes DEF Queues
<1>9. Queues' /\ Held' = Held
  <2>1. CASE /\ q = fRequestsAwaitingConnection
             /\ fRequestsAwaitingConnection' = <<>>
             /\ UNCHANGED fRequestsAwaitingResponse
    <3>1. /\ Waiting' = {} /\ Expecting' = Expecting /\ Ids(q) = Waiting
          /\ <<>> \in Seq(Sent) /\ NoneTwice(<<>>)
      BY <2>1, NothingIn DEF Waiting, Expecting
    <3> QED
      BY <1>8, <2>1, <3>1 DEF Queues, Outside, Held
  <2>2. CASE /\ q = fRequestsAwaitingResponse
             /\ fRequestsAwaitingResponse' = <<>>
             /\ UNCHANGED fRequestsAwaitingConnection
    <3>1. /\ Expecting' = {} /\ Waiting' = Waiting /\ Ids(q) = Expecting
          /\ <<>> \in Seq(Sent) /\ NoneTwice(<<>>)
      BY <2>2, NothingIn DEF Waiting, Expecting
    <3> QED
      BY <1>8, <2>2, <3>1 DEF Queues, Outside, Held
  <2> QED
    BY <2>1, <2>2
<1> QED
  BY <1>8, <1>9, NobodyTold

-----------------------------------------------------------------------------
(***************************************************************************)
(* The actions.                                                            *)
(***************************************************************************)
\* connectionHandler1() and the loss of a connection take over a queue.
LEMMA ConnectionEndKeeps ==
  ASSUME Good, ConnectionSucceeds \/ ConnectionFails \/ ConnectionLost
  PROVE  Good'
<1>1. Queues /\ Pieced /\ Accounts
  BY DEF Good
<1>2. UNCHANGED <<issued, calls, dropped, failedResends>>
  BY DEF ConnectionSucceeds, ConnectionFails, ConnectionLost, historyVars
<1>3. Pieced'
  <2>1. <<>> \in Seq(Nat) /\ <<>> \in Seq(Pieces)
    OBVIOUS
  <2>2. /\ fCSeq' = fCSeq
        /\ unanswered' \in {unanswered, <<>>} /\ incoming' \in {incoming, <<>>}
        /\ fResponseBuffer' \in {fResponseBuffer, <<>>}
    BY DEF ConnectionSucceeds, ConnectionFails, ConnectionLost,
           ResetTCPSockets, ResetResponseBuffer, serverVars
  <2> QED
    BY <1>1, <2>1, <2>2 DEF Pieced
<1>4. CASE ConnectionSucceeds
  <2>1. /\ fRequestsAwaitingConnection' = <<>> /\ UNCHANGED fRequestsAwaitingResponse
        /\ stack' = Append(stack, [Frame("resume") EXCEPT
                                      !.queue = fRequestsAwaitingConnection])
    BY <1>4 DEF ConnectionSucceeds, QueueCleared
  <2>2. Queues' /\ Accounts'
    BY <1>1, <1>2, <2>1, QueueTaken
  <2> QED
    BY <1>3, <2>2 DEF Good
<1>5. CASE ConnectionFails
  <2>1. /\ fRequestsAwaitingConnection' = <<>> /\ UNCHANGED fRequestsAwaitingResponse
        /\ stack' = Append(stack, [Frame("errors") EXCEPT
                                      !.queue = fRequestsAwaitingConnection])
    BY <1>5 DEF ConnectionFails, QueueCleared
  <2>2. Queues' /\ Accounts'
    BY <1>1, <1>2, <2>1, QueueTaken
  <2> QED
    BY <1>3, <2>2 DEF Good
<1>6. CASE ConnectionLost
  <2>1. /\ fRequestsAwaitingResponse' = <<>> /\ UNCHANGED fRequestsAwaitingConnection
        /\ stack' = Append(stack, [Frame("errors") EXCEPT
                                      !.queue = fRequestsAwaitingResponse])
    BY <1>6 DEF ConnectionLost
  <2>2. Queues' /\ Accounts'
    BY <1>1, <1>2, <2>1, QueueTaken
  <2> QED
    BY <1>3, <2>2 DEF Good
<1> QED
  BY <1>4, <1>5, <1>6

\* The calls and returns that hold nothing.
LEMMA PassingKeeps ==
  ASSUME Good, IncomingData \/ QueueHandled \/ NoHeader \/ NotAResponse
  PROVE  Good'
<1>1. Queues /\ Pieced /\ Accounts
  BY DEF Good
<1>2. UNCHANGED <<queueVars, issued, calls, dropped, failedResends>>
  BY DEF IncomingData, QueueHandled, NoHeader, NotAResponse, historyVars, queueVars
<1>3. Pieced'
  <2>1. CASE IncomingData
    <3>1. PICK n \in 1 .. Len(incoming) :
             /\ fResponseBuffer' = fResponseBuffer \o SubSeq(incoming, 1, n)
             /\ incoming' = SubSeq(incoming, n + 1, Len(incoming))
      BY <2>1 DEF IncomingData
    <3>2. /\ SubSeq(incoming, 1, n) \in Seq(Pieces) /\ incoming' \in Seq(Pieces)
      BY <1>1, <3>1 DEF Pieced
    <3>3. fResponseBuffer' \in Seq(Pieces)
      BY <1>1, <3>1, <3>2 DEF Pieced
    <3>4. fCSeq' = fCSeq /\ unanswered' = unanswered
      BY <2>1 DEF IncomingData
    <3> QED
      BY <1>1, <3>2, <3>3, <3>4 DEF Pieced
  <2>2. CASE QueueHandled \/ NoHeader \/ NotAResponse
    <3>1. /\ fCSeq' = fCSeq /\ unanswered' = unanswered /\ incoming' = incoming
          /\ fResponseBuffer' \in {fResponseBuffer, <<>>}
      BY <2>2 DEF QueueHandled, NoHeader, NotAResponse, ResetResponseBuffer,
                  serverVars
    <3>2. <<>> \in Seq(Pieces)
      OBVIOUS
    <3> QED
      BY <1>1, <3>1, <3>2 DEF Pieced
  <2> QED
    BY <2>1, <2>2
<1>4. CASE IncomingData
  <2>1. stack' = Append(stack, Frame("parse"))
    BY <1>4 DEF IncomingData
  <2>2. "parse" \in HandlerPoints \cup ClientPoints
    BY DEF ClientPoints
  <2>3. Queues' /\ Accounts'
    BY <1>1, <1>2, <2>1, <2>2, CallIsMade
  <2> QED
    BY <1>3, <2>3 DEF Good
<1>5. CASE QueueHandled \/ NoHeader \/ NotAResponse
  <2>1. /\ stack # <<>> /\ stack' = Front(stack)
        /\ \/ Top.at \in {"resume", "errors"} /\ Top.queue = <<>>
           \/ Top.at = "parse"
    BY <1>5 DEF QueueHandled, NoHeader, NotAResponse, At
  <2>2. Top \in Frames /\ Sound(Top)
    BY <1>1, <2>1, TopOfStack DEF Queues
  <2>3. Top.queue = <<>> /\ Top.at # "resend"
    BY <2>1, <2>2 DEF Sound
  <2>4. Holds(Top) = {}
    BY <2>3, NothingIn DEF Holds
  <2>5. Queues' /\ Accounts'
    BY <1>1, <1>2, <2>1, <2>4, CallReturns
  <2> QED
    BY <1>3, <2>5 DEF Good
<1> QED
  BY <1>4, <1>5

\* One of the requests of a lost connection is told.
LEMMA NextErrorKeeps ==
  ASSUME Good, NextError
  PROVE  Good'
<1> DEFINE r == Head(Top.queue)
           q == Tail(Top.queue)
           f == [Top EXCEPT !.at = "errorHandler", !.request = r, !.queue = q]
<1>1. Queues /\ Pieced /\ Accounts
  BY DEF Good
<1>2. /\ stack # <<>> /\ Top.at = "errors" /\ Top.queue # <<>>
      /\ stack' = Replaced(f)
      /\ calls' = [calls EXCEPT ![r.id] = @ + 1]
      /\ UNCHANGED <<queueVars, issued, dropped, failedResends>>
  BY DEF NextError, At, Called
<1>3. Pieced'
  BY <1>1 DEF Pieced, NextError, serverVars
<1>4. /\ Top \in Frames /\ Sound(Top)
      /\ HeldBy(stack) = HeldBy(Below) \cup Holds(Top)
      /\ Holds(Top) \cap HeldBy(Below) = {}
      /\ FailingIn(stack) = FailingIn(Below) \cup Failing(Top)
  BY <1>1, <1>2, TopOfStack DEF Queues
<1>5. /\ Top.queue \in Seq(Sent) /\ NoneTwice(Top.queue)
      /\ Holds(Top) = Ids(Top.queue)
  <2>1. Top.queue \in Seq(Sent)
    BY <1>4 DEF Frames
  <2> QED
    BY <1>2, <1>4, <2>1 DEF Holds, Sound
<1>6. /\ r \in Sent /\ q \in Seq(Sent) /\ NoneTwice(q)
      /\ Ids(Top.queue) = Ids(q) \cup {r.id} /\ r.id \notin Ids(q)
  BY <1>2, <1>5, TakeHead
<1>7. f \in Frames /\ f.at = "errorHandler" /\ f.queue = q
  <2> HIDE DEF r, q
  <2>1. "errorHandler" \in HandlerPoints \cup ClientPoints /\ Top \in Frames
    BY <1>4 DEF HandlerPoints
  <2>2. r \in Sent /\ q \in Seq(Sent)
    BY <1>6
  <2>3. f = [Top EXCEPT !.at = "errorHandler", !.request = r, !.queue = q]
    BY Zenon
  <2> HIDE DEF f
  <2> QED
    BY <2>1, <2>2, <2>3 DEF Frames
<1> HIDE DEF f, r, q
<1>8. Sound(f) /\ Holds(f) = Ids(q) /\ Failing(f) = {}
  <2>1. f \in Frames /\ f.at \in {"resume", "errors", "errorHandler"}
        /\ NoneTwice(f.queue)
    BY <1>6, <1>7
  <2> QED
    BY <1>7, <2>1, CallWithQueue
<1>9. /\ Stacked(stack') /\ HeldBy(stack') = HeldBy(Below) \cup Ids(q)
      /\ FailingIn(stack') = FailingIn(Below)
  <2>1. Stacked(stack)
    BY <1>1 DEF Queues
  <2>2. Holds(f) \cap HeldBy(Below) = {} /\ Failing(f) \cap FailingIn(Below) = {}
    BY <1>4, <1>5, <1>6, <1>8
  <2>3. /\ Stacked(stack') /\ HeldBy(stack') = HeldBy(Below) \cup Holds(f)
        /\ FailingIn(stack') = FailingIn(Below) \cup Failing(f)
    BY <1>2, <1>7, <1>8, <2>1, <2>2, Replaces
  <2> QED
    BY <1>8, <2>3
<1>10. HeldBy(stack') = HeldBy(stack) \ {r.id} /\ r.id \in HeldBy(stack)
  BY <1>4, <1>5, <1>6, <1>9
<1>11. Queues' /\ Held' = Waiting \cup Expecting \cup HeldBy(stack')
  BY <1>1, <1>2, <1>9, <1>10, OtherCalls
<1>12. Held' = Held \ {r.id} /\ r.id \in Held
  BY <1>1, <1>10, <1>11 DEF Held, Queues
<1>13. Accounts'
  BY <1>1, <1>2, <1>4, <1>9, <1>12, OneTold
<1> QED
  BY <1>3, <1>11, <1>13 DEF Good

\* A new request of the program: in a queue, or told at once.
LEMMA SendCommandKeeps ==
  ASSUME Good, SendCommand
  PROVE  Good'
<1> DEFINE request == [id |-> issued + 1, cseq |-> fCSeq + 1]
           fresh == {issued + 1}
           none == {}
<1>1. Queues /\ Pieced /\ Accounts
  BY DEF Good
<1>2. /\ issued < MaxRequests /\ issued' = issued + 1 /\ fCSeq' = fCSeq + 1
      /\ SendRequest(request, stack, stack)
      /\ UNCHANGED <<fResponseBuffer, incoming, dropped, failedResends>>
  BY DEF SendCommand, SendRequest
<1>3. /\ issued \in 0 .. MaxRequests /\ Held \subseteq 1 .. issued
      /\ MaxRequests \in Nat /\ fCSeq \in Nat
  BY <1>1, ClientAssumption DEF Accounts, Pieced
<1>4. request \in Sent /\ request.id = issued + 1 /\ issued + 1 \notin Held
  <2>1. issued + 1 \in 1 .. MaxRequests /\ fCSeq + 1 \in Nat
    BY <1>2, <1>3
  <2> QED
    BY <1>3, <2>1 DEF Sent
<1> HIDE DEF request
<1>5. /\ Queues' /\ unanswered' \in Seq(Nat) /\ FailingIn(stack') = FailingIn(stack)
      /\ \/ Held' = Held \cup fresh /\ calls' = calls
         \/ Held' = Held /\ Called(request)
  <2>1. request.id \notin Waiting \cup Expecting \cup HeldBy(stack)
    BY <1>4 DEF Held
  <2>2. /\ Queues' /\ unanswered' \in Seq(Nat)
        /\ \/ /\ Held' = Waiting \cup Expecting \cup HeldBy(stack) \cup {request.id}
              /\ calls' = calls /\ FailingIn(stack') = FailingIn(stack)
           \/ /\ Held' = Waiting \cup Expecting \cup HeldBy(stack)
              /\ Called(request) /\ FailingIn(stack') = FailingIn(stack)
    BY <1>1, <1>2, <1>4, <2>1, SendPlaces DEF Queues, Pieced
  <2> QED
    BY <1>4, <2>2 DEF Held
<1>6. Pieced'
  BY <1>1, <1>2, <1>3, <1>5 DEF Pieced
<1>7. Accounts'
  <2>1. /\ none \in SUBSET Sent /\ dropped' = dropped \cup none
        /\ {r.id : r \in none} = {}
    BY <1>2
  <2>2. CASE Held' = Held \cup fresh /\ calls' = calls
    <3>1. /\ {r.id : r \in none} \subseteq Held
          /\ {r.id : r \in none} \cap none = {}
          /\ Held' = (Held \cup fresh) \ (none \cup {r.id : r \in none})
          /\ FailingIn(stack') \subseteq FailingIn(stack) \cup none
      BY <1>5, <2>1, <2>2
    <3>2. none = {} /\ fresh = {issued + 1}
      OBVIOUS
    <3> HIDE DEF none, fresh
    <3> QED
      BY <1>1, <1>2, <2>1, <2>2, <3>1, <3>2, Settled
  <2>3. CASE Held' = Held /\ Called(request)
    <3>1. /\ {r.id : r \in none} \subseteq Held
          /\ {r.id : r \in none} \cap fresh = {}
          /\ Held' = (Held \cup fresh) \ (fresh \cup {r.id : r \in none})
          /\ FailingIn(stack') \subseteq FailingIn(stack) \cup fresh
      BY <1>4, <1>5, <2>1, <2>3
    <3>2. /\ fresh = {issued + 1} /\ issued + 1 \in Held \cup fresh
          /\ calls' = [calls EXCEPT ![issued + 1] = @ + 1]
      BY <1>4, <2>3 DEF Called
    <3> HIDE DEF none, fresh
    <3> QED
      BY <1>1, <1>2, <2>1, <3>1, <3>2, Settled
  <2> QED
    BY <1>5, <2>2, <2>3
<1> QED
  BY <1>5, <1>6, <1>7 DEF Good

\* One of the requests that waited for the connection is sent.
LEMMA ResumeSendingKeeps ==
  ASSUME Good, ResumeSending
  PROVE  Good'
<1> DEFINE r == Head(Top.queue)
           q == Tail(Top.queue)
           f == [Top EXCEPT !.queue = q]
           rest == Replaced(f)
<1>1. Queues /\ Pieced /\ Accounts
  BY DEF Good
<1>2. /\ stack # <<>> /\ Top.at = "resume" /\ Top.queue # <<>>
      /\ SendRequest(r, rest, rest)
      /\ UNCHANGED <<fCSeq, fResponseBuffer, incoming, issued, dropped, failedResends>>
  BY DEF ResumeSending, At, SendRequest
<1>3. /\ Top \in Frames /\ Sound(Top)
      /\ HeldBy(stack) = HeldBy(Below) \cup Holds(Top)
      /\ Holds(Top) \cap HeldBy(Below) = {}
      /\ FailingIn(stack) = FailingIn(Below) \cup Failing(Top)
  BY <1>1, <1>2, TopOfStack DEF Queues
<1>4. /\ Top.queue \in Seq(Sent) /\ NoneTwice(Top.queue)
      /\ Holds(Top) = Ids(Top.queue)
  <2>1. Top.queue \in Seq(Sent)
    BY <1>3 DEF Frames
  <2> QED
    BY <1>2, <1>3, <2>1 DEF Holds, Sound
<1>5. /\ r \in Sent /\ q \in Seq(Sent) /\ NoneTwice(q)
      /\ Ids(Top.queue) = Ids(q) \cup {r.id} /\ r.id \notin Ids(q)
  BY <1>2, <1>4, TakeHead
<1>6. f \in Frames /\ f.at = "resume" /\ f.queue = q
  <2> HIDE DEF f, r, q
  <2> QED
    BY <1>2, <1>3, <1>5, WithQueue DEF f
<1> HIDE DEF f, r, q
<1>7. Sound(f) /\ Holds(f) = Ids(q) /\ Failing(f) = {}
  <2>1. f \in Frames /\ f.at \in {"resume", "errors", "errorHandler"}
        /\ NoneTwice(f.queue)
    BY <1>5, <1>6
  <2> QED
    BY <1>6, <2>1, CallWithQueue
<1>8. /\ Stacked(rest) /\ HeldBy(rest) = HeldBy(Below) \cup Ids(q)
      /\ FailingIn(rest) = FailingIn(Below)
  <2>1. Stacked(stack) /\ rest = Replaced(f)
    BY <1>1 DEF Queues
  <2>2. Holds(f) \cap HeldBy(Below) = {} /\ Failing(f) \cap FailingIn(Below) = {}
    BY <1>3, <1>4, <1>5, <1>7
  <2> HIDE DEF rest
  <2>3. /\ Stacked(rest) /\ HeldBy(rest) = HeldBy(Below) \cup Holds(f)
        /\ FailingIn(rest) = FailingIn(Below) \cup Failing(f)
    BY <1>2, <1>6, <1>7, <2>1, <2>2, Replaces
  <2> QED
    BY <1>7, <2>3
<1> HIDE DEF rest
<1>9. r.id \in HeldBy(stack) /\ HeldBy(rest) = HeldBy(stack) \ {r.id}
  BY <1>3, <1>4, <1>5, <1>8
<1>10. /\ Queues' /\ unanswered' \in Seq(Nat) /\ FailingIn(stack') = FailingIn(rest)
       /\ \/ Held' = Held /\ calls' = calls
          \/ Held' = Held \ {r.id} /\ calls' = [calls EXCEPT ![r.id] = @ + 1]
  <2>1. /\ Outside /\ unanswered \in Seq(Nat)
        /\ (Waiting \cup Expecting) \cap HeldBy(stack) = {}
    BY <1>1 DEF Queues, Pieced
  <2>2. /\ (Waiting \cup Expecting) \cap HeldBy(rest) = {}
        /\ r.id \notin Waiting \cup Expecting \cup HeldBy(rest)
    BY <1>9, <2>1
  <2>3. /\ Queues' /\ unanswered' \in Seq(Nat)
        /\ \/ /\ Held' = Waiting \cup Expecting \cup HeldBy(rest) \cup {r.id}
              /\ calls' = calls /\ FailingIn(stack') = FailingIn(rest)
           \/ /\ Held' = Waiting \cup Expecting \cup HeldBy(rest)
              /\ Called(r) /\ FailingIn(stack') = FailingIn(rest)
    BY <1>2, <1>5, <1>8, <2>1, <2>2, SendPlaces
  <2>4. /\ Waiting \cup Expecting \cup HeldBy(rest) \cup {r.id} = Held
        /\ Waiting \cup Expecting \cup HeldBy(rest) = Held \ {r.id}
    BY <1>9, <2>1 DEF Held
  <2> QED
    BY <2>3, <2>4 DEF Called
<1>11. Pieced'
  BY <1>1, <1>2, <1>10 DEF Pieced
<1>12. Accounts'
  <2>1. FailingIn(stack') \subseteq FailingIn(stack) /\ r.id \in Held
    BY <1>3, <1>8, <1>9, <1>10 DEF Held
  <2>2. CASE Held' = Held /\ calls' = calls
    BY <1>1, <1>2, <2>1, <2>2, NobodyTold
  <2>3. CASE Held' = Held \ {r.id} /\ calls' = [calls EXCEPT ![r.id] = @ + 1]
    BY <1>1, <1>2, <2>1, <2>3, OneTold
  <2> QED
    BY <1>10, <2>2, <2>3
<1> QED
  BY <1>10, <1>11, <1>12 DEF Good

\* A request is sent again, or told once that it was not.
LEMMA ResendCommandKeeps ==
  ASSUME Good, ResendCommand
  PROVE  Good'
<1> DEFINE id == Top.request.id
           request == [Top.request EXCEPT !.cseq = NextCSeq]
           f == [Frame("resendFailed") EXCEPT !.request = request, !.more = Top.more]
           undone == Replaced(f)
<1>1. Queues /\ Pieced /\ Accounts
  BY DEF Good
<1>2. /\ stack # <<>> /\ Top.at = "resend" /\ fCSeq' = fCSeq + 1
      /\ SendRequest(request, Below, undone)
      /\ UNCHANGED <<fResponseBuffer, incoming, issued, dropped, failedResends>>
  BY DEF ResendCommand, At, SendRequest, Below
<1>3. /\ Stacked(Below) /\ Top \in Frames /\ Sound(Top)
      /\ HeldBy(stack) = HeldBy(Below) \cup Holds(Top)
      /\ Holds(Top) \cap HeldBy(Below) = {}
      /\ FailingIn(stack) = FailingIn(Below) \cup Failing(Top)
  BY <1>1, <1>2, TopOfStack DEF Queues
<1>4. Top.request \in Sent /\ Holds(Top) = {id}
  BY <1>2, <1>3, NothingIn DEF Sound, Holds
<1>5. request \in Sent /\ request.id = id /\ fCSeq' \in Nat
  <2>1. NextCSeq \in Nat /\ fCSeq' \in Nat
    BY <1>1, <1>2 DEF Pieced, NextCSeq
  <2> QED
    BY <1>4, <2>1 DEF Sent
<1> HIDE DEF request
<1>6. f \in Frames /\ f.at = "resendFailed" /\ f.queue = <<>> /\ f.request = request
  <2>1. /\ Frame("resendFailed") \in Frames /\ Frame("resendFailed").queue = <<>>
        /\ Frame("resendFailed").at = "resendFailed"
    BY NewFrame DEF ClientPoints
  <2>2. Top.more \in BOOLEAN
    BY <1>3 DEF Frames
  <2> QED
    BY <1>5, <2>1, <2>2 DEF f, Frames
<1> HIDE DEF f
<1>7. Sound(f) /\ Holds(f) = {} /\ Failing(f) = {id}
  BY <1>5, <1>6, CallOf
<1>8. id \in Held /\ id \in 1 .. MaxRequests /\ calls[id] = 0 /\ id \notin FailingIn(Below)
  <2>1. id \in Held /\ id \in 1 .. MaxRequests
    BY <1>3, <1>4 DEF Held, Sent
  <2> QED
    BY <1>1, <1>3, <2>1 DEF Accounts
<1>9. /\ Stacked(undone) /\ HeldBy(undone) = HeldBy(Below)
      /\ FailingIn(undone) = FailingIn(Below) \cup {id}
  <2>1. Stacked(stack) /\ undone = Replaced(f)
    BY <1>1 DEF Queues
  <2>2. Holds(f) \cap HeldBy(Below) = {} /\ Failing(f) \cap FailingIn(Below) = {}
    BY <1>7, <1>8
  <2> HIDE DEF undone
  <2>3. /\ Stacked(undone) /\ HeldBy(undone) = HeldBy(Below) \cup Holds(f)
        /\ FailingIn(undone) = FailingIn(Below) \cup Failing(f)
    BY <1>2, <1>6, <1>7, <2>1, <2>2, Replaces
  <2> QED
    BY <1>7, <2>3
<1> HIDE DEF undone
<1>10. /\ Queues' /\ unanswered' \in Seq(Nat)
       /\ FailingIn(stack') \subseteq FailingIn(stack) \cup {id}
       /\ \/ Held' = Held /\ calls' = calls /\ FailingIn(stack') = FailingIn(Below)
          \/ Held' = Held \ {id} /\ calls' = [calls EXCEPT ![id] = @ + 1]
  <2>1. /\ Outside /\ unanswered \in Seq(Nat)
        /\ (Waiting \cup Expecting) \cap HeldBy(stack) = {}
    BY <1>1 DEF Queues, Pieced
  <2>2. /\ (Waiting \cup Expecting) \cap HeldBy(Below) = {}
        /\ request.id \notin Waiting \cup Expecting \cup HeldBy(Below)
    BY <1>3, <1>4, <1>5, <2>1
  <2>3. /\ Queues' /\ unanswered' \in Seq(Nat)
        /\ \/ /\ Held' = Waiting \cup Expecting \cup HeldBy(Below) \cup {request.id}
              /\ calls' = calls /\ FailingIn(stack') = FailingIn(Below)
           \/ /\ Held' = Waiting \cup Expecting \cup HeldBy(Below)
              /\ Called(request) /\ FailingIn(stack') = FailingIn(undone)
    BY <1>2, <1>3, <1>5, <1>9, <2>1, <2>2, SendPlaces
  <2>4. /\ Waiting \cup Expecting \cup HeldBy(Below) \cup {id} = Held
        /\ Waiting \cup Expecting \cup HeldBy(Below) = Held \ {id}
    BY <1>3, <1>4, <2>1 DEF Held
  <2> QED
    BY <1>3, <1>5, <1>9, <2>3, <2>4 DEF Called
<1>11. Pieced'
  BY <1>1, <1>2, <1>5, <1>10 DEF Pieced
<1>12. Accounts'
  <2>1. CASE Held' = Held /\ calls' = calls /\ FailingIn(stack') = FailingIn(Below)
    BY <1>1, <1>2, <1>3, <2>1, NobodyTold
  <2>2. CASE Held' = Held \ {id} /\ calls' = [calls EXCEPT ![id] = @ + 1]
    BY <1>1, <1>2, <1>8, <1>10, <2>2, OneTold
  <2> QED
    BY <1>10, <2>1, <2>2
<1> QED
  BY <1>10, <1>11, <1>12 DEF Good

-----------------------------------------------------------------------------
(***************************************************************************)
(* handleResponseBytes().                                                  *)
(***************************************************************************)
\* The requests before the one that is taken to be answered are dropped.
LEMMA GivenUp ==
  ASSUME Outside, NEW cseq, DropBefore(cseq)
  PROVE  /\ Candidates(cseq) \in Seq(Sent) /\ NoneTwice(Candidates(cseq))
         /\ Ids(Candidates(cseq)) \subseteq Expecting
         /\ \E gone \in SUBSET Sent :
               /\ dropped' = dropped \cup gone
               /\ {r.id : r \in gone} = Expecting \ Ids(Candidates(cseq))
<1> DEFINE q == fRequestsAwaitingResponse
           c == Candidates(cseq)
           front == SubSeq(q, 1, Len(q) - Len(c))
           gone == ToSet(front)
<1>1. q \in Seq(Sent) /\ NoneTwice(q)
  BY DEF Outside
<1>2. /\ c \in Seq(Sent) /\ NoneTwice(c) /\ front \in Seq(Sent)
      /\ Ids(front) \cap Ids(c) = {} /\ Ids(q) = Ids(front) \cup Ids(c)
  BY <1>1, CandidatesParted
<1>3. dropped' = dropped \cup gone
  BY DEF DropBefore
<1> HIDE DEF front
<1>4. gone \in SUBSET Sent /\ {r.id : r \in gone} = Ids(front)
  BY <1>2 DEF ToSet, Ids
<1> HIDE DEF gone, c
<1>5. {r.id : r \in gone} = Expecting \ Ids(c) /\ Ids(c) \subseteq Expecting
  BY <1>2, <1>4 DEF Expecting
<1> QED
  BY <1>2, <1>3, <1>4, <1>5 DEF c

\* A call that reads responses holds nothing.
LEMMA ParsingHoldsNothing ==
  ASSUME Queues, stack # <<>>, Top.at = "parse"
  PROVE  /\ Stacked(Below) /\ HeldBy(Below) = HeldBy(stack)
         /\ FailingIn(Below) = FailingIn(stack)
<1>1. /\ Stacked(Below) /\ Sound(Top) /\ HeldBy(stack) = HeldBy(Below) \cup Holds(Top)
      /\ FailingIn(stack) = FailingIn(Below) \cup Failing(Top)
  BY TopOfStack DEF Queues
<1>2. Holds(Top) = {} /\ Failing(Top) = {}
  BY <1>1, NothingIn DEF Sound, Holds, Failing
<1> QED
  BY <1>1, <1>2

\* Of the candidates, the handler of one is told, or one is held to be sent
\* again, and the others stay in the queue.
LEMMA Answered ==
  ASSUME Queues, Accounts, NEW cseq, DropBefore(cseq),
         NEW rest \in Seq(Sent), NoneTwice(rest), fRequestsAwaitingResponse' = rest,
         NEW held, NEW told, Ids(Candidates(cseq)) = Ids(rest) \cup held \cup told,
         Ids(rest) \cap (held \cup told) = {}, held \cap told = {},
         UNCHANGED <<fRequestsAwaitingConnection, issued, failedResends>>,
         \/ told = {} /\ calls' = calls
         \/ \E id : told = {id} /\ calls' = [calls EXCEPT ![id] = @ + 1],
         Stacked(stack'), HeldBy(stack') = HeldBy(stack) \cup held,
         FailingIn(stack') = FailingIn(stack)
  PROVE  Queues' /\ Accounts'
<1> DEFINE none == {}
<1>1. Outside /\ (Waiting \cup Expecting) \cap HeldBy(stack) = {}
  BY DEF Queues
<1>2. /\ Ids(Candidates(cseq)) \subseteq Expecting
      /\ \E gone \in SUBSET Sent :
            /\ dropped' = dropped \cup gone
            /\ {r.id : r \in gone} = Expecting \ Ids(Candidates(cseq))
  BY <1>1, GivenUp
<1>3. PICK gone \in SUBSET Sent :
            /\ dropped' = dropped \cup gone
            /\ {r.id : r \in gone} = Expecting \ Ids(Candidates(cseq))
  BY <1>2
<1>4. Waiting' = Waiting /\ Expecting' = Ids(rest)
  BY DEF Waiting, Expecting
<1>5. Ids(rest) \cup held \cup told \subseteq Expecting /\ Waiting \cap Expecting = {}
  BY <1>1, <1>2 DEF Outside
<1>6. Outside'
  BY <1>1, <1>4, <1>5 DEF Outside
<1>7. Queues'
  BY <1>1, <1>4, <1>5, <1>6 DEF Queues
<1>8. /\ {r.id : r \in gone} \subseteq Held /\ {r.id : r \in gone} \cap told = {}
      /\ told \subseteq Held
      /\ Held' = (Held \cup none) \ (told \cup {r.id : r \in gone})
  BY <1>1, <1>3, <1>4, <1>5 DEF Held
<1>9. /\ none = {} /\ issued' = issued /\ failedResends' = failedResends
      /\ FailingIn(stack') \subseteq FailingIn(stack) \cup told
      /\ \/ told = {} /\ calls' = calls
         \/ \E id \in Held \cup none :
               told = {id} /\ calls' = [calls EXCEPT ![id] = @ + 1]
  BY <1>8
<1> HIDE DEF none
<1>10. Accounts'
  BY <1>3, <1>8, <1>9, Settled
<1> QED
  BY <1>7, <1>10

\* A response whose request is not taken: it is not complete, or nobody's.
LEMMA NotTakenKeeps ==
  ASSUME Good, BodyMissing \/ ResponseToNobody
  PROVE  Good'
<1> DEFINE c == Candidates(Response.cseq)
           none == {}
<1>1. Queues /\ Pieced /\ Accounts
  BY DEF Good
<1>2. /\ stack # <<>> /\ Top.at = "parse" /\ DropBefore(Response.cseq)
      /\ fRequestsAwaitingResponse' = c
      /\ stack' \in {stack, Below}
      /\ UNCHANGED <<fRequestsAwaitingConnection, issued, failedResends, calls>>
  BY DEF BodyMissing, ResponseToNobody, At, Complete, FindRequest, PutAtHead,
         Rest, Below
<1>3. Pieced'
  <2>1. SubSeq(fResponseBuffer, 3, Len(fResponseBuffer)) \in Seq(Pieces)
    BY <1>1 DEF Pieced
  <2>2. /\ fCSeq' = fCSeq /\ unanswered' = unanswered /\ incoming' = incoming
        /\ fResponseBuffer' \in
              {fResponseBuffer, SubSeq(fResponseBuffer, 3, Len(fResponseBuffer))}
    BY DEF BodyMissing, ResponseToNobody, serverVars
  <2> QED
    BY <1>1, <2>1, <2>2 DEF Pieced
<1>4. /\ Stacked(stack') /\ HeldBy(stack') = HeldBy(stack) \cup none
      /\ FailingIn(stack') = FailingIn(stack)
  BY <1>1, <1>2, ParsingHoldsNothing DEF Queues
<1>5. c \in Seq(Sent) /\ NoneTwice(c)
  BY <1>1, <1>2, GivenUp DEF Queues
<1> HIDE DEF c
<1>6. /\ none = {} /\ Ids(c) = Ids(c) \cup none \cup none
      /\ Ids(c) \cap (none \cup none) = {} /\ none \cap none = {}
  OBVIOUS
<1> HIDE DEF none
<1>7. Queues' /\ Accounts'
  <2> DEFINE cseq == Response.cseq
  <2>1. DropBefore(cseq) /\ Ids(Candidates(cseq)) = Ids(c) \cup none \cup none
    BY <1>2, <1>6 DEF c
  <2>2. /\ fRequestsAwaitingResponse' = c /\ none = {} /\ calls' = calls
        /\ fRequestsAwaitingConnection' = fRequestsAwaitingConnection
        /\ issued' = issued /\ failedResends' = failedResends
    BY <1>2, <1>6
  <2> HIDE DEF cseq
  <2> QED
    BY <1>1, <1>4, <1>5, <1>6, <2>1, <2>2, Answered
<1> QED
  BY <1>3, <1>7 DEF Good

\* The request that is taken, and the others.
LEMMA Taken ==
  ASSUME Queues, NEW cseq, FindRequest(cseq), Candidates(cseq) # <<>>
  PROVE  LET r == Head(Candidates(cseq))
             rest == Tail(Candidates(cseq))
         IN  /\ fRequestsAwaitingResponse' = rest
             /\ r \in Sent /\ rest \in Seq(Sent) /\ NoneTwice(rest)
             /\ Ids(Candidates(cseq)) = Ids(rest) \cup {r.id}
             /\ r.id \notin Ids(rest) /\ r.id \in Expecting /\ DropBefore(cseq)
<1> DEFINE c == Candidates(cseq)
           rest == Tail(c)
<1>1. DropBefore(cseq) /\ fRequestsAwaitingResponse' = rest
  BY DEF FindRequest, Rest
<1>2. c \in Seq(Sent) /\ NoneTwice(c) /\ Ids(c) \subseteq Expecting /\ c # <<>>
  BY <1>1, GivenUp DEF Queues
<1> HIDE DEF c
<1>3. /\ Head(c) \in Sent /\ rest \in Seq(Sent) /\ NoneTwice(rest)
      /\ Ids(c) = Ids(rest) \cup {Head(c).id} /\ Head(c).id \notin Ids(rest)
  BY <1>1, <1>2, TakeHead
<1> QED
  BY <1>1, <1>2, <1>3 DEF c

\* The handler of the request that is taken is called.
LEMMA CallHandlerKeeps ==
  ASSUME Good, CallHandler
  PROVE  Good'
<1> DEFINE cseq == Response.cseq
           r == FoundRequest
           more == More /\ Response.code # "bad"
           f == [Frame("responseHandler") EXCEPT !.request = r, !.cseq = cseq,
                                                 !.more = more]
           rest == Tail(Candidates(cseq))
           held == {}
           told == {r.id}
<1>1. Queues /\ Pieced /\ Accounts
  BY DEF Good
<1>2. /\ stack # <<>> /\ Top.at = "parse" /\ Len(fResponseBuffer) >= 2
      /\ FindRequest(cseq) /\ Candidates(cseq) # <<>>
      /\ stack' = Replaced(f) /\ calls' = [calls EXCEPT ![r.id] = @ + 1]
      /\ UNCHANGED <<fRequestsAwaitingConnection, issued, failedResends>>
  BY DEF CallHandler, Complete, At, Called
<1>3. r = Head(Candidates(cseq))
  BY DEF FoundRequest
<1>4. cseq \in Nat /\ more \in BOOLEAN
  <2>1. fResponseBuffer \in Seq(Pieces) /\ Len(fResponseBuffer) >= 2
    BY <1>1, <1>2 DEF Pieced
  <2>2. Head(fResponseBuffer) \in Pieces
    BY <2>1
  <2> QED
    BY <2>2 DEF Pieces, Response
<1>5. Pieced'
  <2>1. SubSeq(fResponseBuffer, 3, Len(fResponseBuffer)) \in Seq(Pieces)
    BY <1>1 DEF Pieced
  <2>2. /\ fCSeq' = fCSeq /\ unanswered' = unanswered /\ incoming' = incoming
        /\ fResponseBuffer' = SubSeq(fResponseBuffer, 3, Len(fResponseBuffer))
    BY DEF CallHandler, serverVars
  <2> QED
    BY <1>1, <2>1, <2>2 DEF Pieced
<1> HIDE DEF cseq, r, more
<1>6. /\ fRequestsAwaitingResponse' = rest
      /\ r \in Sent /\ rest \in Seq(Sent) /\ NoneTwice(rest)
      /\ Ids(Candidates(cseq)) = Ids(rest) \cup {r.id}
      /\ r.id \notin Ids(rest) /\ DropBefore(cseq)
  BY <1>1, <1>2, <1>3, Taken
<1>7. f \in Frames /\ f.at = "responseHandler" /\ f.queue = <<>>
  <2>1. /\ Frame("responseHandler") \in Frames
        /\ Frame("responseHandler").queue = <<>>
        /\ Frame("responseHandler").at = "responseHandler"
    BY NewFrame DEF HandlerPoints
  <2>2. f = [Frame("responseHandler") EXCEPT !.request = r, !.cseq = cseq,
                                             !.more = more]
    BY Zenon
  <2> HIDE DEF f
  <2> QED
    BY <1>4, <1>6, <2>1, <2>2 DEF Frames
<1> HIDE DEF f, rest, held, told
<1>8. Sound(f) /\ Holds(f) = {} /\ Failing(f) = {}
  BY <1>7, CallOf
<1>9. /\ Stacked(stack') /\ HeldBy(stack') = HeldBy(stack)
      /\ FailingIn(stack') = FailingIn(stack)
  <2>1. Stacked(stack)
    BY <1>1 DEF Queues
  <2>2. Holds(f) \cap HeldBy(Below) = {} /\ Failing(f) \cap FailingIn(Below) = {}
    BY <1>8
  <2>3. /\ Stacked(stack') /\ HeldBy(stack') = HeldBy(Below) \cup Holds(f)
        /\ FailingIn(stack') = FailingIn(Below) \cup Failing(f)
    BY <1>2, <1>7, <1>8, <2>1, <2>2, Replaces
  <2> QED
    BY <1>1, <1>2, <1>8, <2>3, ParsingHoldsNothing
<1>10. held = {} /\ told = {r.id}
  BY DEF held, told
<1>11. /\ Ids(Candidates(cseq)) = Ids(rest) \cup held \cup told
       /\ Ids(rest) \cap (held \cup told) = {} /\ held \cap told = {}
       /\ HeldBy(stack') = HeldBy(stack) \cup held
  BY <1>6, <1>9, <1>10
<1>12. Queues' /\ Accounts'
  <2>1. /\ UNCHANGED <<fRequestsAwaitingConnection, issued, failedResends>>
        /\ \/ told = {} /\ calls' = calls
           \/ \E id : told = {id} /\ calls' = [calls EXCEPT ![id] = @ + 1]
    BY <1>2, <1>10
  <2>2. Stacked(stack') /\ FailingIn(stack') = FailingIn(stack)
    BY <1>9
  <2>3. /\ fRequestsAwaitingResponse' = rest /\ DropBefore(cseq)
        /\ rest \in Seq(Sent) /\ NoneTwice(rest)
    BY <1>6
  <2> QED
    BY <1>1, <1>11, <2>1, <2>2, <2>3, Answered, Zenon
<1> QED
  BY <1>5, <1>12 DEF Good

\* The call that takes a request to send it again holds it.
LEMMA NeedToResendKeeps ==
  ASSUME Good, NeedToResend
  PROVE  Good'
<1> DEFINE cseq == Response.cseq
           r == FoundRequest
           f == [Frame("resend") EXCEPT !.request = r, !.more = More]
           rest == Tail(Candidates(cseq))
           held == {r.id}
           told == {}
<1>1. Queues /\ Pieced /\ Accounts
  BY DEF Good
<1>2. /\ stack # <<>> /\ Top.at = "parse"
      /\ FindRequest(cseq) /\ Candidates(cseq) # <<>>
      /\ stack' = Replaced(f)
      /\ UNCHANGED <<fRequestsAwaitingConnection, issued, failedResends, calls>>
  BY DEF NeedToResend, Complete, At
<1>3. r = Head(Candidates(cseq))
  BY DEF FoundRequest
<1>4. Pieced'
  <2>1. <<>> \in Seq(Pieces) /\ <<>> \in Seq(Nat)
    OBVIOUS
  <2>2. /\ fCSeq' = fCSeq /\ fResponseBuffer' = <<>>
        /\ unanswered' \in {unanswered, <<>>} /\ incoming' \in {incoming, <<>>}
    BY DEF NeedToResend, ResetTCPSockets, ResetResponseBuffer
  <2> QED
    BY <1>1, <2>1, <2>2 DEF Pieced
<1> HIDE DEF cseq, r
<1>5. /\ fRequestsAwaitingResponse' = rest
      /\ r \in Sent /\ rest \in Seq(Sent) /\ NoneTwice(rest)
      /\ Ids(Candidates(cseq)) = Ids(rest) \cup {r.id}
      /\ r.id \notin Ids(rest) /\ r.id \in Expecting /\ DropBefore(cseq)
  BY <1>1, <1>2, <1>3, Taken
<1>6. f \in Frames /\ f.at = "resend" /\ f.queue = <<>> /\ f.request = r
  <2>1. /\ Frame("resend") \in Frames /\ Frame("resend").queue = <<>>
        /\ Frame("resend").at = "resend"
    BY NewFrame DEF ClientPoints
  <2>2. More \in BOOLEAN
    BY DEF More
  <2> QED
    BY <1>5, <2>1, <2>2 DEF f, Frames
<1> HIDE DEF f, rest, held, told
<1>7. Sound(f) /\ Holds(f) = {r.id} /\ Failing(f) = {}
  BY <1>5, <1>6, CallOf
<1>8. /\ Stacked(stack') /\ HeldBy(stack') = HeldBy(stack) \cup {r.id}
      /\ FailingIn(stack') = FailingIn(stack)
  <2>1. Stacked(stack) /\ Expecting \cap HeldBy(stack) = {}
    BY <1>1 DEF Queues
  <2>2. /\ Stacked(Below) /\ HeldBy(Below) = HeldBy(stack)
        /\ FailingIn(Below) = FailingIn(stack)
    BY <1>1, <1>2, ParsingHoldsNothing
  <2>3. Holds(f) \cap HeldBy(Below) = {} /\ Failing(f) \cap FailingIn(Below) = {}
    BY <1>5, <1>7, <2>1, <2>2
  <2>4. /\ Stacked(stack') /\ HeldBy(stack') = HeldBy(Below) \cup Holds(f)
        /\ FailingIn(stack') = FailingIn(Below) \cup Failing(f)
    BY <1>2, <1>6, <1>7, <2>1, <2>3, Replaces
  <2> QED
    BY <1>7, <2>2, <2>4
<1>9. held = {r.id} /\ told = {}
  BY DEF held, told
<1>10. /\ Ids(Candidates(cseq)) = Ids(rest) \cup held \cup told
       /\ Ids(rest) \cap (held \cup told) = {} /\ held \cap told = {}
       /\ HeldBy(stack') = HeldBy(stack) \cup held
  BY <1>5, <1>8, <1>9
<1>11. Queues' /\ Accounts'
  <2>1. /\ UNCHANGED <<fRequestsAwaitingConnection, issued, failedResends>>
        /\ \/ told = {} /\ calls' = calls
           \/ \E id : told = {id} /\ calls' = [calls EXCEPT ![id] = @ + 1]
    BY <1>2, <1>9
  <2> QED
    BY <1>1, <1>5, <1>8, <1>10, <2>1, Answered, Zenon
<1> QED
  BY <1>4, <1>11 DEF Good

-----------------------------------------------------------------------------
\* A request that could not be sent again is told a second time.
LEMMA ResendFailedKeeps ==
  ASSUME Good, ResendFailed
  PROVE  Good'
<1> DEFINE r == Top.request
           id == r.id
           f == [Frame("responseHandler") EXCEPT !.request = r]
<1>1. Queues /\ Pieced /\ Accounts
  BY DEF Good
<1>2. /\ stack # <<>> /\ Top.at = "resendFailed" /\ stack' = Replaced(f)
      /\ calls' = [calls EXCEPT ![id] = @ + 1]
      /\ failedResends' = failedResends \cup {id}
      /\ UNCHANGED <<queueVars, issued, dropped>>
  BY DEF ResendFailed, At, Called
<1>4. /\ Stacked(stack) /\ Sound(Top)
      /\ HeldBy(stack) = HeldBy(Below) \cup Holds(Top)
      /\ FailingIn(stack) = FailingIn(Below) \cup Failing(Top)
      /\ Failing(Top) \cap FailingIn(Below) = {}
  BY <1>1, <1>2, TopOfStack DEF Queues
<1>5. r \in Sent /\ Holds(Top) = {} /\ Failing(Top) = {id}
  BY <1>2, <1>4, NothingIn DEF Sound, Holds, Failing
<1>3. Pieced'
  <2>1. /\ fCSeq' = fCSeq /\ unanswered' = unanswered /\ incoming' = incoming
        /\ fResponseBuffer' \in {<<Body(r.cseq, "bad")>>, <<>>}
    BY DEF ResendFailed, Rubbish, serverVars
  <2>2. Body(r.cseq, "bad") \in Pieces
    BY <1>5 DEF Body, Pieces, Codes, Sent
  <2>3. <<Body(r.cseq, "bad")>> \in Seq(Pieces) /\ <<>> \in Seq(Pieces)
    BY <2>2
  <2> QED
    BY <1>1, <2>1, <2>3 DEF Pieced
<1> HIDE DEF r
<1>6. f \in Frames /\ f.at = "responseHandler" /\ f.queue = <<>>
  <2>1. /\ Frame("responseHandler") \in Frames
        /\ Frame("responseHandler").queue = <<>>
        /\ Frame("responseHandler").at = "responseHandler"
    BY NewFrame DEF HandlerPoints
  <2> HIDE DEF f
  <2> QED
    BY <1>5, <2>1, WithRequest DEF f
<1> HIDE DEF f
<1>7. Sound(f) /\ Holds(f) = {} /\ Failing(f) = {}
  BY <1>6, CallOf
<1>8. /\ Stacked(stack') /\ HeldBy(stack') = HeldBy(stack)
      /\ FailingIn(stack') = FailingIn(stack) \ {id}
  <2>1. Holds(f) \cap HeldBy(Below) = {} /\ Failing(f) \cap FailingIn(Below) = {}
    BY <1>7
  <2>2. /\ Stacked(stack') /\ HeldBy(stack') = HeldBy(Below) \cup Holds(f)
        /\ FailingIn(stack') = FailingIn(Below) \cup Failing(f)
    BY <1>2, <1>4, <1>6, <1>7, <2>1, Replaces
  <2> QED
    BY <1>4, <1>5, <1>7, <2>2
<1>9. Queues' /\ Held' = Held
  BY <1>1, <1>2, <1>8, OtherCalls DEF Held
<1>10. Accounts'
  <2>1. /\ issued \in 0 .. MaxRequests /\ calls \in [1 .. MaxRequests -> Nat]
        /\ dropped \subseteq Sent /\ Held \subseteq 1 .. issued
        /\ MaxRequests \in Nat /\ id \in 1 .. MaxRequests
    BY <1>1, <1>5, ClientAssumption DEF Accounts, Sent
  <2>2. id \in FailingIn(stack) /\ calls[id] = 1
    BY <1>1, <1>4, <1>5, <2>1 DEF Accounts
  <2>3. issued' = issued /\ dropped' = dropped /\ Held' = Held
    BY <1>2, <1>9
  <2>4. /\ calls' \in [1 .. MaxRequests -> Nat] /\ calls'[id] = 2
        /\ \A i \in 1 .. MaxRequests : i # id => calls'[i] = calls[i]
    BY <1>2, <2>1, <2>2
  <2>5. \A i : Dropped(i)' <=> Dropped(i)
    BY <2>3 DEF Dropped
  <2> HIDE DEF id
  <2>6. ASSUME NEW i \in 1 .. MaxRequests
        PROVE  /\ i \in Held' => calls'[i] = 0 /\ ~Dropped(i)'
               /\ i \in FailingIn(stack') => calls'[i] = 1
               /\ i \in (1 .. issued') \ Held' =>
                     \/ Told(i)' /\ ~Dropped(i)'
                     \/ calls'[i] = 0 /\ Dropped(i)'
               /\ i > issued' => calls'[i] = 0 /\ ~Dropped(i)'
    <3>1. /\ i \in Held => calls[i] = 0 /\ ~Dropped(i)
          /\ i \in FailingIn(stack) => calls[i] = 1
          /\ i \in (1 .. issued) \ Held =>
                (Told(i) /\ ~Dropped(i)) \/ (calls[i] = 0 /\ Dropped(i))
          /\ i > issued => calls[i] = 0 /\ ~Dropped(i)
      BY <1>1 DEF Accounts
    <3>2. CASE i # id
      <4>1. calls'[i] = calls[i] /\ (Told(i) => Told(i)')
        BY <1>2, <2>4, <3>2 DEF Told
      <4> QED
        BY <1>8, <2>3, <2>5, <3>1, <3>2, <4>1
    <3>3. CASE i = id
      <4>1. i \notin Held /\ ~(i > issued) /\ ~Dropped(i)
        BY <2>1, <2>2, <3>1, <3>3
      <4>2. Told(i)' /\ i \notin FailingIn(stack')
        BY <1>2, <1>8, <2>4, <3>3 DEF Told
      <4> QED
        BY <2>3, <2>5, <4>1, <4>2
    <3> QED
      BY <3>2, <3>3
  <2> QED
    BY <2>1, <2>3, <2>4, <2>6 DEF Accounts
<1> QED
  BY <1>3, <1>9, <1>10 DEF Good

\* The program returns to the call that told one of its handlers.
LEMMA HandlerReturnsKeeps ==
  ASSUME Good, HandlerReturns, ~closed
  PROVE  Good'
<1>1. Queues /\ Pieced /\ Accounts
  BY DEF Good
<1>2. /\ stack # <<>> /\ Top.at \in HandlerPoints
      /\ UNCHANGED <<queueVars, issued, calls, dropped, failedResends>>
  BY DEF HandlerReturns, InHandler, historyVars
<1>3. Pieced'
  <2>1. /\ fCSeq' = fCSeq /\ unanswered' = unanswered /\ incoming' = incoming
        /\ fResponseBuffer' = fResponseBuffer
    BY DEF HandlerReturns, serverVars
  <2> QED
    BY <1>1, <2>1 DEF Pieced
<1> SUFFICES Queues' /\ Accounts'
  BY <1>3 DEF Good
<1>4. /\ Stacked(stack) /\ Top \in Frames /\ Sound(Top)
      /\ HeldBy(stack) = HeldBy(Below) \cup Holds(Top)
      /\ Holds(Top) \cap HeldBy(Below) = {}
      /\ FailingIn(stack) = FailingIn(Below) \cup Failing(Top)
  BY <1>1, <1>2, TopOfStack DEF Queues
<1>5. ASSUME NEW f \in Frames, Sound(f), stack' = Replaced(f), Holds(f) = Holds(Top),
             Failing(f) = {}
      PROVE  Queues' /\ Accounts'
  <2>1. Holds(f) \cap HeldBy(Below) = {} /\ Failing(f) \cap FailingIn(Below) = {}
    BY <1>4, <1>5
  <2>2. /\ Stacked(stack') /\ HeldBy(stack') = HeldBy(Below) \cup Holds(f)
        /\ FailingIn(stack') = FailingIn(Below) \cup Failing(f)
    BY <1>2, <1>4, <1>5, <2>1, Replaces
  <2>3. HeldBy(stack') = HeldBy(stack) /\ FailingIn(stack') \subseteq FailingIn(stack)
    BY <1>4, <1>5, <2>2
  <2>4. Queues' /\ Held' = Held
    BY <1>1, <1>2, <2>2, <2>3, OtherCalls DEF Held
  <2> QED
    BY <1>1, <1>2, <2>3, <2>4, NobodyTold
<1>6. CASE Top.at = "errorHandler"
  <2> DEFINE f == [Top EXCEPT !.at = "errors", !.request = NoRequest]
  <2>1. stack' = Replaced(f)
    BY <1>6 DEF HandlerReturns
  <2>2. f \in Frames /\ f.at = "errors" /\ f.queue = Top.queue
    <3>1. "errors" \in HandlerPoints \cup ClientPoints
      BY DEF ClientPoints
    <3>2. f = [Top EXCEPT !.at = "errors", !.request = NoRequest]
      BY Zenon
    <3> HIDE DEF f
    <3> QED
      BY <1>4, <3>1, <3>2 DEF Frames
  <2> HIDE DEF f
  <2>3. Sound(f) /\ Holds(f) = Holds(Top) /\ Failing(f) = {}
    BY <1>4, <1>6, <2>2 DEF Sound, Holds, Failing
  <2> QED
    BY <1>5, <2>1, <2>2, <2>3
<1>7. CASE Top.at # "errorHandler"
  <2>1. Holds(Top) = {}
    <3>1. Top.queue = <<>> /\ Top.at # "resend"
      BY <1>2, <1>4, <1>7 DEF Sound, HandlerPoints
    <3> QED
      BY <3>1, NothingIn DEF Holds
  <2>2. CASE Top.at = "responseHandler" /\ Top.more
    <3>1. stack' = Replaced(Frame("parse"))
      BY <2>2 DEF HandlerReturns
    <3>2. /\ Frame("parse") \in Frames /\ Frame("parse").at = "parse"
          /\ Frame("parse").queue = <<>>
      BY NewFrame DEF ClientPoints
    <3>3. /\ Sound(Frame("parse")) /\ Holds(Frame("parse")) = {}
          /\ Failing(Frame("parse")) = {}
      BY <3>2, CallOf
    <3> QED
      BY <1>5, <2>1, <3>1, <3>2, <3>3
  <2>3. CASE ~(Top.at = "responseHandler" /\ Top.more)
    <3>1. stack' = Front(stack)
      BY <1>7, <2>3 DEF HandlerReturns
    <3> QED
      BY <1>1, <1>2, <2>1, <3>1, CallReturns
  <2> QED
    BY <2>2, <2>3
<1> QED
  BY <1>6, <1>7

\* The server does not touch the client.
LEMMA AnswerKeeps ==
  ASSUME Good, Answer
  PROVE  Good'
<1>1. Queues /\ Pieced /\ Accounts
  BY DEF Good
<1>2. UNCHANGED <<queueVars, stack, issued, calls, dropped, failedResends, fCSeq,
                  fResponseBuffer>>
  BY DEF Answer
<1>3. PICK i \in 1 .. Len(unanswered), code \in Codes :
         /\ unanswered' = RemoveAt(unanswered, i)
         /\ incoming' = incoming \o <<Header(unanswered[i], code),
                                      Body(unanswered[i], code)>>
  BY DEF Answer
<1>4. unanswered' \in Seq(Nat)
  <2>1. SubSeq(unanswered, 1, i - 1) \in Seq(Nat)
        /\ SubSeq(unanswered, i + 1, Len(unanswered)) \in Seq(Nat)
    BY <1>1 DEF Pieced
  <2> QED
    BY <1>3, <2>1 DEF RemoveAt
<1>5. incoming' \in Seq(Pieces)
  <2>1. Header(unanswered[i], code) \in Pieces /\ Body(unanswered[i], code) \in Pieces
    BY <1>1, <1>3 DEF Pieced, Pieces, Header, Body
  <2> QED
    BY <1>1, <1>3, <2>1 DEF Pieced
<1>6. Pieced'
  BY <1>1, <1>2, <1>4, <1>5 DEF Pieced
<1>7. Queues' /\ Held' = Held
  BY <1>1, <1>2, OtherCalls DEF Held, Queues
<1>8. Accounts'
  BY <1>1, <1>2, <1>7, NobodyTold
<1> QED
  BY <1>6, <1>7, <1>8 DEF Good

-----------------------------------------------------------------------------
\* In the beginning the program has no request.
LEMMA InitAccounts == Init => AInv
<1> SUFFICES ASSUME Init PROVE Good
  BY DEF AInv
<1>1. /\ Waiting = {} /\ Expecting = {} /\ HeldBy(stack) = {} /\ FailingIn(stack) = {}
      /\ Stacked(stack)
  BY NothingIn DEF Init, Waiting, Expecting
<1>2. Queues
  BY <1>1, NothingIn DEF Init, Queues, Outside
<1>3. Pieced
  <2>1. <<>> \in Seq(Nat) /\ <<>> \in Seq(Pieces)
    OBVIOUS
  <2> QED
    BY <2>1 DEF Init, Pieced
<1>4. Accounts
  <2>1. MaxRequests \in Nat /\ Held = {}
    BY <1>1, ClientAssumption DEF Held
  <2>2. \A id : ~Dropped(id)
    BY DEF Init, Dropped
  <2> QED
    BY <1>1, <2>1, <2>2 DEF Init, Accounts
<1> QED
  BY <1>2, <1>3, <1>4 DEF Good

\* Every step keeps the accounts, until the client is closed.
LEMMA StepAccounts == AInv /\ [Next]_vars => AInv'
<1> SUFFICES ASSUME AInv, [Next]_vars PROVE AInv'
  OBVIOUS
<1>1. CASE closed
  <2>1. closed'
    BY <1>1 DEF Next, vars, SendCommand, SendRequest, ProgramRuns,
                ConnectionSucceeds, ConnectionFails, Looping, ResumeSending, At,
                NextError, QueueHandled, IncomingData, ConnectionLost, NoHeader,
                NotAResponse, BodyMissing, Complete, ResponseToNobody,
                CallHandler, NeedToResend, ResendCommand, ResendFailed,
                HandlerReturns, Close, Answer
  <2> QED
    BY <2>1 DEF AInv
<1>2. CASE ~closed
  <2>1. Good
    BY <1>2 DEF AInv
  <2>2. CASE SendCommand
    BY <2>1, <2>2, SendCommandKeeps DEF AInv
  <2>3. CASE ConnectionSucceeds \/ ConnectionFails \/ ConnectionLost
    BY <2>1, <2>3, ConnectionEndKeeps DEF AInv
  <2>4. CASE ResumeSending
    BY <2>1, <2>4, ResumeSendingKeeps DEF AInv
  <2>5. CASE NextError
    BY <2>1, <2>5, NextErrorKeeps DEF AInv
  <2>6. CASE IncomingData \/ QueueHandled \/ NoHeader \/ NotAResponse
    BY <2>1, <2>6, PassingKeeps DEF AInv
  <2>7. CASE BodyMissing \/ ResponseToNobody
    BY <2>1, <2>7, NotTakenKeeps DEF AInv
  <2>8. CASE CallHandler
    BY <2>1, <2>8, CallHandlerKeeps DEF AInv
  <2>9. CASE NeedToResend
    BY <2>1, <2>9, NeedToResendKeeps DEF AInv
  <2>10. CASE ResendCommand
    BY <2>1, <2>10, ResendCommandKeeps DEF AInv
  <2>11. CASE ResendFailed
    BY <2>1, <2>11, ResendFailedKeeps DEF AInv
  <2>12. CASE HandlerReturns
    BY <1>2, <2>1, <2>12, HandlerReturnsKeeps DEF AInv
  <2>13. CASE Close
    BY <2>13 DEF Close, AInv
  <2>14. CASE Answer
    BY <2>1, <2>14, AnswerKeeps DEF AInv
  <2>15. CASE UNCHANGED vars
    <3>1. UNCHANGED <<fCSeq, queueVars, fResponseBuffer, stack, unanswered, incoming,
                      issued, calls, failedResends, dropped>>
      BY <2>15 DEF vars, serverVars, historyVars
    <3>2. Queues /\ Pieced /\ Accounts
      BY <2>1 DEF Good
    <3>3. Pieced'
      BY <3>1, <3>2 DEF Pieced
    <3>4. Queues' /\ Held' = Held
      BY <3>1, <3>2, OtherCalls DEF Held, Queues
    <3>5. Accounts'
      BY <3>1, <3>2, <3>4, NobodyTold
    <3> QED
      BY <3>3, <3>4, <3>5 DEF AInv, Good
  <2> QED
    BY <2>2, <2>3, <2>4, <2>5, <2>6, <2>7, <2>8, <2>9, <2>10, <2>11, <2>12,
       <2>13, <2>14, <2>15 DEF Next
<1> QED
  BY <1>1, <1>2

\* A request that is held is in one place, another in none.
LEMMA OnePlaceOrNone ==
  ASSUME Queues, NEW id
  PROVE  /\ id \in Held => \E p : Places(id) = {p}
         /\ id \notin Held => Places(id) = {}
<1> DEFINE In(q) == {i \in 1 .. Len(q) : q[i].id = id}
           calling == 1 .. Len(stack)
           a == {"connection"} \X In(fRequestsAwaitingConnection)
           b == {"response"} \X In(fRequestsAwaitingResponse)
           c == UNION {{k} \X In(stack[k].queue) : k \in calling}
           d == {<<k, 0>> : k \in {j \in calling :
                    stack[j].at = "resend" /\ stack[j].request.id = id}}
<1>1. Places(id) = a \cup b \cup c \cup d
  BY DEF Places
<1>2. ASSUME NEW q \in Seq(Sent), NoneTwice(q)
      PROVE  /\ id \in Ids(q) => \E i : In(q) = {i}
             /\ id \notin Ids(q) => In(q) = {}
  <2>1. DOMAIN q = 1 .. Len(q)
    OBVIOUS
  <2> QED
    BY ZenonT(60), <1>2, <2>1 DEF Ids, NoneTwice
<1>3. \A k \in calling :
         /\ stack[k].queue \in Seq(Sent) /\ NoneTwice(stack[k].queue)
         /\ stack[k].at = "resend" => stack[k].queue = <<>>
  <2>1. /\ stack \in Seq(Frames) /\ DOMAIN stack = calling
        /\ \A k \in DOMAIN stack : Sound(stack[k])
    BY DEF Queues, Stacked
  <2>2. \A k \in calling : stack[k] \in Frames
    BY <2>1
  <2> QED
    BY <2>1, <2>2 DEF Sound, Frames
<1>4. /\ \A k \in calling : Holds(stack[k]) \subseteq HeldBy(stack)
      /\ \A j, k \in calling : j # k => Holds(stack[j]) \cap Holds(stack[k]) = {}
      /\ \A k \in HeldBy(stack) : \E j \in calling : k \in Holds(stack[j])
  <2>1. stack \in Seq(Frames) /\ DOMAIN stack = calling
    BY DEF Queues, Stacked
  <2> QED
    BY <2>1 DEF Queues, Stacked, HeldBy
<1>5. /\ id \in Waiting => \E i : In(fRequestsAwaitingConnection) = {i}
      /\ id \notin Waiting => In(fRequestsAwaitingConnection) = {}
      /\ id \in Expecting => \E i : In(fRequestsAwaitingResponse) = {i}
      /\ id \notin Expecting => In(fRequestsAwaitingResponse) = {}
  BY <1>2 DEF Queues, Outside, Waiting, Expecting
<1>6. \A k \in calling :
         /\ id \in Ids(stack[k].queue) => \E i : In(stack[k].queue) = {i}
         /\ id \notin Ids(stack[k].queue) => In(stack[k].queue) = {}
  BY <1>2, <1>3
<1>7. \A k \in calling : id \notin Holds(stack[k]) =>
         /\ In(stack[k].queue) = {}
         /\ ~(stack[k].at = "resend" /\ stack[k].request.id = id)
  BY <1>6 DEF Holds
<1>8. /\ Waiting \cap Expecting = {}
      /\ Waiting \cap HeldBy(stack) = {} /\ Expecting \cap HeldBy(stack) = {}
  BY DEF Queues, Outside
<1> HIDE DEF In, calling
<1>9. id \notin HeldBy(stack) => c = {} /\ d = {}
  BY <1>4, <1>7
<1>10. /\ \A i : In(fRequestsAwaitingConnection) = {i} => a = {<<"connection", i>>}
       /\ In(fRequestsAwaitingConnection) = {} => a = {}
       /\ \A i : In(fRequestsAwaitingResponse) = {i} => b = {<<"response", i>>}
       /\ In(fRequestsAwaitingResponse) = {} => b = {}
  OBVIOUS
<1>11. ASSUME id \in HeldBy(stack)
       PROVE  \E p : c \cup d = {p}
  <2>1. PICK k \in calling : id \in Holds(stack[k])
    BY <1>4, <1>11
  <2>2. \A j \in calling : j # k =>
           /\ In(stack[j].queue) = {}
           /\ ~(stack[j].at = "resend" /\ stack[j].request.id = id)
    BY <1>4, <1>7, <2>1
  <2>3. c = {k} \X In(stack[k].queue)
    BY <2>2
  <2>4. CASE stack[k].at = "resend"
    <3>1. stack[k].queue = <<>> /\ stack[k].request.id = id
      BY <1>3, <2>1, <2>4, NothingIn DEF Holds
    <3>2. In(stack[k].queue) = {}
      BY <1>6, <3>1, NothingIn
    <3>3. c = {}
      BY <2>3, <3>2
    <3>4. d = {<<k, 0>>}
      BY <2>2, <2>4, <3>1
    <3> QED
      BY <3>3, <3>4
  <2>5. CASE stack[k].at # "resend"
    <3>1. PICK i : In(stack[k].queue) = {i}
      BY <1>6, <2>1, <2>5 DEF Holds
    <3>2. c = {<<k, i>>}
      BY <2>3, <3>1
    <3>3. d = {}
      BY <2>2, <2>5
    <3> QED
      BY <3>2, <3>3
  <2> QED
    BY <2>4, <2>5
<1> HIDE DEF a, b, c, d
<1>12. CASE id \in Waiting
  <2>1. b = {} /\ c = {} /\ d = {} /\ \E p : a = {p}
    BY <1>5, <1>8, <1>9, <1>10, <1>12
  <2> QED
    BY <1>1, <1>12, <2>1 DEF Held
<1>13. CASE id \in Expecting
  <2>1. a = {} /\ c = {} /\ d = {} /\ \E p : b = {p}
    BY <1>5, <1>8, <1>9, <1>10, <1>13
  <2> QED
    BY <1>1, <1>13, <2>1 DEF Held
<1>14. CASE id \in HeldBy(stack)
  <2>1. a = {} /\ b = {} /\ \E p : c \cup d = {p}
    BY <1>5, <1>8, <1>10, <1>11, <1>14
  <2> QED
    BY <1>1, <1>14, <2>1 DEF Held
<1>15. CASE id \notin Held
  <2>1. a = {} /\ b = {} /\ c = {} /\ d = {}
    BY <1>5, <1>9, <1>10, <1>15 DEF Held
  <2> QED
    BY <1>1, <1>15, <2>1
<1> QED
  BY <1>12, <1>13, <1>14, <1>15 DEF Held

\* Until the client is closed, each request that the program has made is in
\* exactly one of the queues and calls that lead to its handler, or its handler
\* was called (once, or again when it could not be sent again), or
\* handleResponseBytes() gave it up: however the handlers nest, connections are
\* lost and responses are cut.
THEOREM NoRequestForgotten == Spec => []NoneForgotten
<1>1. AInv => NoneForgotten
  <2> SUFFICES ASSUME Good, NEW id \in 1 .. issued
               PROVE  \/ Cardinality(Places(id)) = 1 /\ calls[id] = 0 /\ ~Dropped(id)
                      \/ Places(id) = {} /\ Told(id) /\ ~Dropped(id)
                      \/ Places(id) = {} /\ calls[id] = 0 /\ Dropped(id)
    BY DEF AInv, NoneForgotten
  <2>1. Queues /\ Accounts
    BY DEF Good
  <2>2. id \in 1 .. MaxRequests
    BY <2>1, ClientAssumption DEF Accounts
  <2>3. CASE id \in Held
    <3>1. PICK p : Places(id) = {p}
      BY <2>1, <2>3, OnePlaceOrNone
    <3>2. Cardinality(Places(id)) = 1
      BY <3>1, FS_Singleton
    <3> QED
      BY <2>1, <2>2, <2>3, <3>2 DEF Accounts
  <2>4. CASE id \notin Held
    <3>1. Places(id) = {}
      BY <2>1, <2>4, OnePlaceOrNone
    <3> QED
      BY <2>1, <2>2, <2>4, <3>1 DEF Accounts
  <2> QED
    BY <2>3, <2>4
<1> QED
  BY <1>1, InitAccounts, StepAccounts, PTL DEF Spec

-----------------------------------------------------------------------------
(***************************************************************************)
(* Types, and CSeqs that tell requests apart.  What is sent next comes     *)
(* from the queue of a connection, or from a call that sends such a queue. *)
(* The CSeqs there differ from one another, and from those that the server *)
(* has yet to answer: so no two unanswered requests have the same one.     *)
(***************************************************************************)
SentBy(c) == [id : 1 .. MaxRequests, cseq : 2 .. c]
PiecesBy(c) == [part : {"header", "body"}, cseq : 2 .. c, code : Codes]
FramesBy(c) == [at : HandlerPoints \cup ClientPoints,
                request : SentBy(c) \cup {NoRequest}, queue : Seq(SentBy(c)),
                cseq : 0 .. c, more : BOOLEAN]

CSeqs(q) == {q[i].cseq : i \in DOMAIN q}
OnceEach(q) == \A i, j \in DOMAIN q : q[i].cseq = q[j].cseq => i = j

Sends(f) == IF f.at = "resume" THEN CSeqs(f.queue) ELSE {}

Numbered(f) ==
    /\ f.at = "resume" => OnceEach(f.queue)
    /\ f.at \in {"resend", "resendFailed"} => f.request # NoRequest

\* Calls made while CSeqs go up to c, which will send none of those in "taken".
CallsBy(s, c, taken) ==
    /\ s \in Seq(FramesBy(c))
    /\ \A k \in DOMAIN s : Numbered(s[k]) /\ Sends(s[k]) \cap taken = {}
    /\ \A j, k \in DOMAIN s : j # k => Sends(s[j]) \cap Sends(s[k]) = {}

\* What is well formed for CSeqs up to c is for those up to d.
LEMMA NumbersGrow ==
  ASSUME NEW c \in Nat, NEW d \in Nat, c <= d
  PROVE  /\ SentBy(c) \subseteq SentBy(d) /\ Seq(SentBy(c)) \subseteq Seq(SentBy(d))
         /\ PiecesBy(c) \subseteq PiecesBy(d)
         /\ Seq(PiecesBy(c)) \subseteq Seq(PiecesBy(d))
         /\ FramesBy(c) \subseteq FramesBy(d)
         /\ Seq(FramesBy(c)) \subseteq Seq(FramesBy(d))
         /\ 2 .. c \subseteq 2 .. d /\ Seq(2 .. c) \subseteq Seq(2 .. d)
<1>1. 2 .. c \subseteq 2 .. d /\ 0 .. c \subseteq 0 .. d
  OBVIOUS
<1>2. SentBy(c) \subseteq SentBy(d)
  BY <1>1 DEF SentBy
<1>3. PiecesBy(c) \subseteq PiecesBy(d)
  BY <1>1 DEF PiecesBy
<1>4. ASSUME NEW S, NEW T, S \subseteq T
      PROVE  Seq(S) \subseteq Seq(T)
  BY <1>4
<1>5. Seq(SentBy(c)) \subseteq Seq(SentBy(d))
  BY <1>2, <1>4
<1>6. FramesBy(c) \subseteq FramesBy(d)
  <2> SUFFICES ASSUME NEW f \in FramesBy(c) PROVE f \in FramesBy(d)
    OBVIOUS
  <2> HIDE <1>4
  <2>1. /\ f.request \in SentBy(d) \cup {NoRequest}
        /\ f.queue \in Seq(SentBy(d)) /\ f.cseq \in 0 .. d
    BY <1>1, <1>2, <1>5 DEF FramesBy
  <2> QED
    BY <2>1 DEF FramesBy
<1>7. Seq(PiecesBy(c)) \subseteq Seq(PiecesBy(d))
  BY <1>3, <1>4
<1>8. Seq(FramesBy(c)) \subseteq Seq(FramesBy(d))
  BY <1>4, <1>6
<1>9. Seq(2 .. c) \subseteq Seq(2 .. d)
  BY <1>1, <1>4
<1> QED
  BY <1>1, <1>2, <1>3, <1>5, <1>6, <1>7, <1>8, <1>9

\* A request is put last in its queue.
LEMMA NumberLast ==
  ASSUME NEW S, NEW q \in Seq(S), NEW r \in S, OnceEach(q), r.cseq \notin CSeqs(q)
  PROVE  /\ Append(q, r) \in Seq(S) /\ OnceEach(Append(q, r))
         /\ CSeqs(Append(q, r)) = CSeqs(q) \cup {r.cseq}
<1> DEFINE p == Append(q, r)
<1>1. /\ p \in Seq(S) /\ Len(q) \in Nat
      /\ DOMAIN p = 1 .. Len(q) + 1 /\ DOMAIN q = 1 .. Len(q)
      /\ p[Len(q) + 1] = r /\ \A i \in 1 .. Len(q) : p[i] = q[i]
  OBVIOUS
<1> HIDE DEF p
<1>2. \A i \in DOMAIN p : i = Len(q) + 1 \/ i \in DOMAIN q
  BY <1>1
<1>3. \A i \in DOMAIN q : i \in DOMAIN p /\ p[i] = q[i] /\ q[i].cseq # r.cseq
  BY <1>1 DEF CSeqs
<1>4. Len(q) + 1 \in DOMAIN p
  BY <1>1
<1>5. OnceEach(p)
  BY <1>1, <1>2, <1>3 DEF OnceEach
<1>6. CSeqs(p) = CSeqs(q) \cup {r.cseq}
  <2>1. CSeqs(p) \subseteq CSeqs(q) \cup {r.cseq}
    BY <1>1, <1>2, <1>3 DEF CSeqs
  <2>2. CSeqs(q) \subseteq CSeqs(p)
    BY <1>3 DEF CSeqs
  <2>3. r.cseq \in CSeqs(p)
    BY <1>1, <1>4 DEF CSeqs
  <2> QED
    BY <2>1, <2>2, <2>3
<1> QED
  BY <1>1, <1>5, <1>6 DEF p

\* The first of a queue is taken.
LEMMA NumberTaken ==
  ASSUME NEW S, NEW q \in Seq(S), q # <<>>, OnceEach(q)
  PROVE  /\ Head(q) \in S /\ Tail(q) \in Seq(S) /\ OnceEach(Tail(q))
         /\ Head(q).cseq \in CSeqs(q)
         /\ CSeqs(Tail(q)) \subseteq CSeqs(q) \ {Head(q).cseq}
<1>1. /\ Head(q) \in S /\ Tail(q) \in Seq(S) /\ Len(q) \in Nat \ {0}
      /\ Head(q) = q[1] /\ DOMAIN q = 1 .. Len(q) /\ Len(Tail(q)) = Len(q) - 1
      /\ DOMAIN Tail(q) = 1 .. Len(Tail(q))
      /\ \A i \in 1 .. Len(Tail(q)) : Tail(q)[i] = q[i + 1]
  BY HeadTailProperties, EmptySeq
<1> DEFINE t == Tail(q)
<1>2. \A i \in DOMAIN t :
         i \in Nat /\ i + 1 \in DOMAIN q /\ i + 1 # 1 /\ t[i] = q[i + 1]
  BY <1>1
<1>3. 1 \in DOMAIN q
  BY <1>1
<1> HIDE DEF t
<1>4. OnceEach(t)
  <2> SUFFICES ASSUME NEW i \in DOMAIN t, NEW j \in DOMAIN t, t[i].cseq = t[j].cseq
               PROVE  i = j
    BY DEF OnceEach
  <2>1. i + 1 = j + 1
    BY <1>2 DEF OnceEach
  <2> QED
    BY <1>2, <2>1
<1>5. CSeqs(t) \subseteq CSeqs(q) \ {q[1].cseq}
  BY <1>2, <1>3 DEF CSeqs, OnceEach
<1>6. q[1].cseq \in CSeqs(q)
  BY <1>3 DEF CSeqs
<1> QED
  BY <1>1, <1>4, <1>5, <1>6 DEF t

-----------------------------------------------------------------------------
\* The CSeqs that a call sends are in range.
LEMMA SendsInRange ==
  ASSUME NEW c, NEW f \in FramesBy(c)
  PROVE  Sends(f) \subseteq 2 .. c
<1>1. f.queue \in Seq(SentBy(c))
  BY DEF FramesBy
<1>2. \A i \in DOMAIN f.queue : f.queue[i] \in SentBy(c)
  BY <1>1
<1> QED
  BY <1>2 DEF Sends, CSeqs, SentBy

\* More CSeqs are taken, which no call can know.
LEMMA CallsLater ==
  ASSUME NEW c \in Nat, NEW d \in Nat, c <= d, NEW s, NEW taken, CallsBy(s, c, taken),
         NEW others, others \cap (2 .. c) \subseteq taken
  PROVE  CallsBy(s, d, others)
<1>1. s \in Seq(FramesBy(d))
  BY NumbersGrow DEF CallsBy
<1>2. \A k \in DOMAIN s : Sends(s[k]) \cap others = {}
  <2>1. \A k \in DOMAIN s : s[k] \in FramesBy(c)
    BY DEF CallsBy
  <2> QED
    BY <2>1, SendsInRange DEF CallsBy
<1> QED
  BY <1>1, <1>2 DEF CallsBy

\* A call is made, which is the only one to send what it sends.
LEMMA CallPushed ==
  ASSUME NEW c, NEW s, NEW taken, NEW f \in FramesBy(c), Numbered(f),
         CallsBy(s, c, taken \cup Sends(f)), Sends(f) \cap taken = {}
  PROVE  CallsBy(Append(s, f), c, taken)
<1> DEFINE t == Append(s, f)
<1>1. /\ s \in Seq(FramesBy(c)) /\ t \in Seq(FramesBy(c)) /\ Len(s) \in Nat
      /\ DOMAIN t = 1 .. Len(s) + 1 /\ DOMAIN s = 1 .. Len(s)
      /\ t[Len(s) + 1] = f /\ \A i \in 1 .. Len(s) : t[i] = s[i]
  BY DEF CallsBy
<1> HIDE DEF t
<1>2. \A k \in DOMAIN t : (k = Len(s) + 1 /\ t[k] = f) \/ (k \in DOMAIN s /\ t[k] = s[k])
  BY <1>1
<1>3. \A k \in DOMAIN s : /\ Numbered(s[k])
                          /\ Sends(s[k]) \cap taken = {} /\ Sends(s[k]) \cap Sends(f) = {}
  BY DEF CallsBy
<1>4. \A j, k \in DOMAIN t : j # k => Sends(t[j]) \cap Sends(t[k]) = {}
  BY <1>2, <1>3 DEF CallsBy
<1>5. \A k \in DOMAIN t : Numbered(t[k]) /\ Sends(t[k]) \cap taken = {}
  BY <1>2, <1>3
<1> QED
  BY <1>1, <1>4, <1>5 DEF CallsBy, t

\* The innermost call, and those below it, which send none of what it sends.
LEMMA CallPopped ==
  ASSUME NEW c, NEW s, NEW taken, CallsBy(s, c, taken), s # <<>>
  PROVE  /\ CallsBy(Front(s), c, taken \cup Sends(Last(s)))
         /\ Last(s) \in FramesBy(c) /\ Numbered(Last(s)) /\ Sends(Last(s)) \cap taken = {}
         /\ \A f \in FramesBy(c) : [s EXCEPT ![Len(s)] = f] = Append(Front(s), f)
<1> DEFINE S == FramesBy(c)
           t == Front(s)
           n == Len(s)
<1>1. /\ t \in Seq(S) /\ Last(s) \in S
      /\ Last(s) = s[n] /\ n \in DOMAIN s
      /\ \A k \in DOMAIN t : k \in DOMAIN s /\ k # n /\ t[k] = s[k]
      /\ \A f \in S : [s EXCEPT ![n] = f] = Append(t, f)
  BY FrontAndLast DEF CallsBy
<1> HIDE DEF t, n
<1>2. CallsBy(t, c, taken \cup Sends(Last(s)))
  BY <1>1 DEF CallsBy
<1>3. Last(s) \in S /\ Numbered(Last(s)) /\ Sends(Last(s)) \cap taken = {}
  BY <1>1 DEF CallsBy
<1> QED
  BY <1>1, <1>2, <1>3 DEF t, n

\* The innermost call goes on as one that sends no more than it did: what it
\* does not send any longer may be taken.
LEMMA CallReplaced ==
  ASSUME NEW c \in Nat, NEW s, NEW taken, CallsBy(s, c, taken), s # <<>>,
         NEW f \in FramesBy(c), Numbered(f), Sends(f) \subseteq Sends(Last(s)),
         NEW others, others \subseteq taken \cup (Sends(Last(s)) \ Sends(f))
  PROVE  CallsBy([s EXCEPT ![Len(s)] = f], c, others)
<1>1. /\ CallsBy(Front(s), c, taken \cup Sends(Last(s))) /\ Sends(Last(s)) \cap taken = {}
      /\ [s EXCEPT ![Len(s)] = f] = Append(Front(s), f)
  BY CallPopped
<1>2. CallsBy(Front(s), c, others \cup Sends(f)) /\ Sends(f) \cap others = {}
  <2>1. (others \cup Sends(f)) \cap (2 .. c) \subseteq taken \cup Sends(Last(s))
    OBVIOUS
  <2> QED
    BY <1>1, <2>1, CallsLater
<1>3. CallsBy(Append(Front(s), f), c, others)
  BY <1>2, CallPushed
<1> QED
  BY <1>1, <1>3

-----------------------------------------------------------------------------
Outstanding == {unanswered[i] : i \in DOMAIN unanswered}
Taking == CSeqs(fRequestsAwaitingConnection) \cup Outstanding

Quantities ==
    /\ connection \in {"none", "pending", "open"} /\ closed \in BOOLEAN
    /\ fCSeq \in Nat /\ fCSeq >= 1
    /\ resends \in 0 .. MaxResends /\ issued \in 0 .. MaxRequests
    /\ calls \in [1 .. MaxRequests -> Nat] /\ disturbed \in BOOLEAN
    /\ failedResends \subseteq 1 .. MaxRequests

Records ==
    /\ fRequestsAwaitingConnection \in Seq(SentBy(fCSeq))
    /\ fRequestsAwaitingResponse \in Seq(SentBy(fCSeq))
    /\ dropped \subseteq SentBy(fCSeq)

Responses ==
    /\ fResponseBuffer \in Seq(PiecesBy(fCSeq)) /\ incoming \in Seq(PiecesBy(fCSeq))
    /\ unanswered \in Seq(2 .. fCSeq) /\ received \subseteq 2 .. fCSeq

Numbers ==
    /\ OnceEach(fRequestsAwaitingConnection) /\ IsInjective(unanswered)
    /\ CSeqs(fRequestsAwaitingConnection) \cap Outstanding = {}
    /\ CallsBy(stack, fCSeq, Taking)

TInv == Quantities /\ Records /\ Responses /\ Numbers

\* The invariant is about the types that the runs check.
LEMMA TypesOf == TInv => TypeOK
<1> SUFFICES ASSUME TInv PROVE TypeOK
  OBVIOUS
<1>1. Requests = SentBy(fCSeq)
  BY DEF Requests, SentBy
<1>2. stack \in Seq([at : HandlerPoints \cup ClientPoints,
                     request : Requests \cup {NoRequest}, queue : Seq(Requests),
                     cseq : 0 .. fCSeq, more : BOOLEAN])
  BY <1>1 DEF TInv, Numbers, CallsBy, FramesBy
<1>3. {fResponseBuffer, incoming} \subseteq
         Seq([part : {"header", "body"}, cseq : 2 .. fCSeq, code : Codes])
  BY DEF TInv, Responses, PiecesBy
<1> QED
  BY <1>1, <1>2, <1>3 DEF TypeOK, TInv, Quantities, Records, Responses, Numbers

\* A frame as it is made, and with a field set.
LEMMA FramesMade ==
  ASSUME NEW c \in Nat, NEW p \in HandlerPoints \cup ClientPoints, p # "resume"
  PROVE  /\ Frame(p) \in FramesBy(c)
         /\ p \notin {"resend", "resendFailed"}
                => Numbered(Frame(p)) /\ Sends(Frame(p)) = {}
         /\ \A r \in SentBy(c) :
               LET f == [Frame(p) EXCEPT !.request = r]
               IN  /\ f \in FramesBy(c) /\ Numbered(f) /\ Sends(f) = {}
                   /\ f.at = p /\ f.request = r
<1>1. <<>> \in Seq(SentBy(c))
  OBVIOUS
<1>2. Frame(p) \in FramesBy(c) /\ Frame(p).at = p
  BY <1>1 DEF Frame, FramesBy
<1>3. \A r \in SentBy(c) : r # NoRequest
  BY DEF SentBy, NoRequest
<1>4. ASSUME NEW r \in SentBy(c), NEW f, f = [Frame(p) EXCEPT !.request = r]
      PROVE  f \in FramesBy(c) /\ f.at = p /\ f.request = r
  BY <1>2, <1>4 DEF FramesBy
<1> QED
  BY <1>2, <1>3, <1>4 DEF Numbered, Sends

\* A frame of a request that is sent again.
LEMMA FramesResending ==
  ASSUME NEW c \in Nat, NEW p \in {"resend", "resendFailed"}, NEW r \in SentBy(c),
         NEW m \in BOOLEAN, NEW f, f = [Frame(p) EXCEPT !.request = r, !.more = m]
  PROVE  f \in FramesBy(c) /\ Numbered(f) /\ Sends(f) = {}
<1> DEFINE g == [Frame(p) EXCEPT !.request = r]
<1>1. g \in FramesBy(c) /\ Numbered(g) /\ Sends(g) = {} /\ g.at = p /\ g.request = r
  BY FramesMade DEF ClientPoints
<1>2. f = [g EXCEPT !.more = m]
  BY DEF Frame
<1> HIDE DEF g
<1>3. f \in FramesBy(c) /\ f.at = p /\ f.request = r
  BY <1>1, <1>2 DEF FramesBy
<1> QED
  BY <1>1, <1>3 DEF Numbered, Sends

\* The stack after a call that sends nothing, a return, or neither.
LEMMA CallsPass ==
  ASSUME TInv, NEW s,
         \/ s = stack
         \/ stack # <<>> /\ s = Front(stack)
         \/ \E f \in FramesBy(fCSeq) :
               /\ Numbered(f) /\ Sends(f) = {}
               /\ s = Append(stack, f) \/ (stack # <<>> /\ s = Replaced(f))
  PROVE  CallsBy(s, fCSeq, Taking)
<1>1. CallsBy(stack, fCSeq, Taking) /\ fCSeq \in Nat
  BY DEF TInv, Numbers, Quantities
<1>2. CASE s = stack
  BY <1>1, <1>2
<1>3. CASE stack # <<>> /\ s = Front(stack)
  <2>1. CallsBy(Front(stack), fCSeq, Taking \cup Sends(Last(stack)))
    BY <1>1, <1>3, CallPopped
  <2> QED
    BY <1>1, <1>3, <2>1, CallsLater
<1>4. ASSUME NEW f \in FramesBy(fCSeq), Numbered(f), Sends(f) = {},
             s = Append(stack, f) \/ (stack # <<>> /\ s = Replaced(f))
      PROVE  CallsBy(s, fCSeq, Taking)
  <2>1. CASE s = Append(stack, f)
    <3>1. Taking \cup Sends(f) = Taking /\ Sends(f) \cap Taking = {}
      BY <1>4
    <3> QED
      BY <1>1, <1>4, <2>1, <3>1, CallPushed
  <2>2. CASE stack # <<>> /\ s = Replaced(f)
    <3>1. /\ Sends(f) \subseteq Sends(Last(stack))
          /\ Taking \subseteq Taking \cup (Sends(Last(stack)) \ Sends(f))
      BY <1>4
    <3>2. CallsBy([stack EXCEPT ![Len(stack)] = f], fCSeq, Taking)
      BY <1>1, <1>4, <2>2, <3>1, CallReplaced
    <3> QED
      BY <2>2, <3>2 DEF Replaced
  <2> QED
    BY <1>4, <2>1, <2>2
<1> QED
  BY <1>2, <1>3, <1>4

\* A step that sends nothing keeps the numbers.
LEMMA NumbersFewer ==
  ASSUME TInv, fCSeq' = fCSeq, CallsBy(stack', fCSeq, Taking),
         fRequestsAwaitingConnection' \in {fRequestsAwaitingConnection, <<>>},
         IsInjective(unanswered'), Outstanding' \subseteq Outstanding
  PROVE  Numbers'
<1>1. OnceEach(<<>>) /\ CSeqs(<<>>) = {}
  BY DEF OnceEach, CSeqs
<1>2. /\ OnceEach(fRequestsAwaitingConnection')
      /\ CSeqs(fRequestsAwaitingConnection') \subseteq CSeqs(fRequestsAwaitingConnection)
  BY <1>1 DEF TInv, Numbers
<1>3. Taking' \subseteq Taking
  BY <1>2 DEF Taking
<1>4. CallsBy(stack', fCSeq, Taking')
  BY <1>3, CallsLater DEF TInv, Quantities
<1> QED
  BY <1>2, <1>4 DEF TInv, Numbers

\* Likewise when the server keeps its requests, or loses them all.
LEMMA NumbersKept ==
  ASSUME TInv, fCSeq' = fCSeq, CallsBy(stack', fCSeq, Taking),
         fRequestsAwaitingConnection' \in {fRequestsAwaitingConnection, <<>>},
         unanswered' \in {unanswered, <<>>}
  PROVE  Numbers'
<1>1. IsInjective(<<>>) /\ {<<>>[i] : i \in DOMAIN <<>>} = {}
  BY DEF IsInjective
<1>2. IsInjective(unanswered') /\ Outstanding' \subseteq Outstanding
  BY <1>1 DEF TInv, Numbers, Outstanding
<1> QED
  BY <1>2, NumbersFewer

\* A handler is counted.
LEMMA CallCounted ==
  ASSUME calls \in [1 .. MaxRequests -> Nat], NEW r, Called(r)
  PROVE  calls' \in [1 .. MaxRequests -> Nat]
<1>1. CASE r.id \in 1 .. MaxRequests
  BY <1>1 DEF Called
<1>2. CASE r.id \notin 1 .. MaxRequests
  BY <1>2 DEF Called
<1> QED
  BY <1>1, <1>2

-----------------------------------------------------------------------------
\* The queues after a step that sends nothing, or appends to one of them.
LEMMA RecordsLater ==
  ASSUME TInv, NEW d \in Nat, fCSeq <= d
  PROVE  /\ fRequestsAwaitingConnection \in Seq(SentBy(d))
         /\ fRequestsAwaitingResponse \in Seq(SentBy(d)) /\ dropped \subseteq SentBy(d)
         /\ fResponseBuffer \in Seq(PiecesBy(d)) /\ incoming \in Seq(PiecesBy(d))
         /\ unanswered \in Seq(2 .. d) /\ received \subseteq 2 .. d
BY NumbersGrow DEF TInv, Quantities, Records, Responses

\* The CSeqs that are taken are in range.
LEMMA TakingInRange == TInv => Taking \subseteq 2 .. fCSeq
<1> SUFFICES ASSUME TInv PROVE Taking \subseteq 2 .. fCSeq
  OBVIOUS
<1>1. \A i \in DOMAIN fRequestsAwaitingConnection :
         fRequestsAwaitingConnection[i] \in SentBy(fCSeq)
  BY DEF TInv, Records
<1>2. \A i \in DOMAIN unanswered : unanswered[i] \in 2 .. fCSeq
  <2> DEFINE S == 2 .. fCSeq
  <2>1. unanswered \in Seq(S)
    BY DEF TInv, Responses
  <2> HIDE DEF S
  <2>2. \A i \in DOMAIN unanswered : unanswered[i] \in S
    BY <2>1
  <2> QED
    BY <2>2 DEF S
<1>3. CSeqs(fRequestsAwaitingConnection) \subseteq 2 .. fCSeq
  BY <1>1 DEF CSeqs, SentBy
<1> QED
  BY <1>2, <1>3 DEF Taking, Outstanding

\* A CSeq is put last.
LEMMA PutLastNumber ==
  ASSUME NEW S, NEW q \in Seq(S), NEW x \in S, IsInjective(q),
         \A i \in DOMAIN q : q[i] # x
  PROVE  /\ Append(q, x) \in Seq(S) /\ IsInjective(Append(q, x))
         /\ {Append(q, x)[i] : i \in DOMAIN Append(q, x)} = {q[i] : i \in DOMAIN q} \cup {x}
<1> DEFINE p == Append(q, x)
<1>1. /\ p \in Seq(S) /\ Len(q) \in Nat
      /\ DOMAIN p = 1 .. Len(q) + 1 /\ DOMAIN q = 1 .. Len(q)
      /\ p[Len(q) + 1] = x /\ \A i \in 1 .. Len(q) : p[i] = q[i]
  OBVIOUS
<1> HIDE DEF p
<1>2. \A i \in DOMAIN p : (i = Len(q) + 1 /\ p[i] = x) \/ (i \in DOMAIN q /\ p[i] = q[i])
  BY <1>1
<1>3. Len(q) + 1 \in DOMAIN p /\ \A i \in DOMAIN q : i \in DOMAIN p
  BY <1>1
<1>4. IsInjective(p)
  BY <1>2 DEF IsInjective
<1>5. {p[i] : i \in DOMAIN p} = {q[i] : i \in DOMAIN q} \cup {x}
  BY <1>1, <1>2, <1>3
<1> QED
  BY <1>1, <1>4, <1>5 DEF p

\* sendRequest(), for a request whose CSeq is not taken: by what becomes of it
\* the CSeq is taken, unless the request has failed.
LEMMA SendTyped ==
  ASSUME TInv, NEW d \in Nat, d = fCSeq', fCSeq <= d, issued' \in 0 .. MaxRequests,
         NEW r \in SentBy(d), r.cseq \notin Taking, NEW done, NEW undone,
         CallsBy(done, d, Taking \cup {r.cseq}), CallsBy(undone, d, Taking),
         SendRequest(r, done, undone)
  PROVE  TInv'
<1>1. /\ fResponseBuffer' = fResponseBuffer /\ closed' = closed /\ incoming' = incoming
      /\ resends' = resends /\ received' = received /\ disturbed' = disturbed
      /\ failedResends' = failedResends /\ dropped' = dropped
  BY DEF SendRequest
<1>2. /\ fRequestsAwaitingConnection \in Seq(SentBy(d))
      /\ fRequestsAwaitingResponse \in Seq(SentBy(d)) /\ dropped \subseteq SentBy(d)
      /\ fResponseBuffer \in Seq(PiecesBy(d)) /\ incoming \in Seq(PiecesBy(d))
      /\ unanswered \in Seq(2 .. d) /\ received \subseteq 2 .. d
  BY RecordsLater
<1>3. /\ OnceEach(fRequestsAwaitingConnection) /\ IsInjective(unanswered)
      /\ CSeqs(fRequestsAwaitingConnection) \cap Outstanding = {}
  BY DEF TInv, Numbers
<1>4. r.cseq \in 2 .. d
  BY DEF SentBy
<1>5. CASE Enqueue(r, done)
  <2>1. /\ connection' \in {"none", "pending", "open"} /\ stack' = done
        /\ fRequestsAwaitingConnection' = Append(fRequestsAwaitingConnection, r)
        /\ fRequestsAwaitingResponse' = fRequestsAwaitingResponse
        /\ unanswered' = unanswered /\ calls' = calls
    BY <1>5 DEF Enqueue, TInv, Quantities
  <2>2. /\ fRequestsAwaitingConnection' \in Seq(SentBy(d))
        /\ OnceEach(fRequestsAwaitingConnection')
        /\ CSeqs(fRequestsAwaitingConnection')
              = CSeqs(fRequestsAwaitingConnection) \cup {r.cseq}
    <3>1. r.cseq \notin CSeqs(fRequestsAwaitingConnection)
      BY DEF Taking
    <3> QED
      BY <1>2, <1>3, <2>1, <3>1, NumberLast
  <2>3. Outstanding' = Outstanding /\ Taking' = Taking \cup {r.cseq}
    BY <2>1, <2>2 DEF Outstanding, Taking
  <2>4. Numbers'
    BY <1>3, <2>1, <2>2, <2>3 DEF Numbers, Taking
  <2> QED
    BY <1>1, <1>2, <2>1, <2>2, <2>4 DEF TInv, Quantities, Records, Responses
<1>6. CASE Send(r, done)
  <2>1. /\ connection' \in {"none", "pending", "open"} /\ stack' = done
        /\ fRequestsAwaitingResponse' = Append(fRequestsAwaitingResponse, r)
        /\ fRequestsAwaitingConnection' = fRequestsAwaitingConnection
        /\ unanswered' = Append(unanswered, r.cseq) /\ calls' = calls
    BY <1>6 DEF Send
  <2>2. fRequestsAwaitingResponse' \in Seq(SentBy(d))
    BY <1>2, <2>1
  <2>3. /\ unanswered' \in Seq(2 .. d) /\ IsInjective(unanswered')
        /\ Outstanding' = Outstanding \cup {r.cseq}
    <3>1. \A i \in DOMAIN unanswered : unanswered[i] # r.cseq
      BY DEF Taking, Outstanding
    <3> QED
      <4> DEFINE x == r.cseq
      <4>1. /\ unanswered \in Seq(2 .. d) /\ x \in 2 .. d /\ IsInjective(unanswered)
            /\ \A i \in DOMAIN unanswered : unanswered[i] # x
        BY <1>2, <1>3, <1>4, <3>1
      <4> HIDE DEF x
      <4>2. /\ Append(unanswered, x) \in Seq(2 .. d) /\ IsInjective(Append(unanswered, x))
            /\ {Append(unanswered, x)[i] : i \in DOMAIN Append(unanswered, x)}
                   = {unanswered[i] : i \in DOMAIN unanswered} \cup {x}
        BY ONLY <4>1, PutLastNumber
      <4>3. unanswered' = Append(unanswered, x)
        BY <2>1 DEF x
      <4>4. Outstanding' = Outstanding \cup {x}
        BY ONLY <4>2, <4>3 DEF Outstanding
      <4> QED
        BY <4>2, <4>3, <4>4 DEF x
  <2>4. Taking' = Taking \cup {r.cseq}
    BY <2>1, <2>3 DEF Taking
  <2>5. Numbers'
    BY <1>3, <2>1, <2>3, <2>4 DEF Numbers, Taking
  <2> QED
    BY SMTT(30), <1>1, <1>2, <2>1, <2>2, <2>3, <2>5 DEF TInv, Quantities, Records, Responses
<1>7. CASE Fail(r, undone)
  <2> DEFINE f == [Frame("failedHandler") EXCEPT !.request = r]
  <2>1. /\ connection' \in {"none", "pending", "open"}
        /\ stack' = Append(undone, f) /\ Called(r)
        /\ fRequestsAwaitingConnection' = fRequestsAwaitingConnection
        /\ fRequestsAwaitingResponse' = fRequestsAwaitingResponse
        /\ unanswered' = unanswered
    BY <1>7 DEF Fail, OpenConnection, queueVars, TInv, Quantities
  <2>2. f \in FramesBy(d) /\ Numbered(f) /\ Sends(f) = {}
    BY FramesMade DEF HandlerPoints
  <2> HIDE DEF f
  <2>3. CallsBy(stack', d, Taking)
    <3>1. Taking \cup Sends(f) = Taking /\ Sends(f) \cap Taking = {}
      BY <2>2
    <3>2. CallsBy(Append(undone, f), d, Taking)
      BY <2>2, <3>1, CallPushed
    <3> QED
      BY <2>1, <3>2
  <2>4. Outstanding' = Outstanding /\ Taking' = Taking
    BY <2>1 DEF Outstanding, Taking
  <2>5. Numbers'
    BY <1>3, <2>1, <2>3, <2>4 DEF Numbers
  <2>6. calls' \in [1 .. MaxRequests -> Nat]
    BY <2>1, CallCounted DEF TInv, Quantities
  <2> QED
    BY <1>1, <1>2, <2>1, <2>5, <2>6 DEF TInv, Quantities, Records, Responses
<1> QED
  BY <1>5, <1>6, <1>7 DEF SendRequest

\* A new request has the next CSeq, which nothing has taken.
LEMMA SendCommandTyped == TInv /\ SendCommand => TInv'
<1> SUFFICES ASSUME TInv, SendCommand PROVE TInv'
  OBVIOUS
<1> DEFINE d == fCSeq + 1
           r == [id |-> issued + 1, cseq |-> fCSeq + 1]
<1>1. /\ d \in Nat /\ fCSeq' = d /\ fCSeq <= d /\ fCSeq \in Nat
      /\ issued' \in 0 .. MaxRequests /\ r \in SentBy(d) /\ r.cseq = d
  BY ClientAssumption DEF SendCommand, TInv, Quantities, SentBy
<1>2. Taking \subseteq 2 .. fCSeq
  BY TakingInRange
<1>3. SendRequest(r, stack, stack)
  BY DEF SendCommand
<1> HIDE DEF d, r
<1>4. r.cseq \notin Taking
  BY <1>1, <1>2, d = fCSeq + 1 DEF d
<1>5. CallsBy(stack, d, Taking \cup {r.cseq}) /\ CallsBy(stack, d, Taking)
  <2>1. (Taking \cup {r.cseq}) \cap (2 .. fCSeq) \subseteq Taking
    BY <1>1 DEF d
  <2>2. Taking \cap (2 .. fCSeq) \subseteq Taking
    OBVIOUS
  <2> QED
    BY <1>1, <2>1, <2>2, CallsLater DEF TInv, Numbers
<1> QED
  BY <1>1, <1>3, <1>4, <1>5, SendTyped

\* A request of the queue that connectionHandler1() has taken over is sent.
LEMMA ResumeSendingTyped == TInv /\ ResumeSending => TInv'
<1> SUFFICES ASSUME TInv, ResumeSending PROVE TInv'
  OBVIOUS
<1> DEFINE d == fCSeq
           r == Head(Top.queue)
           f == [Top EXCEPT !.queue = Tail(@)]
           s == [stack EXCEPT ![Len(stack)] = f]
<1>1. /\ d \in Nat /\ fCSeq' = d /\ fCSeq <= d /\ issued' \in 0 .. MaxRequests
      /\ stack # <<>> /\ Top.at = "resume" /\ Top.queue # <<>>
      /\ SendRequest(r, s, s)
  BY DEF ResumeSending, At, TInv, Quantities, Replaced
<1>2. /\ CallsBy(stack, d, Taking) /\ Top \in FramesBy(d) /\ Numbered(Top)
      /\ Sends(Top) \cap Taking = {}
  BY <1>1, CallPopped DEF TInv, Numbers, Top
<1>3. Top.queue \in Seq(SentBy(d)) /\ OnceEach(Top.queue)
  BY <1>1, <1>2 DEF FramesBy, Numbered
<1> DEFINE t == Tail(Top.queue)
<1>4. /\ r \in SentBy(d) /\ t \in Seq(SentBy(d)) /\ OnceEach(t)
      /\ r.cseq \in CSeqs(Top.queue) /\ CSeqs(t) \subseteq CSeqs(Top.queue) \ {r.cseq}
  BY <1>1, <1>3, NumberTaken
<1> HIDE DEF d, r, t
<1>5. /\ f \in FramesBy(d) /\ f.at = "resume" /\ f.queue = t
  BY <1>1, <1>2, <1>4 DEF FramesBy, t
<1> HIDE DEF f
<1>6. /\ Numbered(f) /\ Sends(f) = CSeqs(t) /\ Sends(Top) = CSeqs(Top.queue)
  BY <1>1, <1>4, <1>5 DEF Numbered, Sends
<1>7. r.cseq \notin Taking
  BY <1>2, <1>4, <1>6
<1>8. CallsBy(s, d, Taking \cup {r.cseq}) /\ CallsBy(s, d, Taking)
  <2>1. /\ Sends(f) \subseteq Sends(Last(stack))
        /\ Taking \subseteq Taking \cup (Sends(Last(stack)) \ Sends(f))
        /\ Taking \cup {r.cseq} \subseteq Taking \cup (Sends(Last(stack)) \ Sends(f))
    BY <1>4, <1>6 DEF Top
  <2> QED
    BY <1>1, <1>2, <1>5, <1>6, <2>1, CallReplaced
<1> HIDE DEF s
<1> QED
  BY <1>1, <1>4, <1>7, <1>8, SendTyped

\* A request is sent again, with the next CSeq.
LEMMA ResendCommandTyped == TInv /\ ResendCommand => TInv'
<1> SUFFICES ASSUME TInv, ResendCommand PROVE TInv'
  OBVIOUS
<1> DEFINE d == fCSeq + 1
           r == [Top.request EXCEPT !.cseq = NextCSeq]
           f == [Frame("resendFailed") EXCEPT !.request = r, !.more = Top.more]
           s == [stack EXCEPT ![Len(stack)] = f]
<1>1. /\ d \in Nat /\ fCSeq' = d /\ fCSeq <= d /\ fCSeq \in Nat
      /\ issued' \in 0 .. MaxRequests
      /\ stack # <<>> /\ Top.at = "resend" /\ SendRequest(r, Front(stack), s)
  BY DEF ResendCommand, At, TInv, Quantities, Replaced
<1>2. /\ CallsBy(stack, fCSeq, Taking) /\ Top \in FramesBy(fCSeq) /\ Numbered(Top)
      /\ CallsBy(Front(stack), fCSeq, Taking \cup Sends(Top))
  BY <1>1, CallPopped DEF TInv, Numbers, Top
<1>3. r \in SentBy(d) /\ r.cseq = d
  <2>1. Top.request \in SentBy(fCSeq)
    BY <1>1, <1>2 DEF FramesBy, Numbered
  <2>2. fCSeq \in Nat /\ fCSeq >= 1
    BY DEF TInv, Quantities
  <2>3. /\ Top.request \in [id : 1 .. MaxRequests, cseq : 2 .. fCSeq]
        /\ r = [Top.request EXCEPT !.cseq = d] /\ d \in 2 .. d
    BY <2>1, <2>2 DEF SentBy, NextCSeq
  <2> HIDE DEF d, r
  <2> QED
    BY <2>3 DEF SentBy
<1>4. Taking \subseteq 2 .. fCSeq
  BY TakingInRange
<1> HIDE DEF r
<1>5. r.cseq \notin Taking
  BY <1>1, <1>3, <1>4
<1>6. f \in FramesBy(d) /\ Numbered(f) /\ Sends(f) = {}
  <2>1. Top.more \in BOOLEAN
    BY <1>2 DEF FramesBy
  <2> HIDE DEF f
  <2> QED
    BY <1>1, <1>3, <2>1, FramesResending DEF ClientPoints, f
<1> HIDE DEF f
<1>7. CallsBy(stack, d, Taking) /\ CallsBy(Front(stack), d, Taking \cup {r.cseq})
  <2>1. Taking \cap (2 .. fCSeq) \subseteq Taking
    OBVIOUS
  <2>2. (Taking \cup {r.cseq}) \cap (2 .. fCSeq) \subseteq Taking \cup Sends(Top)
    BY <1>1, <1>3
  <2> HIDE DEF d
  <2> QED
    BY <1>1, <1>2, <2>1, <2>2, CallsLater
<1>8. CallsBy(s, d, Taking)
  <2>1. /\ Sends(f) \subseteq Sends(Last(stack))
        /\ Taking \subseteq Taking \cup (Sends(Last(stack)) \ Sends(f))
    BY <1>6
  <2> HIDE DEF d
  <2> QED
    BY <1>1, <1>6, <1>7, <2>1, CallReplaced
<1> HIDE DEF s, d
<1> QED
  BY <1>1, <1>3, <1>5, <1>7, <1>8, SendTyped

-----------------------------------------------------------------------------
\* The call that a queue is handed to.
LEMMA FrameWithQueue ==
  ASSUME NEW c \in Nat, NEW p \in {"resume", "errors"}, NEW q \in Seq(SentBy(c)),
         NEW f, f = [Frame(p) EXCEPT !.queue = q]
  PROVE  f \in FramesBy(c) /\ f.at = p /\ f.queue = q
<1>1. <<>> \in Seq(SentBy(c))
  OBVIOUS
<1>2. Frame(p) \in FramesBy(c) /\ Frame(p).at = p
  BY <1>1 DEF Frame, FramesBy, ClientPoints
<1> QED
  BY <1>2 DEF FramesBy

\* An empty sequence is of any type.
LEMMA NothingTyped ==
  ASSUME NEW c
  PROVE  <<>> \in Seq(SentBy(c)) /\ <<>> \in Seq(PiecesBy(c)) /\ <<>> \in Seq(2 .. c)
OBVIOUS

\* The connection is open, and those who waited for it are to be sent.
LEMMA ConnectionSucceedsTyped == TInv /\ ConnectionSucceeds => TInv'
<1> SUFFICES ASSUME TInv, ConnectionSucceeds PROVE TInv'
  OBVIOUS
<1> DEFINE q == fRequestsAwaitingConnection
           f == [Frame("resume") EXCEPT !.queue = q]
<1>1. /\ connection' = "open" /\ q' = <<>> /\ stack' = Append(stack, f)
      /\ fCSeq' = fCSeq /\ fRequestsAwaitingResponse' = fRequestsAwaitingResponse
      /\ fResponseBuffer' = fResponseBuffer /\ closed' = closed
      /\ unanswered' = unanswered /\ incoming' = incoming /\ resends' = resends
      /\ UNCHANGED historyVars
  BY DEF ConnectionSucceeds, QueueCleared, serverVars
<1>2. /\ q \in Seq(SentBy(fCSeq)) /\ fCSeq \in Nat /\ OnceEach(q)
      /\ IsInjective(unanswered) /\ CSeqs(q) \cap Outstanding = {}
      /\ CallsBy(stack, fCSeq, Taking)
  BY DEF TInv, Records, Numbers, Quantities
<1>3. f \in FramesBy(fCSeq) /\ f.at = "resume" /\ f.queue = q
  BY <1>2, FrameWithQueue
<1>4. Taking' = Outstanding /\ Outstanding' = Outstanding /\ CSeqs(q') = {} /\ OnceEach(q')
  BY <1>1 DEF Taking, Outstanding, CSeqs, OnceEach
<1> HIDE DEF f
<1>5. Numbered(f) /\ Sends(f) = CSeqs(q)
  BY <1>2, <1>3 DEF Numbered, Sends
<1>6. CallsBy(stack', fCSeq, Outstanding)
  <2>1. Outstanding \cup Sends(f) = Taking /\ Sends(f) \cap Outstanding = {}
    BY <1>2, <1>5 DEF Taking
  <2>2. CallsBy(Append(stack, f), fCSeq, Outstanding)
    BY <1>2, <1>3, <1>5, <2>1, CallPushed
  <2> QED
    BY <1>1, <2>2
<1>7. Numbers'
  BY <1>1, <1>2, <1>4, <1>6 DEF Numbers
<1> QED
  BY <1>1, <1>7, NothingTyped DEF TInv, Quantities, Records, Responses, historyVars

\* The connection could not be made, or is lost.
LEMMA ConnectionEndTyped == TInv /\ (ConnectionFails \/ ConnectionLost) => TInv'
<1> SUFFICES ASSUME TInv, ConnectionFails \/ ConnectionLost PROVE TInv'
  OBVIOUS
<1>1. PICK q \in {fRequestsAwaitingConnection, fRequestsAwaitingResponse} :
          stack' = Append(stack, [Frame("errors") EXCEPT !.queue = q])
  BY DEF ConnectionFails, ConnectionLost
<1>2. /\ connection' = "none" /\ unanswered' = <<>> /\ incoming' = <<>>
      /\ fResponseBuffer' \in {fResponseBuffer, <<>>}
      /\ fRequestsAwaitingConnection' \in {fRequestsAwaitingConnection, <<>>}
      /\ fRequestsAwaitingResponse' \in {fRequestsAwaitingResponse, <<>>}
      /\ fCSeq' = fCSeq /\ closed' = closed /\ resends' = resends /\ UNCHANGED historyVars
  BY DEF ConnectionFails, ConnectionLost, QueueCleared, ResetTCPSockets, ResetResponseBuffer
<1> DEFINE f == [Frame("errors") EXCEPT !.queue = q]
<1>3. f \in FramesBy(fCSeq) /\ f.at = "errors"
  <2>1. q \in Seq(SentBy(fCSeq)) /\ fCSeq \in Nat
    BY DEF TInv, Records, Quantities
  <2>2. f = [Frame("errors") EXCEPT !.queue = q]
    OBVIOUS
  <2> HIDE DEF f
  <2> QED
    BY <2>1, <2>2, FrameWithQueue
<1> HIDE DEF f
<1>4. Numbered(f) /\ Sends(f) = {} /\ stack' = Append(stack, f)
  BY <1>1, <1>3 DEF Numbered, Sends, f
<1>5. CallsBy(stack', fCSeq, Taking)
  BY <1>3, <1>4, CallsPass
<1>6. Numbers'
  BY <1>2, <1>5, NumbersKept
<1> QED
  BY <1>2, <1>6, NothingTyped DEF TInv, Quantities, Records, Responses, historyVars

\* The next of those that wait is told of the error.
LEMMA NextErrorTyped == TInv /\ NextError => TInv'
<1> SUFFICES ASSUME TInv, NextError PROVE TInv'
  OBVIOUS
<1> DEFINE q == Top.queue
           f == [Top EXCEPT !.at = "errorHandler", !.request = Head(q), !.queue = Tail(q)]
<1>1. /\ stack # <<>> /\ q # <<>> /\ stack' = Replaced(f) /\ Called(Head(q))
      /\ UNCHANGED <<connection, fCSeq, queueVars, fResponseBuffer, closed,
                     serverVars, issued, received, disturbed, failedResends, dropped>>
  BY DEF NextError, At
<1>2. Top \in FramesBy(fCSeq) /\ fCSeq \in Nat
  BY <1>1, CallPopped DEF TInv, Numbers, Quantities, Top
<1>3. q \in Seq(SentBy(fCSeq)) /\ Head(q) \in SentBy(fCSeq) /\ Tail(q) \in Seq(SentBy(fCSeq))
  BY <1>1, <1>2, HeadTailProperties, EmptySeq DEF FramesBy
<1>4. f \in FramesBy(fCSeq) /\ f.at = "errorHandler"
  BY <1>2, <1>3 DEF FramesBy, HandlerPoints
<1> HIDE DEF f
<1>5. Numbered(f) /\ Sends(f) = {}
  BY <1>4 DEF Numbered, Sends
<1>6. CallsBy(stack', fCSeq, Taking)
  BY <1>1, <1>4, <1>5, CallsPass
<1>7. Numbers'
  BY <1>1, <1>6, NumbersKept DEF queueVars, serverVars
<1>8. calls' \in [1 .. MaxRequests -> Nat]
  BY <1>1, CallCounted DEF TInv, Quantities
<1> QED
  BY <1>1, <1>7, <1>8 DEF TInv, Quantities, Records, Responses, queueVars, serverVars

\* Calls that do no more than begin or end.
LEMMA QuietTyped ==
  ASSUME TInv, \/ QueueHandled \/ NoHeader \/ NotAResponse
               \/ HandlerReturns \/ UNCHANGED vars
  PROVE  TInv'
<1>1. /\ fResponseBuffer' \in {fResponseBuffer, <<>>}
      /\ UNCHANGED <<connection, fCSeq, queueVars, closed, serverVars, historyVars>>
  BY DEF QueueHandled, NoHeader, NotAResponse, HandlerReturns, vars, ResetResponseBuffer
<1>2. CallsBy(stack', fCSeq, Taking)
  <2>1. CASE \/ stack' = stack
             \/ stack # <<>> /\ stack' = Front(stack)
    BY <2>1, CallsPass
  <2>2. CASE stack # <<>> /\ stack' = Replaced(Frame("parse"))
    <3>1. /\ Frame("parse") \in FramesBy(fCSeq)
          /\ Numbered(Frame("parse")) /\ Sends(Frame("parse")) = {}
      BY FramesMade DEF TInv, Quantities, ClientPoints
    <3> QED
      BY <2>2, <3>1, CallsPass
  <2>3. CASE /\ stack # <<>>
             /\ stack' = Replaced([Top EXCEPT !.at = "errors", !.request = NoRequest])
    <3> DEFINE f == [Top EXCEPT !.at = "errors", !.request = NoRequest]
    <3>1. Top \in FramesBy(fCSeq)
      BY <2>3, CallPopped DEF TInv, Numbers, Top
    <3>2. f \in FramesBy(fCSeq) /\ f.at = "errors"
      BY <3>1 DEF FramesBy, ClientPoints
    <3> HIDE DEF f
    <3>3. Numbered(f) /\ Sends(f) = {} /\ stack' = Replaced(f)
      BY <2>3, <3>2 DEF Numbered, Sends, f
    <3> QED
      BY <2>3, <3>2, <3>3, CallsPass
  <2>4. CASE HandlerReturns
    BY <2>1, <2>2, <2>3, <2>4 DEF HandlerReturns, InHandler
  <2> QED
    BY <2>1, <2>4 DEF QueueHandled, NoHeader, NotAResponse, At, vars
<1>3. Numbers'
  BY <1>1, <1>2, NumbersKept DEF queueVars, serverVars
<1> QED
  BY <1>1, <1>3, NothingTyped
     DEF TInv, Quantities, Records, Responses, queueVars, serverVars, historyVars

\* Responses are read, by a call that will look at them.
LEMMA IncomingDataTyped == TInv /\ IncomingData => TInv'
<1> SUFFICES ASSUME TInv, IncomingData PROVE TInv'
  OBVIOUS
<1>1. PICK n \in 1 .. Len(incoming) :
          /\ fResponseBuffer' = fResponseBuffer \o SubSeq(incoming, 1, n)
          /\ incoming' = SubSeq(incoming, n + 1, Len(incoming))
          /\ received' = received \cup
                 {incoming[i].cseq : i \in {j \in 1 .. n : incoming[j].part = "body"}}
  BY DEF IncomingData
<1>2. /\ stack' = Append(stack, Frame("parse"))
      /\ UNCHANGED <<connection, fCSeq, queueVars, closed, unanswered, resends,
                     issued, calls, disturbed, failedResends, dropped>>
  BY DEF IncomingData
<1> DEFINE S == PiecesBy(fCSeq)
<1>3. incoming \in Seq(S) /\ fResponseBuffer \in Seq(S) /\ received \subseteq 2 .. fCSeq
  BY DEF TInv, Responses
<1>4. \A i \in 1 .. n : incoming[i].cseq \in 2 .. fCSeq
  <2>1. \A i \in 1 .. n : incoming[i] \in S
    <3> HIDE DEF S
    <3> QED
      BY <1>3
  <2> QED
    BY <2>1 DEF PiecesBy
<1> HIDE DEF S
<1>5. fResponseBuffer' \in Seq(S) /\ incoming' \in Seq(S)
  BY <1>1, <1>3
<1>6. received' \subseteq 2 .. fCSeq
  BY <1>1, <1>3, <1>4
<1>7. CallsBy(stack', fCSeq, Taking)
  <2>1. /\ Frame("parse") \in FramesBy(fCSeq)
        /\ Numbered(Frame("parse")) /\ Sends(Frame("parse")) = {}
    BY FramesMade DEF TInv, Quantities, ClientPoints
  <2> QED
    BY <1>2, <2>1, CallsPass
<1>8. Numbers'
  BY <1>2, <1>7, NumbersKept DEF queueVars
<1> QED
  BY <1>2, <1>5, <1>6, <1>8 DEF TInv, Quantities, Records, Responses, queueVars, S

\* The search for a request: what is left of the queue, and what is given up.
LEMMA SearchTyped ==
  ASSUME TInv, NEW cseq, DropBefore(cseq)
  PROVE  /\ Candidates(cseq) \in Seq(SentBy(fCSeq)) /\ dropped' \subseteq SentBy(fCSeq)
         /\ Candidates(cseq) # <<>> => /\ Head(Candidates(cseq)) \in SentBy(fCSeq)
                                       /\ Tail(Candidates(cseq)) \in Seq(SentBy(fCSeq))
<1> DEFINE S == SentBy(fCSeq)
           q == fRequestsAwaitingResponse
           c == Candidates(cseq)
<1>1. q \in Seq(S) /\ dropped \subseteq S /\ Len(q) \in Nat
  BY DEF TInv, Records
<1> HIDE DEF S
<1>2. PICK n \in 0 .. Len(q) : c = SubSeq(q, n + 1, Len(q))
  BY <1>1, CandidatesLast
<1>3. dropped' = dropped \cup ToSet(SubSeq(q, 1, Len(q) - Len(c)))
  BY DEF DropBefore
<1> HIDE DEF q, c
<1>4. c \in Seq(S) /\ Len(c) = Len(q) - n
  BY <1>1, <1>2
<1>5. SubSeq(q, 1, n) \in Seq(S) /\ Len(q) - Len(c) = n
  BY <1>1, <1>4
<1>6. ToSet(SubSeq(q, 1, n)) \subseteq S
  BY <1>5 DEF ToSet
<1>7. dropped' \subseteq S
  BY <1>1, <1>3, <1>5, <1>6
<1>8. c # <<>> => Head(c) \in S /\ Tail(c) \in Seq(S)
  BY <1>4, HeadTailProperties, EmptySeq
<1> QED
  BY <1>4, <1>7, <1>8 DEF S, c

\* What is read and not handled, without the first response.
LEMMA ResponseTyped ==
  ASSUME TInv, fResponseBuffer # <<>>
  PROVE  /\ SubSeq(fResponseBuffer, 3, Len(fResponseBuffer)) \in Seq(PiecesBy(fCSeq))
         /\ Response.cseq \in 0 .. fCSeq
<1> DEFINE S == PiecesBy(fCSeq)
<1>1. fResponseBuffer \in Seq(S)
  BY DEF TInv, Responses
<1> HIDE DEF S
<1>2. SubSeq(fResponseBuffer, 3, Len(fResponseBuffer)) \in Seq(S) /\ Response \in S
  BY <1>1, HeadTailProperties, EmptySeq DEF Response
<1>3. fCSeq \in Nat
  BY DEF TInv, Quantities
<1> QED
  BY <1>2, <1>3 DEF S, PiecesBy

\* A response whose request is not taken.
LEMMA NotTakenTyped == TInv /\ (BodyMissing \/ ResponseToNobody) => TInv'
<1> SUFFICES ASSUME TInv, BodyMissing \/ ResponseToNobody PROVE TInv'
  OBVIOUS
<1> DEFINE c == Candidates(Response.cseq)
           rest == SubSeq(fResponseBuffer, 3, Len(fResponseBuffer))
<1>1. /\ DropBefore(Response.cseq) /\ fRequestsAwaitingResponse' = c
      /\ stack # <<>> /\ (stack' = stack \/ stack' = Front(stack))
      /\ \/ fResponseBuffer' = fResponseBuffer
         \/ fResponseBuffer # <<>> /\ fResponseBuffer' = rest
      /\ UNCHANGED <<connection, fCSeq, fRequestsAwaitingConnection, closed,
                     serverVars, issued, calls, received, disturbed, failedResends>>
  BY DEF BodyMissing, ResponseToNobody, At, Complete, FindRequest, PutAtHead, Rest,
         serverVars
<1>2. c \in Seq(SentBy(fCSeq)) /\ dropped' \subseteq SentBy(fCSeq)
  BY <1>1, SearchTyped
<1>3. fResponseBuffer' \in Seq(PiecesBy(fCSeq))
  BY <1>1, ResponseTyped DEF TInv, Responses
<1>4. CallsBy(stack', fCSeq, Taking)
  BY <1>1, CallsPass
<1>5. Numbers'
  BY <1>1, <1>4, NumbersKept DEF serverVars
<1> HIDE DEF c
<1> QED
  BY <1>1, <1>2, <1>3, <1>5 DEF TInv, Quantities, Records, Responses, serverVars

\* The handler of the request that is taken is called.
LEMMA CallHandlerTyped == TInv /\ CallHandler => TInv'
<1> SUFFICES ASSUME TInv, CallHandler PROVE TInv'
  OBVIOUS
<1> DEFINE c == Candidates(Response.cseq)
           rest == SubSeq(fResponseBuffer, 3, Len(fResponseBuffer))
           more == More /\ Response.code # "bad"
           f == [Frame("responseHandler") EXCEPT
                    !.request = FoundRequest, !.cseq = Response.cseq, !.more = more]
<1>1. /\ DropBefore(Response.cseq) /\ c # <<>> /\ fRequestsAwaitingResponse' = Tail(c)
      /\ FoundRequest = Head(c) /\ stack # <<>> /\ stack' = Replaced(f)
      /\ fResponseBuffer # <<>> /\ fResponseBuffer' = rest /\ Called(FoundRequest)
      /\ UNCHANGED <<connection, fCSeq, fRequestsAwaitingConnection, closed,
                     serverVars, issued, received, disturbed, failedResends>>
  BY DEF CallHandler, At, Complete, FindRequest, Rest, FoundRequest
<1>2. /\ Head(c) \in SentBy(fCSeq) /\ Tail(c) \in Seq(SentBy(fCSeq))
      /\ dropped' \subseteq SentBy(fCSeq)
  BY <1>1, SearchTyped
<1>3. rest \in Seq(PiecesBy(fCSeq)) /\ Response.cseq \in 0 .. fCSeq
  BY <1>1, ResponseTyped
<1>4. f \in FramesBy(fCSeq) /\ f.at = "responseHandler"
  <2>1. /\ Frame("responseHandler") \in FramesBy(fCSeq)
        /\ Frame("responseHandler").at = "responseHandler"
    BY FramesMade DEF TInv, Quantities, HandlerPoints, Frame
  <2>2. more \in BOOLEAN /\ FoundRequest \in SentBy(fCSeq)
    BY <1>1, <1>2
  <2> HIDE DEF more
  <2>3. Response.cseq \in 0 .. fCSeq
    BY <1>3
  <2> QED
    BY <2>1, <2>2, <2>3 DEF FramesBy
<1> HIDE DEF f
<1>5. Numbered(f) /\ Sends(f) = {}
  BY <1>4 DEF Numbered, Sends
<1>6. CallsBy(stack', fCSeq, Taking)
  BY <1>1, <1>4, <1>5, CallsPass
<1>7. Numbers'
  BY <1>1, <1>6, NumbersKept DEF serverVars
<1>8. calls' \in [1 .. MaxRequests -> Nat]
  BY <1>1, CallCounted DEF TInv, Quantities
<1> HIDE DEF c, rest
<1> QED
  BY <1>1, <1>2, <1>3, <1>7, <1>8 DEF TInv, Quantities, Records, Responses, serverVars

\* The request that is taken is to be sent again.
LEMMA NeedToResendTyped == TInv /\ NeedToResend => TInv'
<1> SUFFICES ASSUME TInv, NeedToResend PROVE TInv'
  OBVIOUS
<1> DEFINE c == Candidates(Response.cseq)
           f == [Frame("resend") EXCEPT !.request = FoundRequest, !.more = More]
<1>1. /\ DropBefore(Response.cseq) /\ c # <<>> /\ fRequestsAwaitingResponse' = Tail(c)
      /\ FoundRequest = Head(c) /\ stack # <<>> /\ stack' = Replaced(f)
      /\ fResponseBuffer' = <<>>
      /\ connection' \in {connection, "none"}
      /\ unanswered' \in {unanswered, <<>>} /\ incoming' \in {incoming, <<>>}
      /\ UNCHANGED <<fCSeq, fRequestsAwaitingConnection, closed, resends, issued,
                     calls, received, failedResends>>
  BY DEF NeedToResend, At, Complete, FindRequest, Rest, FoundRequest, ResetTCPSockets,
         ResetResponseBuffer
<1>2. /\ Head(c) \in SentBy(fCSeq) /\ Tail(c) \in Seq(SentBy(fCSeq))
      /\ dropped' \subseteq SentBy(fCSeq)
  BY <1>1, SearchTyped
<1>3. disturbed' \in BOOLEAN
  BY DEF NeedToResend, TInv, Quantities
<1>4. f \in FramesBy(fCSeq) /\ Numbered(f) /\ Sends(f) = {}
  <2>1. More \in BOOLEAN
    BY DEF More
  <2> HIDE DEF f
  <2> QED
    BY <1>1, <1>2, <2>1, FramesResending DEF TInv, Quantities, f
<1> HIDE DEF f
<1>5. CallsBy(stack', fCSeq, Taking)
  BY <1>1, <1>4, CallsPass
<1>6. Numbers'
  BY <1>1, <1>5, NumbersKept
<1> HIDE DEF c
<1> QED
  BY <1>1, <1>2, <1>3, <1>6, NothingTyped DEF TInv, Quantities, Records, Responses

\* The request that could not be sent again is told a second time.
LEMMA ResendFailedTyped == TInv /\ ResendFailed => TInv'
<1> SUFFICES ASSUME TInv, ResendFailed PROVE TInv'
  OBVIOUS
<1> DEFINE f == [Frame("responseHandler") EXCEPT !.request = Top.request]
<1>1. /\ stack # <<>> /\ Top.at = "resendFailed" /\ stack' = Replaced(f)
      /\ Called(Top.request) /\ failedResends' = failedResends \cup {Top.request.id}
      /\ fResponseBuffer' \in {<<Body(Top.request.cseq, "bad")>>, <<>>}
      /\ disturbed' = (disturbed \/ Top.more \/ fResponseBuffer # <<>>)
      /\ UNCHANGED <<connection, fCSeq, queueVars, closed, serverVars, issued,
                     received, dropped>>
  BY DEF ResendFailed, Rubbish, At
<1>2. Top \in FramesBy(fCSeq) /\ Numbered(Top)
  BY <1>1, CallPopped DEF TInv, Numbers, Top
<1>3. Top.request \in SentBy(fCSeq) /\ Top.request.id \in 1 .. MaxRequests
  BY <1>1, <1>2 DEF FramesBy, Numbered, SentBy
<1>4. f \in FramesBy(fCSeq) /\ Numbered(f) /\ Sends(f) = {}
  BY <1>3, FramesMade DEF TInv, Quantities, HandlerPoints
<1> HIDE DEF f
<1>5. CallsBy(stack', fCSeq, Taking)
  BY <1>1, <1>4, CallsPass
<1>6. Numbers'
  BY <1>1, <1>5, NumbersKept DEF queueVars, serverVars
<1>7. calls' \in [1 .. MaxRequests -> Nat]
  BY <1>1, CallCounted DEF TInv, Quantities
<1>8. fResponseBuffer' \in Seq(PiecesBy(fCSeq)) /\ disturbed' \in BOOLEAN
  <2>1. Body(Top.request.cseq, "bad") \in PiecesBy(fCSeq)
    BY <1>3 DEF Body, PiecesBy, SentBy, Codes
  <2>2. <<Body(Top.request.cseq, "bad")>> \in Seq(PiecesBy(fCSeq))
    BY <2>1
  <2>3. Top.more \in BOOLEAN /\ disturbed \in BOOLEAN
    BY <1>2 DEF FramesBy, TInv, Quantities
  <2> QED
    BY <1>1, <2>2, <2>3, NothingTyped
<1> QED
  BY <1>1, <1>3, <1>6, <1>7, <1>8
     DEF TInv, Quantities, Records, Responses, queueVars, serverVars

\* The client is deleted, with all of its requests.
LEMMA CloseTyped == TInv /\ Close => TInv'
<1> SUFFICES ASSUME TInv, Close PROVE TInv'
  OBVIOUS
<1>1. /\ closed' = TRUE /\ connection' = "none" /\ unanswered' = <<>> /\ incoming' = <<>>
      /\ fResponseBuffer' = <<>> /\ fRequestsAwaitingConnection' = <<>>
      /\ fRequestsAwaitingResponse' = <<>>
      /\ UNCHANGED <<fCSeq, stack, resends, historyVars>>
  BY DEF Close, ResetTCPSockets, ResetResponseBuffer
<1>2. Numbers'
  BY <1>1, NumbersKept, CallsPass
<1> QED
  BY <1>1, <1>2, NothingTyped DEF TInv, Quantities, Records, Responses, historyVars

\* What RemoveAt yields, element by element.
LEMMA RemoveAtElements ==
  ASSUME NEW S, NEW s \in Seq(S), NEW k \in 1..Len(s)
  PROVE  /\ RemoveAt(s, k) \in Seq(S)
         /\ Len(RemoveAt(s, k)) = Len(s) - 1
         /\ \A j \in 1..Len(s) - 1 :
               RemoveAt(s, k)[j] = IF j < k THEN s[j] ELSE s[j + 1]
<1> DEFINE a == SubSeq(s, 1, k - 1)
           b == SubSeq(s, k + 1, Len(s))
           r == a \o b
<1>1. Len(s) \in Nat /\ \A j \in 1..Len(s) : s[j] \in S
  BY LenProperties, ElementOfSeq
<1>2. /\ a \in Seq(S) /\ Len(a) = k - 1
      /\ \A j \in 1..k - 1 : a[j] = s[j]
  <2>1. \A j \in 1..k - 1 : s[j] \in S
    BY <1>1
  <2> QED
    BY <1>1, <2>1, SubSeqProperties
<1>3. /\ b \in Seq(S) /\ Len(b) = Len(s) - k
      /\ \A j \in 1..Len(s) - k : b[j] = s[k + j]
  <2>1. \A j \in k + 1..Len(s) : s[j] \in S
    BY <1>1
  <2>2. /\ b \in Seq(S)
        /\ Len(b) = IF k + 1 <= Len(s) THEN Len(s) - (k + 1) + 1 ELSE 0
        /\ \A j \in 1..Len(s) - (k + 1) + 1 : b[j] = s[(k + 1) + j - 1]
    BY <1>1, <2>1, SubSeqProperties
  <2> QED
    BY <1>1, <2>2
<1> HIDE DEF a, b
<1>4. /\ r \in Seq(S) /\ Len(r) = Len(s) - 1
      /\ \A j \in 1..Len(s) - 1 :
            r[j] = IF j <= k - 1 THEN a[j] ELSE b[j - (k - 1)]
  <2>1. /\ r \in Seq(S) /\ Len(r) = Len(a) + Len(b)
        /\ \A j \in 1..Len(a) + Len(b) :
              r[j] = IF j <= Len(a) THEN a[j] ELSE b[j - Len(a)]
    <3>1. a \in Seq(S) /\ b \in Seq(S)
      BY <1>2, <1>3
    <3> QED
      BY <3>1, ConcatProperties
  <2>2. Len(a) = k - 1 /\ Len(b) = Len(s) - k
    BY <1>2, <1>3
  <2>3. Len(a) + Len(b) = Len(s) - 1
    BY <1>1, <2>2
  <2> HIDE DEF r
  <2> QED
    BY <2>1, <2>2, <2>3
<1> HIDE DEF r
<1>5. RemoveAt(s, k) = r
  BY DEF RemoveAt, a, b, r
<1>6. ASSUME NEW j \in 1..Len(s) - 1
      PROVE  r[j] = IF j < k THEN s[j] ELSE s[j + 1]
  <2>1. CASE j < k
    BY <1>1, <1>2, <1>4, <2>1
  <2>2. CASE j >= k
    <3>1. j - (k - 1) \in 1..Len(s) - k /\ r[j] = b[j - (k - 1)]
      BY <1>1, <1>4, <2>2
    <3>2. b[j - (k - 1)] = s[k + (j - (k - 1))]
      BY <1>3, <3>1
    <3>3. k + (j - (k - 1)) = j + 1
      BY <1>1
    <3> QED
      BY <2>2, <3>1, <3>2, <3>3
  <2> QED
    BY <1>1, <2>1, <2>2
<1> QED
  BY <1>4, <1>5, <1>6

\* The server answers one of the requests that it has.
LEMMA AnswerTyped == TInv /\ Answer => TInv'
<1> SUFFICES ASSUME TInv, Answer PROVE TInv'
  OBVIOUS
<1>1. PICK i \in 1 .. Len(unanswered), code \in Codes :
          /\ unanswered' = RemoveAt(unanswered, i)
          /\ incoming' = incoming \o <<Header(unanswered[i], code),
                                       Body(unanswered[i], code)>>
          /\ disturbed' = (disturbed \/ i # 1)
          /\ IF code \in {"unauthorized", "moved"}
             THEN resends < MaxResends /\ resends' = resends + 1
             ELSE UNCHANGED resends
  BY DEF Answer
<1>2. UNCHANGED <<connection, fCSeq, queueVars, fResponseBuffer, closed, stack,
                  issued, calls, received, failedResends, dropped>>
  BY DEF Answer
<1> DEFINE S == 2 .. fCSeq
           u == unanswered
           r == RemoveAt(u, i)
<1>3. u \in Seq(S) /\ IsInjective(u)
  BY DEF TInv, Responses, Numbers
<1>4. u[i] \in S /\ Len(u) \in Nat /\ DOMAIN u = 1 .. Len(u)
  <2> HIDE DEF S
  <2> QED
    BY <1>3
<1> HIDE DEF S
<1>5. /\ r \in Seq(S) /\ DOMAIN r = 1 .. Len(u) - 1
      /\ \A j \in 1 .. Len(u) - 1 : r[j] = IF j < i THEN u[j] ELSE u[j + 1]
  <2>1. /\ r \in Seq(S) /\ Len(r) = Len(u) - 1
        /\ \A j \in 1 .. Len(u) - 1 : r[j] = IF j < i THEN u[j] ELSE u[j + 1]
    BY ONLY <1>3, i \in 1 .. Len(unanswered), RemoveAtElements
  <2> HIDE DEF r
  <2>2. DOMAIN r = 1 .. Len(r)
    BY <2>1
  <2> QED
    BY <2>1, <2>2
<1> HIDE DEF r
<1>6. IsInjective(r) /\ {r[j] : j \in DOMAIN r} \subseteq {u[j] : j \in DOMAIN u}
  <2>1. ASSUME NEW j \in DOMAIN r
        PROVE  \E k \in DOMAIN u : r[j] = u[k] /\ k = IF j < i THEN j ELSE j + 1
    BY <1>4, <1>5
  <2>2. ASSUME NEW j \in DOMAIN r, NEW k \in DOMAIN r, r[j] = r[k]
        PROVE  j = k
    <3>1. (IF j < i THEN j ELSE j + 1) = (IF k < i THEN k ELSE k + 1)
      BY <1>3, <2>1, <2>2 DEF IsInjective
    <3> QED
      BY <1>4, <1>5, <3>1
  <2> QED
    BY <2>1, <2>2 DEF IsInjective
<1>7. /\ unanswered' \in Seq(S) /\ IsInjective(unanswered')
      /\ Outstanding' \subseteq Outstanding
  BY <1>1, <1>5, <1>6 DEF r, Outstanding
<1>8. incoming' \in Seq(PiecesBy(fCSeq))
  <2>1. Header(u[i], code) \in PiecesBy(fCSeq) /\ Body(u[i], code) \in PiecesBy(fCSeq)
    BY <1>4 DEF Header, Body, PiecesBy, S
  <2> DEFINE P == PiecesBy(fCSeq)
  <2>2. incoming \in Seq(P) /\ <<Header(u[i], code), Body(u[i], code)>> \in Seq(P)
    BY <2>1 DEF TInv, Responses
  <2> HIDE DEF P
  <2>3. incoming \o <<Header(u[i], code), Body(u[i], code)>> \in Seq(P)
    BY <2>2
  <2> QED
    BY <1>1, <2>3 DEF P
<1>9. disturbed' \in BOOLEAN /\ resends' \in 0 .. MaxResends
  BY <1>1, ClientAssumption DEF TInv, Quantities
<1>10. Numbers'
  BY <1>2, <1>7, NumbersFewer, CallsPass DEF queueVars
<1> QED
  BY <1>2, <1>7, <1>8, <1>9, <1>10
     DEF TInv, Quantities, Records, Responses, queueVars, S

-----------------------------------------------------------------------------
\* In the beginning no CSeq is used.
LEMMA InitTyped == Init => TInv
<1> SUFFICES ASSUME Init PROVE TInv
  OBVIOUS
<1>1. /\ OnceEach(<<>>) /\ IsInjective(<<>>) /\ CSeqs(<<>>) = {}
      /\ \A c, taken : CallsBy(<<>>, c, taken)
  BY DEF OnceEach, IsInjective, CSeqs, CallsBy
<1>2. Numbers
  BY <1>1 DEF Init, Numbers
<1>3. Quantities
  <2>1. MaxRequests \in Nat /\ MaxResends \in Nat
    BY ClientAssumption
  <2>2. 0 \in 0 .. MaxRequests /\ 0 \in 0 .. MaxResends
    BY <2>1
  <2>3. calls \in [1 .. MaxRequests -> Nat]
    BY DEF Init
  <2>4. /\ connection = "none" /\ fCSeq = 1 /\ closed = FALSE /\ resends = 0
        /\ issued = 0 /\ disturbed = FALSE /\ failedResends = {}
    BY DEF Init
  <2>5. closed \in BOOLEAN /\ disturbed \in BOOLEAN
    BY <2>4, Zenon
  <2>6. /\ connection \in {"none", "pending", "open"} /\ fCSeq \in Nat /\ fCSeq >= 1
        /\ resends \in 0 .. MaxResends /\ issued \in 0 .. MaxRequests
        /\ failedResends \subseteq 1 .. MaxRequests
    BY <2>2, <2>4
  <2> QED
    BY <2>3, <2>5, <2>6, Zenon DEF Quantities
<1>4. Records /\ Responses
  BY NothingTyped DEF Init, Records, Responses
<1> QED
  BY <1>2, <1>3, <1>4 DEF TInv

\* Every step keeps the types and the numbers.
LEMMA StepTyped == TInv /\ [Next]_vars => TInv'
<1> SUFFICES ASSUME TInv, [Next]_vars PROVE TInv'
  OBVIOUS
<1> QED
  BY SendCommandTyped, ConnectionSucceedsTyped, ConnectionEndTyped, ResumeSendingTyped,
     NextErrorTyped, QuietTyped, IncomingDataTyped, NotTakenTyped, CallHandlerTyped,
     NeedToResendTyped, ResendCommandTyped, ResendFailedTyped, CloseTyped, AnswerTyped
     DEF Next

\* The client's variables have their types, whatever is sent, resent, lost or
\* closed in calls inside one another; above all, no two requests that the
\* server has yet to answer have the same CSeq, the number by which
\* handleResponseBytes() tells them apart, and no response has one that was
\* not used.
THEOREM TypeCorrect == Spec => []TypeOK
BY InitTyped, StepTyped, TypesOf, PTL DEF Spec

-----------------------------------------------------------------------------
(***************************************************************************)
(* Which response goes to which request.  While nothing was disturbed, the *)
(* queue of requests is what was read and not handled, then what is on its *)
(* way, then what the server has yet to answer: the first request is the   *)
(* one whose response comes first, and handleResponseBytes() finds it.     *)
(***************************************************************************)
Coming == fResponseBuffer \o incoming

\* w: pieces of responses, two for each; u: the CSeqs still unanswered.
InStep(q, w, u) ==
    /\ Len(w) = 2 * (Len(q) - Len(u))
    /\ \A i \in 1 .. Len(q) - Len(u) :
          w[2 * i - 1].part = "header" /\ w[2 * i - 1].cseq = q[i].cseq
    /\ \A i \in 1 .. Len(u) : u[i] = q[(Len(q) - Len(u)) + i].cseq

Right(f) == f.at = "responseHandler" /\ f.cseq # 0 => f.request.cseq = f.cseq
Matched(s) == \A k \in DOMAIN s : Right(s[k])

Orderly ==
    /\ dropped = {} /\ Matched(stack)
    /\ InStep(fRequestsAwaitingResponse, Coming, unanswered)
    /\ connection # "open" => unanswered = <<>> /\ incoming = <<>>

RInv == IInv /\ TInv /\ (disturbed \/ Orderly)

\* The calls after one is made, returns, or goes on as another.
LEMMA MatchedPass ==
  ASSUME NEW S, NEW s \in Seq(S), Matched(s), NEW f, Right(f)
  PROVE  /\ Matched(Append(s, f))
         /\ s # <<>> => /\ Matched(Front(s)) /\ Front(s) \in Seq(S)
                        /\ Matched([s EXCEPT ![Len(s)] = f])
                        /\ [s EXCEPT ![Len(s)] = f] \in Seq(S \cup {f})
<1>1. Len(s) \in Nat /\ DOMAIN s = 1 .. Len(s)
  OBVIOUS
<1>2. Matched(Append(s, f))
  <2> DEFINE t == Append(s, f)
  <2>1. /\ DOMAIN t = 1 .. Len(s) + 1 /\ t[Len(s) + 1] = f
        /\ \A i \in 1 .. Len(s) : t[i] = s[i]
    OBVIOUS
  <2> HIDE DEF t
  <2>2. \A k \in DOMAIN t : (k = Len(s) + 1 /\ t[k] = f) \/ (k \in DOMAIN s /\ t[k] = s[k])
    BY <1>1, <2>1
  <2>3. Matched(t)
    BY <2>2 DEF Matched
  <2> QED
    BY <2>3 DEF t
<1>3. ASSUME s # <<>>
      PROVE  Matched(Front(s)) /\ Front(s) \in Seq(S)
  <2>1. /\ Front(s) \in Seq(S)
        /\ \A k \in DOMAIN Front(s) : k \in DOMAIN s /\ Front(s)[k] = s[k]
    BY <1>3, FrontAndLast
  <2> QED
    BY <2>1 DEF Matched
<1>4. ASSUME s # <<>>
      PROVE  /\ Matched([s EXCEPT ![Len(s)] = f])
             /\ [s EXCEPT ![Len(s)] = f] \in Seq(S \cup {f})
  <2> DEFINE t == [s EXCEPT ![Len(s)] = f]
             T == S \cup {f}
  <2>1. Len(s) \in 1 .. Len(s)
    BY <1>1, <1>4, EmptySeq
  <2>2. s \in Seq(T) /\ f \in T
    OBVIOUS
  <2> HIDE DEF T
  <2>3. t \in Seq(T)
    BY <2>1, <2>2, ExceptSeq
  <2>4. DOMAIN t = DOMAIN s /\ \A k \in DOMAIN s : t[k] = f \/ t[k] = s[k]
    OBVIOUS
  <2> HIDE DEF t
  <2>5. Matched(t)
    BY <2>4 DEF Matched
  <2> QED
    BY <2>3, <2>5 DEF t, T
<1> QED
  BY <1>2, <1>3, <1>4

\* A request is sent: it is the last to be answered.
LEMMA InStepSent ==
  ASSUME NEW S, NEW q \in Seq(S), NEW P, NEW w \in Seq(P), NEW N, NEW u \in Seq(N),
         InStep(q, w, u), NEW r \in S, r.cseq \in N
  PROVE  InStep(Append(q, r), w, Append(u, r.cseq))
<1> DEFINE p == Append(q, r)
           v == Append(u, r.cseq)
<1>1. Len(q) \in Nat /\ Len(u) \in Nat /\ Len(w) \in Nat
  OBVIOUS
<1>2. /\ Len(p) = Len(q) + 1 /\ p[Len(q) + 1] = r
      /\ \A i \in 1 .. Len(q) : p[i] = q[i]
  OBVIOUS
<1>3. /\ Len(v) = Len(u) + 1 /\ v[Len(u) + 1] = r.cseq
      /\ \A i \in 1 .. Len(u) : v[i] = u[i]
  OBVIOUS
<1> HIDE DEF p, v
<1>4. Len(u) <= Len(q)
  BY <1>1 DEF InStep
<1>5. Len(p) - Len(v) = Len(q) - Len(u)
  BY <1>1, <1>2, <1>3
<1>6. \A i \in 1 .. Len(q) - Len(u) : p[i] = q[i]
  BY <1>1, <1>2
<1>7. ASSUME NEW i \in 1 .. Len(v)
      PROVE  v[i] = p[(Len(q) - Len(u)) + i].cseq
  <2>1. CASE i = Len(u) + 1
    <3>1. (Len(q) - Len(u)) + i = Len(q) + 1
      BY <1>1, <2>1
    <3> QED
      BY <1>2, <1>3, <2>1, <3>1
  <2>2. CASE i # Len(u) + 1
    <3>1. i \in 1 .. Len(u) /\ (Len(q) - Len(u)) + i \in 1 .. Len(q)
      BY <1>1, <1>3, <1>4, <2>2
    <3> QED
      BY <1>2, <1>3, <3>1 DEF InStep
  <2> QED
    BY <2>1, <2>2
<1>8. InStep(p, w, v)
  BY <1>5, <1>6, <1>7 DEF InStep
<1> QED
  BY <1>8 DEF p, v

\* The first request that is not answered is.
LEMMA InStepAnswered ==
  ASSUME NEW S, NEW q \in Seq(S), NEW P, NEW w \in Seq(P), NEW N, NEW u \in Seq(N),
         InStep(q, w, u), u # <<>>,
         NEW h \in P, NEW b \in P, h.part = "header", h.cseq = u[1]
  PROVE  InStep(q, w \o <<h, b>>, RemoveAt(u, 1))
<1> DEFINE x == w \o <<h, b>>
           v == RemoveAt(u, 1)
           n == Len(q) - Len(u)
<1>1. Len(q) \in Nat /\ Len(u) \in Nat /\ Len(w) \in Nat /\ 1 \in 1 .. Len(u)
  BY EmptySeq
<1>2. /\ Len(x) = Len(w) + 2 /\ x[Len(w) + 1] = h
      /\ \A i \in 1 .. Len(w) : x[i] = w[i]
  <2>1. <<h, b>> \in Seq(P) /\ Len(<<h, b>>) = 2 /\ <<h, b>>[1] = h
    OBVIOUS
  <2> QED
    BY <1>1, <2>1, ConcatProperties
<1>3. /\ Len(v) = Len(u) - 1
      /\ \A j \in 1 .. Len(u) - 1 : v[j] = u[j + 1]
  <2>1. /\ Len(v) = Len(u) - 1
        /\ \A j \in 1 .. Len(u) - 1 : v[j] = IF j < 1 THEN u[j] ELSE u[j + 1]
    BY <1>1, RemoveAtElements
  <2> QED
    BY <1>1, <2>1
<1> HIDE DEF x, v
<1>4. /\ Len(w) = 2 * n /\ n \in Nat
      /\ \A i \in 1 .. n : w[2 * i - 1].part = "header" /\ w[2 * i - 1].cseq = q[i].cseq
      /\ \A i \in 1 .. Len(u) : u[i] = q[n + i].cseq
  BY <1>1 DEF InStep
<1>5. Len(q) - Len(v) = n + 1 /\ Len(x) = 2 * (n + 1)
  BY <1>1, <1>2, <1>3, <1>4
<1>6. ASSUME NEW i \in 1 .. n + 1
      PROVE  x[2 * i - 1].part = "header" /\ x[2 * i - 1].cseq = q[i].cseq
  <2>1. CASE i = n + 1
    <3>1. 2 * i - 1 = Len(w) + 1
      BY <1>4, <2>1
    <3>2. u[1] = q[n + 1].cseq
      BY <1>1, <1>4
    <3> QED
      BY <1>2, <2>1, <3>1, <3>2
  <2>2. CASE i # n + 1
    <3> HIDE DEF n
    <3>1. i \in 1 .. n /\ 2 * i - 1 \in 1 .. Len(w)
      BY <1>4, <2>2
    <3> QED
      BY <1>2, <1>4, <3>1
  <2> QED
    BY <2>1, <2>2
<1>7. ASSUME NEW i \in 1 .. Len(v)
      PROVE  v[i] = q[(n + 1) + i].cseq
  <2>1. i \in 1 .. Len(u) - 1 /\ i + 1 \in 1 .. Len(u) /\ n + (i + 1) = (n + 1) + i
    BY <1>1, <1>3, <1>4
  <2> QED
    BY <1>3, <1>4, <2>1
<1> HIDE DEF n
<1>8. InStep(q, x, v)
  BY <1>5, <1>6, <1>7 DEF InStep
<1> QED
  BY <1>8 DEF x, v

\* What comes first is the header of the response to the first request.
LEMMA InStepFirst ==
  ASSUME NEW S, NEW q \in Seq(S), NEW P, NEW w \in Seq(P), NEW N, NEW u \in Seq(N),
         InStep(q, w, u), w # <<>>
  PROVE  /\ q # <<>> /\ w[1].part = "header" /\ w[1].cseq = q[1].cseq
         /\ Len(w) > 2 => Tail(q) # <<>>
<1>1. Len(q) \in Nat /\ Len(u) \in Nat /\ Len(w) \in Nat /\ Len(w) # 0
  BY EmptySeq
<1>2. Len(q) - Len(u) \in Nat /\ Len(q) - Len(u) # 0 /\ 2 * 1 - 1 = 1
  BY <1>1 DEF InStep
<1>3. 1 \in 1 .. Len(q) - Len(u) /\ q # <<>>
  BY <1>1, <1>2, EmptySeq
<1>4. w[1].part = "header" /\ w[1].cseq = q[1].cseq
  BY <1>2, <1>3 DEF InStep
<1>5. ASSUME Len(w) > 2
      PROVE  Tail(q) # <<>>
  <2>1. Len(q) >= 2
    BY <1>1, <1>5 DEF InStep
  <2>2. Len(Tail(q)) = Len(q) - 1
    BY <1>3, HeadTailProperties, EmptySeq
  <2>3. Len(Tail(q)) # 0
    <3> DEFINE m == Len(Tail(q))
    <3>1. m = Len(q) - 1
      BY <2>2
    <3> HIDE DEF m
    <3>2. m # 0
      BY <1>1, <2>1, <3>1
    <3> QED
      BY <3>2 DEF m
  <2>4. Len(<<>>) = 0
    OBVIOUS
  <2> QED
    BY <2>3, <2>4
<1> QED
  BY <1>3, <1>4, <1>5

\* The first request and its response are taken.
LEMMA InStepTaken ==
  ASSUME NEW S, NEW q \in Seq(S), NEW P, NEW w \in Seq(P), NEW N, NEW u \in Seq(N),
         InStep(q, w, u), w # <<>>, NEW x \in Seq(P), Len(x) = Len(w) - 2,
         \A i \in 1 .. Len(x) : x[i] = w[i + 2]
  PROVE  InStep(Tail(q), x, u)
<1> DEFINE t == Tail(q)
           n == Len(q) - Len(u)
<1>1. Len(q) \in Nat /\ Len(u) \in Nat /\ Len(w) \in Nat /\ q # <<>> /\ Len(q) # 0
  BY InStepFirst, EmptySeq
<1>2. Len(t) = Len(q) - 1 /\ \A i \in 1 .. Len(q) - 1 : t[i] = q[i + 1]
  BY <1>1, HeadTailProperties, EmptySeq
<1> HIDE DEF t
<1>3. /\ Len(w) = 2 * n /\ n \in Nat
      /\ \A i \in 1 .. n : w[2 * i - 1].part = "header" /\ w[2 * i - 1].cseq = q[i].cseq
      /\ \A i \in 1 .. Len(u) : u[i] = q[n + i].cseq
  BY <1>1 DEF InStep
<1>4. n # 0 /\ n <= Len(q)
  BY <1>1, <1>3, EmptySeq
<1>5. Len(t) - Len(u) = n - 1 /\ Len(x) = 2 * (n - 1)
  BY <1>1, <1>2, <1>3
<1>6. ASSUME NEW i \in 1 .. n - 1
      PROVE  x[2 * i - 1].part = "header" /\ x[2 * i - 1].cseq = t[i].cseq
  <2>1. /\ 2 * i - 1 \in 1 .. Len(x) /\ (2 * i - 1) + 2 = 2 * (i + 1) - 1
        /\ i + 1 \in 1 .. n /\ i \in 1 .. Len(q) - 1
    BY <1>1, <1>3, <1>4, <1>5
  <2> QED
    BY ZenonT(60), <1>2, <1>3, <2>1
<1>7. ASSUME NEW i \in 1 .. Len(u)
      PROVE  u[i] = t[(n - 1) + i].cseq
  <2>1. (n - 1) + i \in 1 .. Len(q) - 1 /\ ((n - 1) + i) + 1 = n + i
    BY <1>1, <1>3, <1>4
  <2> QED
    BY <1>2, <1>3, <2>1
<1> HIDE DEF n
<1>8. InStep(t, x, u)
  BY <1>5, <1>6, <1>7 DEF InStep
<1> QED
  BY <1>8 DEF t

-----------------------------------------------------------------------------
\* The types that the lemmas on sequences ask for.
LEMMA SequencesOf ==
  ASSUME TInv
  PROVE  /\ fRequestsAwaitingResponse \in Seq(SentBy(fCSeq))
         /\ fResponseBuffer \in Seq(PiecesBy(fCSeq)) /\ incoming \in Seq(PiecesBy(fCSeq))
         /\ Coming \in Seq(PiecesBy(fCSeq)) /\ unanswered \in Seq(Nat)
         /\ Len(Coming) = Len(fResponseBuffer) + Len(incoming)
         /\ \A i \in 1 .. Len(fResponseBuffer) + Len(incoming) :
               Coming[i] = IF i <= Len(fResponseBuffer) THEN fResponseBuffer[i]
                           ELSE incoming[i - Len(fResponseBuffer)]
         /\ stack \in Seq(FramesBy(fCSeq))
<1> DEFINE P == PiecesBy(fCSeq)
<1>1. fResponseBuffer \in Seq(P) /\ incoming \in Seq(P)
  BY DEF TInv, Responses
<1> HIDE DEF P
<1>2. /\ Coming \in Seq(P)
      /\ Len(Coming) = Len(fResponseBuffer) + Len(incoming)
      /\ \A i \in 1 .. Len(fResponseBuffer) + Len(incoming) :
            Coming[i] = IF i <= Len(fResponseBuffer) THEN fResponseBuffer[i]
                        ELSE incoming[i - Len(fResponseBuffer)]
  BY <1>1, ConcatProperties DEF Coming
<1>3. unanswered \in Seq(Nat)
  <2> DEFINE N == 2 .. fCSeq
  <2>1. unanswered \in Seq(N) /\ N \subseteq Nat
    BY DEF TInv, Responses, Quantities
  <2> HIDE DEF N
  <2>2. ASSUME NEW A, NEW B, A \subseteq B
        PROVE  Seq(A) \subseteq Seq(B)
    BY <2>2
  <2>3. Seq(N) \subseteq Seq(Nat)
    BY ONLY <2>1, <2>2
  <2> QED
    BY <2>1, <2>3
<1> QED
  BY <1>1, <1>2, <1>3 DEF P, TInv, Records, Numbers, CallsBy

\* A step that leaves alone what waits for responses.
LEMMA OrderlyKept ==
  ASSUME Orderly, Matched(stack'), dropped' = dropped,
         UNCHANGED <<fRequestsAwaitingResponse, unanswered>>, Coming' = Coming,
         connection' # "open" => unanswered' = <<>> /\ incoming' = <<>>
  PROVE  Orderly'
BY DEF Orderly

\* Nothing waits for a response any more.
LEMMA OrderlyAnew ==
  ASSUME Orderly, Matched(stack'), dropped' = dropped,
         fRequestsAwaitingResponse' = <<>>, unanswered' = <<>>,
         fResponseBuffer' = <<>>, incoming' = <<>>
  PROVE  Orderly'
<1>1. <<>> \o <<>> = <<>> /\ Len(<<>>) = 0
  OBVIOUS
<1>2. InStep(<<>>, <<>>, <<>>)
  BY <1>1 DEF InStep
<1>3. Coming' = <<>>
  BY <1>1 DEF Coming
<1> QED
  BY <1>2, <1>3 DEF Orderly

\* sendRequest(): the server gets what is put last into the queue.
LEMMA SendOrderly ==
  ASSUME IInv, TInv, Orderly, NEW r, r.cseq \in Nat, NEW done, NEW undone,
         Matched(done), Matched(undone), NEW S, undone \in Seq(S),
         SendRequest(r, done, undone)
  PROVE  Orderly'
<1>1. /\ fResponseBuffer' = fResponseBuffer /\ incoming' = incoming /\ dropped' = dropped
      /\ Coming' = Coming
  BY DEF SendRequest, Coming
<1>2. CASE Enqueue(r, done)
  BY <1>1, <1>2, OrderlyKept DEF Enqueue, Orderly, Pending, IInv, ConnectionAwaited
<1>3. CASE Send(r, done)
  <2>1. /\ stack' = done /\ connection' = "open"
        /\ fRequestsAwaitingResponse' = Append(fRequestsAwaitingResponse, r)
        /\ unanswered' = Append(unanswered, r.cseq)
    BY <1>3 DEF Send
  <2> DEFINE T == SentBy(fCSeq) \cup {r}
             q == fRequestsAwaitingResponse
  <2>2. /\ q \in Seq(SentBy(fCSeq)) /\ unanswered \in Seq(Nat)
        /\ Coming \in Seq(PiecesBy(fCSeq)) /\ InStep(q, Coming, unanswered)
    BY SequencesOf DEF Orderly
  <2>3. q \in Seq(T) /\ r \in T
    BY <2>2
  <2> HIDE DEF T, q
  <2>4. InStep(Append(q, r), Coming, Append(unanswered, r.cseq))
    BY <2>2, <2>3, InStepSent
  <2>5. InStep(fRequestsAwaitingResponse', Coming', unanswered')
    BY <1>1, <2>1, <2>4 DEF q
  <2> QED
    BY <1>1, <2>1, <2>5 DEF Orderly
<1>4. CASE Fail(r, undone)
  <2> DEFINE f == [Frame("failedHandler") EXCEPT !.request = r]
  <2>1. /\ stack' = Append(undone, f) /\ connection' \in OpenConnection \ {"pending"}
        /\ UNCHANGED <<queueVars, unanswered>>
    BY <1>4 DEF Fail
  <2>2. Right(f)
    BY DEF Right, Frame
  <2> HIDE DEF f
  <2>3. Matched(stack')
    BY <2>1, <2>2, MatchedPass
  <2>4. connection' # "open" => connection # "open"
    BY <2>1 DEF OpenConnection
  <2> QED
    BY <1>1, <2>1, <2>3, <2>4, OrderlyKept DEF Orderly, queueVars
<1> QED
  BY <1>2, <1>3, <1>4 DEF SendRequest

\* The three callers of sendRequest().
LEMMA SendersOrderly ==
  ASSUME IInv, TInv, Orderly, SendCommand \/ ResumeSending \/ ResendCommand
  PROVE  Orderly'
<1>1. stack \in Seq(FramesBy(fCSeq)) /\ Matched(stack) /\ fCSeq \in Nat
  BY SequencesOf DEF Orderly, TInv, Quantities
<1>2. CASE SendCommand
  <2> DEFINE r == [id |-> issued + 1, cseq |-> fCSeq + 1]
  <2>1. r.cseq \in Nat /\ SendRequest(r, stack, stack)
    BY <1>1, <1>2 DEF SendCommand
  <2> HIDE DEF r
  <2> QED
    BY <1>1, <2>1, SendOrderly
<1>3. CASE ResumeSending
  <2> DEFINE f == [Top EXCEPT !.queue = Tail(@)]
             s == Replaced(f)
             r == Head(Top.queue)
  <2>1. /\ stack # <<>> /\ Top.at = "resume" /\ Top.queue # <<>> /\ SendRequest(r, s, s)
    BY <1>3 DEF ResumeSending, At
  <2>2. Top \in FramesBy(fCSeq)
    BY <2>1, CallPopped DEF TInv, Numbers, Top
  <2>3. r.cseq \in Nat
    <3>1. Top.queue \in Seq(SentBy(fCSeq))
      BY <2>2 DEF FramesBy
    <3>2. r \in SentBy(fCSeq)
      BY <2>1, <3>1, HeadTailProperties, EmptySeq
    <3> QED
      BY <1>1, <3>2 DEF SentBy
  <2>4. Right(f)
    BY <2>1, <2>2 DEF Right, FramesBy
  <2> HIDE DEF f, r
  <2>5. Matched(s) /\ s \in Seq(FramesBy(fCSeq) \cup {f})
    BY <1>1, <2>1, <2>4, MatchedPass DEF Replaced
  <2> HIDE DEF s
  <2> QED
    BY <2>1, <2>3, <2>5, SendOrderly
<1>4. CASE ResendCommand
  <2> DEFINE r == [Top.request EXCEPT !.cseq = NextCSeq]
             f == [Frame("resendFailed") EXCEPT !.request = r, !.more = Top.more]
             s == Replaced(f)
  <2>1. stack # <<>> /\ Top.at = "resend" /\ SendRequest(r, Front(stack), s)
    BY <1>4 DEF ResendCommand, At
  <2>2. Top \in FramesBy(fCSeq) /\ Numbered(Top)
    BY <2>1, CallPopped DEF TInv, Numbers, Top
  <2>3. r.cseq \in Nat
    <3>1. Top.request \in SentBy(fCSeq)
      BY <2>1, <2>2 DEF FramesBy, Numbered
    <3> QED
      BY <1>1, <3>1 DEF SentBy, NextCSeq
  <2>4. Right(f)
    BY DEF Right, Frame
  <2> HIDE DEF f, r
  <2>5. Matched(s) /\ s \in Seq(FramesBy(fCSeq) \cup {f}) /\ Matched(Front(stack))
    BY <1>1, <2>1, <2>4, MatchedPass DEF Replaced
  <2> HIDE DEF s
  <2> QED
    BY <2>1, <2>3, <2>5, SendOrderly
<1> QED
  BY <1>2, <1>3, <1>4

-----------------------------------------------------------------------------
\* What is read first is the header of the response to the first request, which
\* handleResponseBytes() takes, and gives up none.
LEMMA FirstIsMeant ==
  ASSUME TInv, Orderly, fResponseBuffer # <<>>
  PROVE  /\ fRequestsAwaitingResponse # <<>>
         /\ Response.part = "header" /\ Response.cseq \in Nat
         /\ Candidates(Response.cseq) = fRequestsAwaitingResponse
         /\ Head(fRequestsAwaitingResponse).cseq = Response.cseq
         /\ DropBefore(Response.cseq) => dropped' = dropped
         /\ Len(fResponseBuffer) > 2 => Tail(fRequestsAwaitingResponse) # <<>>
<1> DEFINE q == fRequestsAwaitingResponse
           b == fResponseBuffer
           S == SentBy(fCSeq)
           P == PiecesBy(fCSeq)
           c == Response.cseq
<1>1. /\ q \in Seq(S) /\ b \in Seq(P) /\ incoming \in Seq(P) /\ Coming \in Seq(P)
      /\ unanswered \in Seq(Nat) /\ InStep(q, Coming, unanswered)
      /\ Len(Coming) = Len(b) + Len(incoming)
      /\ \A i \in 1 .. Len(b) + Len(incoming) :
            Coming[i] = IF i <= Len(b) THEN b[i] ELSE incoming[i - Len(b)]
  BY SequencesOf DEF Orderly
<1> HIDE DEF S, P
<1>2. Len(b) \in Nat \ {0} /\ Len(incoming) \in Nat /\ Response = b[1]
  BY <1>1, EmptySeq, HeadTailProperties DEF Response
<1>3. Coming # <<>> /\ Coming[1] = Response
  BY <1>1, <1>2, EmptySeq
<1>4. /\ q # <<>> /\ Response.part = "header" /\ c = q[1].cseq
      /\ Len(Coming) > 2 => Tail(q) # <<>>
  BY <1>1, <1>3, InStepFirst
<1>5. Len(q) \in Nat \ {0} /\ Head(q) = q[1]
  BY <1>1, <1>4, EmptySeq, HeadTailProperties
<1>6. q[1] \in S
  BY <1>1, <1>5
<1>7. c \in Nat
  BY <1>4, <1>6 DEF S, SentBy, TInv, Quantities
<1> HIDE DEF c, q
<1>8. Older(c) = {}
  <2>1. ASSUME NEW i \in Older(c)
        PROVE  FALSE
    <3>1. i \in 1 .. Len(q) /\ \A j \in 1 .. i : q[j].cseq < c
      BY <2>1 DEF Older, q
    <3>2. 1 \in 1 .. i
      BY <1>5, <3>1
    <3> QED
      BY <1>4, <1>7, <3>1, <3>2
  <2> QED
    BY <2>1
<1>9. Candidates(c) = q
  <2>1. Cardinality(Older(c)) + 1 = 1
    BY <1>8, FS_EmptySet
  <2>2. SubSeq(q, 1, Len(q)) = q
    BY <1>1, SubSeqFull
  <2>3. SubSeq(q, Cardinality(Older(c)) + 1, Len(q)) = q
    BY <2>1, <2>2
  <2> QED
    BY <1>4, <1>5, <2>3 DEF Candidates, q
<1>10. DropBefore(c) => dropped' = dropped
  <2>1. SubSeq(q, 1, Len(q) - Len(q)) = <<>>
    BY <1>5, SubSeqEmpty
  <2>2. ToSet(<<>>) = {}
    BY DEF ToSet
  <2> QED
    BY <1>9, <2>1, <2>2 DEF DropBefore, q
<1>11. Len(b) > 2 => Tail(q) # <<>>
  BY <1>1, <1>2, <1>4
<1> QED
  BY <1>4, <1>5, <1>7, <1>9, <1>10, <1>11 DEF c, q

\* The first request and its response leave their queues.
LEMMA FirstTaken ==
  ASSUME TInv, Orderly, Len(fResponseBuffer) >= 2,
         fRequestsAwaitingResponse' = Tail(fRequestsAwaitingResponse),
         fResponseBuffer' = SubSeq(fResponseBuffer, 3, Len(fResponseBuffer)),
         UNCHANGED <<incoming, unanswered>>
  PROVE  InStep(fRequestsAwaitingResponse, Coming, unanswered)'
<1> DEFINE q == fRequestsAwaitingResponse
           b == fResponseBuffer
           S == SentBy(fCSeq)
           P == PiecesBy(fCSeq)
           r == SubSeq(b, 3, Len(b))
           x == r \o incoming
<1>1. /\ q \in Seq(S) /\ b \in Seq(P) /\ incoming \in Seq(P) /\ Coming \in Seq(P)
      /\ unanswered \in Seq(Nat) /\ InStep(q, Coming, unanswered)
      /\ Len(Coming) = Len(b) + Len(incoming)
      /\ \A i \in 1 .. Len(b) + Len(incoming) :
            Coming[i] = IF i <= Len(b) THEN b[i] ELSE incoming[i - Len(b)]
  BY SequencesOf DEF Orderly
<1> HIDE DEF S, P
<1>2. Len(b) \in Nat /\ Len(incoming) \in Nat /\ Len(b) >= 2
  BY <1>1
<1>3. /\ r \in Seq(P) /\ Len(r) = Len(b) - 2
      /\ \A i \in 1 .. Len(b) - 2 : r[i] = b[i + 2]
  <2>1. \A i \in 3 .. Len(b) : b[i] \in P
    BY <1>1
  <2>2. /\ r \in Seq(P) /\ Len(r) = IF 3 <= Len(b) THEN Len(b) - 3 + 1 ELSE 0
        /\ \A i \in 1 .. Len(b) - 3 + 1 : r[i] = b[3 + i - 1]
    BY <1>2, <2>1, SubSeqProperties
  <2> DEFINE m == Len(b)
  <2> HIDE DEF r, m
  <2>3. /\ (IF 3 <= m THEN m - 3 + 1 ELSE 0) = m - 2 /\ m - 3 + 1 = m - 2
        /\ \A i \in 1 .. m - 2 : 3 + i - 1 = i + 2
    <3>1. m \in Nat /\ m >= 2
      BY <1>2 DEF m
    <3> QED
      BY ONLY <3>1
  <2>4. /\ r \in Seq(P) /\ Len(r) = IF 3 <= m THEN m - 3 + 1 ELSE 0
        /\ \A i \in 1 .. m - 3 + 1 : r[i] = b[3 + i - 1]
    BY <2>2 DEF m
  <2>5. r \in Seq(P) /\ Len(r) = m - 2 /\ \A i \in 1 .. m - 2 : r[i] = b[i + 2]
    BY ONLY <2>3, <2>4
  <2> QED
    BY <2>5 DEF m
<1> HIDE DEF r
<1>4. /\ x \in Seq(P) /\ Len(x) = Len(r) + Len(incoming)
      /\ \A i \in 1 .. Len(r) + Len(incoming) :
            x[i] = IF i <= Len(r) THEN r[i] ELSE incoming[i - Len(r)]
  <2>1. r \in Seq(P) /\ incoming \in Seq(P)
    BY <1>1, <1>3
  <2> QED
    BY ONLY <2>1, ConcatProperties DEF x
<1> HIDE DEF x
<1>5. Len(x) = Len(Coming) - 2
  BY <1>1, <1>2, <1>3, <1>4
<1>6. ASSUME NEW i \in 1 .. Len(x)
      PROVE  x[i] = Coming[i + 2]
  <2>1. i + 2 \in 1 .. Len(b) + Len(incoming) /\ i \in 1 .. Len(r) + Len(incoming)
    BY <1>2, <1>3, <1>4
  <2>2. CASE i <= Len(r)
    <3>1. i \in 1 .. Len(b) - 2 /\ i + 2 <= Len(b)
      BY <1>2, <1>3, <2>1, <2>2
    <3> QED
      BY <1>1, <1>3, <1>4, <2>1, <2>2, <3>1
  <2>3. CASE ~(i <= Len(r))
    <3>1. ~(i + 2 <= Len(b)) /\ (i + 2) - Len(b) = i - Len(r)
      BY <1>2, <1>3, <2>1, <2>3
    <3> QED
      BY <1>1, <1>4, <2>1, <2>3, <3>1
  <2> QED
    BY <2>2, <2>3
<1>7. Coming # <<>>
  BY <1>1, <1>2, EmptySeq
<1>8. InStep(Tail(q), x, unanswered)
  BY <1>1, <1>4, <1>5, <1>6, <1>7, InStepTaken
<1>9. Coming' = x
  BY DEF Coming, x, r
<1> QED
  BY <1>8, <1>9

\* The calls after a step that is not sendRequest().
LEMMA CallsMatched ==
  ASSUME TInv, Matched(stack), NEW s,
         \/ s = stack
         \/ stack # <<>> /\ s = Front(stack)
         \/ \E f : /\ Right(f)
                   /\ s = Append(stack, f) \/ (stack # <<>> /\ s = Replaced(f))
  PROVE  Matched(s)
<1>1. stack \in Seq(FramesBy(fCSeq)) /\ Right(Frame("parse"))
  BY SequencesOf DEF Right, Frame
<1>2. CASE stack # <<>> /\ s = Front(stack)
  BY <1>1, <1>2, MatchedPass
<1>3. ASSUME NEW f, Right(f), s = Append(stack, f) \/ (stack # <<>> /\ s = Replaced(f))
      PROVE  Matched(s)
  <2>1. /\ Matched(Append(stack, f))
        /\ stack # <<>> => Matched([stack EXCEPT ![Len(stack)] = f])
    BY <1>1, <1>3, MatchedPass
  <2> QED
    BY <1>3, <2>1, Zenon DEF Replaced
<1> QED
  BY <1>2, <1>3

\* Sequences may be joined in any order.
LEMMA Joined ==
  \A S : \A a, b, c \in Seq(S) : (a \o b) \o c = a \o (b \o c)
BY ConcatAssociative

\* What is read moves from what is on its way.
LEMMA IncomingOrderly ==
  ASSUME TInv, Orderly, IncomingData
  PROVE  Orderly'
<1> DEFINE P == PiecesBy(fCSeq)
<1>1. PICK n \in 1 .. Len(incoming) :
          /\ fResponseBuffer' = fResponseBuffer \o SubSeq(incoming, 1, n)
          /\ incoming' = SubSeq(incoming, n + 1, Len(incoming))
  BY DEF IncomingData
<1>2. fResponseBuffer \in Seq(P) /\ incoming \in Seq(P) /\ Len(incoming) \in Nat
  BY SequencesOf
<1> HIDE DEF P
<1>3. Coming' = Coming
  <2> DEFINE x == SubSeq(incoming, 1, n)
             y == SubSeq(incoming, n + 1, Len(incoming))
  <2>1. /\ 1 \in 1 .. Len(incoming) + 1 /\ n \in 1 - 1 .. Len(incoming)
        /\ Len(incoming) \in n .. Len(incoming)
    BY <1>2
  <2>2. x \o y = SubSeq(incoming, 1, Len(incoming))
    BY <1>2, <2>1, ConcatAdjacentSubSeq
  <2>3. x \o y = incoming
    BY <1>2, <2>2, SubSeqFull
  <2>4. x \in Seq(P) /\ y \in Seq(P)
    BY <1>2
  <2> HIDE DEF x, y
  <2>5. (fResponseBuffer \o x) \o y = fResponseBuffer \o (x \o y)
    <3>1. fResponseBuffer \in Seq(P)
      BY <1>2
    <3> QED
      BY ONLY <2>4, <3>1, Joined
  <2> QED
    BY <1>1, <2>3, <2>5 DEF Coming, x, y
<1>4. Matched(stack')
  <2>1. Right(Frame("parse")) /\ stack' = Append(stack, Frame("parse"))
    BY DEF Right, Frame, IncomingData
  <2> QED
    BY <2>1, CallsMatched DEF Orderly
<1>5. connection' = "open" /\ UNCHANGED <<queueVars, unanswered, dropped>>
  BY DEF IncomingData
<1> QED
  BY <1>3, <1>4, <1>5, OrderlyKept DEF queueVars

\* A response that is cut short, or whose handler is called.
LEMMA HandledOrderly ==
  ASSUME TInv, Orderly,
         NoHeader \/ NotAResponse \/ BodyMissing \/ ResponseToNobody \/ CallHandler
  PROVE  Orderly'
<1> DEFINE c == Candidates(Response.cseq)
<1>1. Matched(stack) /\ (connection # "open" => unanswered = <<>> /\ incoming = <<>>)
  BY DEF Orderly
<1>2. HasHeader => fResponseBuffer # <<>>
  BY DEF HasHeader
<1>3. CASE NoHeader
  <2>1. stack # <<>> /\ stack' = Front(stack) /\ UNCHANGED <<connection, queueVars,
                 fResponseBuffer, serverVars, dropped>>
    BY <1>3 DEF NoHeader, At, historyVars
  <2>2. Matched(stack') /\ Coming' = Coming
    BY <1>1, <2>1, CallsMatched DEF Coming, serverVars
  <2> QED
    BY <1>1, <2>1, <2>2, OrderlyKept DEF queueVars, serverVars
<1>4. CASE NotAResponse
  BY <1>2, <1>4, FirstIsMeant DEF NotAResponse
<1>5. CASE BodyMissing
  <2>1. /\ stack # <<>> /\ stack' = Front(stack) /\ fResponseBuffer # <<>>
        /\ DropBefore(Response.cseq) /\ fRequestsAwaitingResponse' = c
        /\ UNCHANGED <<connection, fResponseBuffer, serverVars>>
    BY <1>2, <1>5 DEF BodyMissing, At, PutAtHead
  <2>2. c = fRequestsAwaitingResponse /\ dropped' = dropped
    BY <2>1, FirstIsMeant
  <2> HIDE DEF c
  <2>3. Matched(stack') /\ Coming' = Coming
    BY <1>1, <2>1, CallsMatched DEF Coming, serverVars
  <2> QED
    BY <1>1, <2>1, <2>2, <2>3, OrderlyKept DEF serverVars
<1>6. CASE ResponseToNobody
  <2>1. fResponseBuffer # <<>> /\ c = <<>>
    BY <1>6 DEF ResponseToNobody, Complete
  <2>2. c = fRequestsAwaitingResponse /\ fRequestsAwaitingResponse # <<>>
    BY <2>1, FirstIsMeant
  <2> QED
    BY <2>1, <2>2
<1>7. CASE CallHandler
  <2> DEFINE f == [Frame("responseHandler") EXCEPT
                      !.request = FoundRequest, !.cseq = Response.cseq,
                      !.more = More /\ Response.code # "bad"]
             q == fRequestsAwaitingResponse
  <2>1. /\ stack # <<>> /\ stack' = Replaced(f) /\ fResponseBuffer # <<>>
        /\ Len(fResponseBuffer) >= 2 /\ c # <<>> /\ FindRequest(Response.cseq)
        /\ fResponseBuffer' = SubSeq(fResponseBuffer, 3, Len(fResponseBuffer))
        /\ UNCHANGED <<connection, serverVars>>
    BY <1>7 DEF CallHandler, At, Complete
  <2>2. /\ c = q /\ Head(q).cseq = Response.cseq
        /\ DropBefore(Response.cseq) => dropped' = dropped
    BY <2>1, FirstIsMeant
  <2>3. dropped' = dropped /\ q' = Tail(q)
    BY <2>1, <2>2 DEF FindRequest, Rest
  <2>4. Right(f)
    <3>1. FoundRequest.cseq = Response.cseq
      BY <2>2 DEF FoundRequest
    <3>2. f.request = FoundRequest /\ f.cseq = Response.cseq
      BY DEF Frame
    <3> QED
      BY <3>1, <3>2 DEF Right
  <2> HIDE DEF f
  <2>5. Matched(stack')
    BY <1>1, <2>1, <2>4, CallsMatched
  <2>6. InStep(q, Coming, unanswered)'
    BY <2>1, <2>3, FirstTaken DEF serverVars
  <2> QED
    BY <1>1, <2>1, <2>3, <2>5, <2>6 DEF Orderly, serverVars
<1> QED
  BY <1>3, <1>4, <1>5, <1>6, <1>7

\* A request is to be sent again: unless others are left that wait for nothing.
LEMMA ResendOrderly ==
  ASSUME TInv, Orderly, NeedToResend
  PROVE  disturbed' \/ Orderly'
<1> SUFFICES ASSUME ~disturbed' PROVE Orderly'
  OBVIOUS
<1> DEFINE q == fRequestsAwaitingResponse
           f == [Frame("resend") EXCEPT !.request = FoundRequest, !.more = More]
<1>1. /\ stack # <<>> /\ stack' = Replaced(f) /\ Len(fResponseBuffer) >= 2
      /\ fResponseBuffer # <<>> /\ FindRequest(Response.cseq)
      /\ fResponseBuffer' = <<>>
  BY DEF NeedToResend, Complete, At, ResetResponseBuffer
<1>2. /\ Candidates(Response.cseq) = q /\ q # <<>>
      /\ DropBefore(Response.cseq) => dropped' = dropped
      /\ Len(fResponseBuffer) > 2 => Tail(q) # <<>>
  BY <1>1, FirstIsMeant
<1>3. Rest(Response.cseq) = Tail(q) /\ dropped' = dropped /\ q' = Tail(q)
  BY <1>1, <1>2 DEF FindRequest, Rest
<1>4. Matched(stack')
  <2>1. Right(f)
    BY DEF Right, Frame
  <2> HIDE DEF f
  <2> QED
    BY <1>1, <2>1, CallsMatched DEF Orderly
<1>5. Tail(q) = <<>> \/ ~(More \/ Response.code = "moved")
  BY <1>3 DEF NeedToResend
<1>6. CASE Response.code = "moved"
  <2>1. unanswered' = <<>> /\ incoming' = <<>>
    BY <1>6 DEF NeedToResend, ResetTCPSockets
  <2> QED
    BY <1>1, <1>3, <1>4, <1>5, <1>6, <2>1, OrderlyAnew
<1>7. CASE Response.code # "moved"
  <2>1. UNCHANGED <<connection, unanswered, incoming>>
    BY <1>7 DEF NeedToResend
  <2>2. ~(Len(fResponseBuffer) > 2)
    BY <1>2, <1>5 DEF More
  <2>3. Len(fResponseBuffer) = 2
    <3> DEFINE m == Len(fResponseBuffer)
    <3>1. m \in Nat
      BY SequencesOf
    <3>2. m >= 2 /\ ~(m > 2)
      BY <1>1, <2>2
    <3> HIDE DEF m
    <3>3. m = 2
      BY ONLY <3>1, <3>2
    <3> QED
      BY <3>3 DEF m
  <2>4. SubSeq(fResponseBuffer, 3, Len(fResponseBuffer)) = <<>>
    BY <2>3, SubSeqEmpty
  <2>5. InStep(q, Coming, unanswered)'
    BY <1>1, <1>3, <2>1, <2>4, FirstTaken
  <2> QED
    BY <1>3, <1>4, <2>1, <2>5 DEF Orderly
<1> QED
  BY <1>6, <1>7

\* The server answers the first of its requests.
LEMMA AnswerOrderly ==
  ASSUME TInv, Orderly, Answer
  PROVE  disturbed' \/ Orderly'
<1> SUFFICES ASSUME ~disturbed' PROVE Orderly'
  OBVIOUS
<1>1. PICK i \in 1 .. Len(unanswered), code \in Codes :
          /\ unanswered' = RemoveAt(unanswered, i)
          /\ incoming' = incoming \o <<Header(unanswered[i], code),
                                       Body(unanswered[i], code)>>
          /\ disturbed' = (disturbed \/ i # 1)
  BY DEF Answer
<1>2. i = 1
  BY <1>1
<1>3. /\ connection = "open" /\ UNCHANGED <<connection, queueVars, fResponseBuffer, stack,
                                            dropped>>
  BY DEF Answer
<1> DEFINE h == Header(unanswered[1], code)
           b == Body(unanswered[1], code)
           q == fRequestsAwaitingResponse
           S == SentBy(fCSeq)
           P == PiecesBy(fCSeq)
           N == 2 .. fCSeq
<1>4. /\ q \in Seq(S) /\ Coming \in Seq(P) /\ unanswered \in Seq(N)
      /\ incoming \in Seq(P) /\ fResponseBuffer \in Seq(P)
  BY SequencesOf DEF TInv, Responses
<1>5. unanswered # <<>> /\ unanswered[1] \in N
  <2> HIDE DEF N
  <2>1. Len(unanswered) \in Nat /\ Len(unanswered) # 0
    BY <1>2, <1>4
  <2> QED
    BY <1>2, <1>4, <2>1, EmptySeq
<1>6. h \in P /\ b \in P /\ h.part = "header" /\ h.cseq = unanswered[1]
  BY <1>5 DEF Header, Body, PiecesBy
<1> HIDE DEF S, P, N, h, b
<1>7. InStep(q, Coming \o <<h, b>>, RemoveAt(unanswered, 1))
  <2>1. InStep(q, Coming, unanswered)
    BY DEF Orderly
  <2> HIDE DEF q
  <2> QED
    BY <1>4, <1>5, <1>6, <2>1, InStepAnswered
<1>8. Coming' = Coming \o <<h, b>>
  <2> DEFINE z == <<h, b>>
  <2>1. z \in Seq(P)
    BY <1>6
  <2>2. Coming' = fResponseBuffer \o (incoming \o z)
    BY <1>1, <1>2, <1>3 DEF Coming, h, b
  <2> HIDE DEF z
  <2>3. (fResponseBuffer \o incoming) \o z = fResponseBuffer \o (incoming \o z)
    <3>1. fResponseBuffer \in Seq(P) /\ incoming \in Seq(P) /\ z \in Seq(P)
      BY <1>4, <2>1
    <3> QED
      BY ONLY SMTT(30), <3>1, Joined
  <2> QED
    BY <2>2, <2>3 DEF Coming, z
<1> QED
  BY <1>1, <1>2, <1>3, <1>7, <1>8 DEF Orderly, queueVars

\* The other steps: connections come and go, calls go on, the client is closed.
LEMMA OthersOrderly ==
  ASSUME IInv, TInv, Orderly,
         \/ ConnectionSucceeds \/ ConnectionFails \/ NextError \/ QueueHandled
         \/ ConnectionLost \/ ResendFailed \/ HandlerReturns \/ Close
         \/ UNCHANGED vars
  PROVE  disturbed' \/ Orderly'
<1> SUFFICES ASSUME ~disturbed' PROVE Orderly'
  OBVIOUS
<1>1. Matched(stack) /\ (connection # "open" => unanswered = <<>> /\ incoming = <<>>)
  BY DEF Orderly
<1>2. \A p, q : Right([Frame(p) EXCEPT !.queue = q])
  BY DEF Right, Frame
<1>3. CASE ConnectionSucceeds
  <2>1. /\ stack' = Append(stack, [Frame("resume") EXCEPT !.queue = fRequestsAwaitingConnection])
        /\ connection' = "open" /\ Coming' = Coming
        /\ UNCHANGED <<fRequestsAwaitingResponse, unanswered, dropped>>
    BY <1>3 DEF ConnectionSucceeds, serverVars, historyVars, Coming
  <2> QED
    BY <1>1, <1>2, <2>1, CallsMatched, OrderlyKept
<1>4. CASE ConnectionFails
  <2>1. /\ stack' = Append(stack, [Frame("errors") EXCEPT !.queue = fRequestsAwaitingConnection])
        /\ connection = "pending" /\ unanswered' = <<>> /\ incoming' = <<>>
        /\ UNCHANGED <<fRequestsAwaitingResponse, fResponseBuffer, dropped>>
    BY <1>4 DEF ConnectionFails, ResetTCPSockets, historyVars
  <2>2. unanswered' = unanswered /\ Coming' = Coming
    BY <1>1, <2>1 DEF Coming
  <2> QED
    BY <1>1, <1>2, <2>1, <2>2, CallsMatched, OrderlyKept
<1>5. CASE ConnectionLost
  <2>1. /\ stack' = Append(stack, [Frame("errors") EXCEPT !.queue = fRequestsAwaitingResponse])
        /\ unanswered' = <<>> /\ incoming' = <<>> /\ fResponseBuffer' = <<>>
        /\ fRequestsAwaitingResponse' = <<>> /\ dropped' = dropped
    BY <1>5 DEF ConnectionLost, ResetTCPSockets, ResetResponseBuffer, historyVars
  <2> QED
    BY <1>1, <1>2, <2>1, CallsMatched, OrderlyAnew
<1>6. CASE Close
  BY <1>1, <1>6, OrderlyAnew DEF Close, ResetTCPSockets, ResetResponseBuffer, historyVars
<1>7. CASE NextError \/ QueueHandled \/ ResendFailed \/ HandlerReturns \/ UNCHANGED vars
  <2>0. ResendFailed => UNCHANGED fResponseBuffer
    BY DEF ResendFailed
  <2>1. /\ UNCHANGED <<connection, fRequestsAwaitingResponse, serverVars, dropped>>
        /\ Coming' = Coming
    BY <1>7, <2>0 DEF NextError, QueueHandled, ResendFailed, HandlerReturns, vars, queueVars,
                serverVars, historyVars, Coming
  <2>2. Matched(stack')
    <3>1. ASSUME stack # <<>>
          PROVE  /\ \A r, q : Right([Top EXCEPT !.at = "errorHandler", !.request = r, !.queue = q])
                 /\ \A r : Right([Top EXCEPT !.at = "errors", !.request = r])
                 /\ \A r : Right([Frame("responseHandler") EXCEPT !.request = r])
                 /\ Right(Frame("parse"))
      <4>1. Top \in FramesBy(fCSeq)
        BY <3>1, CallPopped DEF TInv, Numbers, Top
      <4> QED
        BY <4>1 DEF FramesBy, Right, Frame
    <3>2. CASE NextError
      BY <1>1, <3>1, <3>2, CallsMatched DEF NextError, At
    <3>3. CASE QueueHandled
      BY <1>1, <3>3, CallsMatched DEF QueueHandled
    <3>4. CASE ResendFailed
      BY <1>1, <3>1, <3>4, CallsMatched DEF ResendFailed, At
    <3>5. CASE HandlerReturns
      <4>1. stack # <<>>
        BY <3>5 DEF HandlerReturns, InHandler
      <4>2. \/ stack' = Front(stack) \/ stack' = Replaced(Frame("parse"))
            \/ stack' = Replaced([Top EXCEPT !.at = "errors", !.request = NoRequest])
        BY <3>5 DEF HandlerReturns
      <4> QED
        BY <1>1, <3>1, <4>1, <4>2, CallsMatched
    <3>6. CASE UNCHANGED vars
      BY <1>1, <3>6 DEF vars
    <3> QED
      BY <1>7, <3>2, <3>3, <3>4, <3>5, <3>6
  <2> QED
    BY <1>1, <2>1, <2>2, OrderlyKept DEF serverVars
<1> QED
  BY <1>3, <1>4, <1>5, <1>6, <1>7

-----------------------------------------------------------------------------
\* In the beginning nothing is on its way.
LEMMA InitOrderly == Init => RInv
<1> SUFFICES ASSUME Init PROVE Orderly
  BY InitEstablishes, InitTyped DEF RInv
<1>1. <<>> \o <<>> = <<>> /\ Len(<<>>) = 0
  OBVIOUS
<1>2. InStep(<<>>, <<>>, <<>>) /\ Matched(<<>>)
  BY <1>1 DEF InStep, Matched
<1> QED
  BY <1>1, <1>2 DEF Init, Orderly, Coming

\* Every step keeps requests and responses in step, until they are disturbed.
LEMMA StepOrderly == RInv /\ [Next]_vars => RInv'
<1> SUFFICES ASSUME RInv, [Next]_vars PROVE disturbed' \/ Orderly'
  BY StepKeeps, StepTyped DEF RInv
<1>1. CASE disturbed
  <2>1. disturbed' \in BOOLEAN
    BY StepTyped DEF RInv, TInv, Quantities
  <2>2. disturbed'
    BY <1>1, Zenon DEF Next, vars, historyVars, SendCommand, SendRequest, ConnectionSucceeds,
       ConnectionFails, ResumeSending, NextError, QueueHandled, IncomingData,
       ConnectionLost, NoHeader, NotAResponse, BodyMissing, ResponseToNobody, CallHandler,
       NeedToResend, ResendCommand, ResendFailed, HandlerReturns, Close, Answer
  <2> QED
    BY <2>2
<1>2. CASE ~disturbed
  <2>1. IInv /\ TInv /\ Orderly
    BY <1>2 DEF RInv
  <2> QED
    BY <2>1, SendersOrderly, IncomingOrderly, HandledOrderly, ResendOrderly, AnswerOrderly,
       OthersOrderly DEF Next
<1> QED
  BY <1>1, <1>2

\* While the server answers in order and no resend has thrown responses away,
\* handleResponseBytes() gives up no request and gives each handler the response
\* to its own request, however many requests are sent before the first is
\* answered, wherever reading stops, whatever handlers send in the middle of it,
\* and whichever connections fail or are lost.
THEOREM ResponsesFindTheirRequests == Spec => []RightResponse
<1>1. RInv => RightResponse
  <2> SUFFICES ASSUME RInv, ~disturbed PROVE RightResponse
    BY DEF RightResponse
  <2>1. Orderly /\ TInv
    BY DEF RInv
  <2>2. DOMAIN stack = 1 .. Len(stack)
    BY <2>1, SequencesOf
  <2> QED
    BY <2>1, <2>2 DEF Orderly, Matched, Right, RightResponse
<1> QED
  BY <1>1, InitOrderly, StepOrderly, PTL DEF Spec
=============================================================================
