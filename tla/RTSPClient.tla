----------------------------- MODULE RTSPClient -----------------------------
(***************************************************************************)
(* The requests of an RTSP client: sendRequest(), the connection that may  *)
(* be pending, the responses, and the handler that is called for each      *)
(* request.                                                                *)
(*                                                                         *)
(* All runs in the event loop's thread, but a handler may send requests,   *)
(* close the client, or run the event loop inside itself, so the client is *)
(* used again while it is in the middle of a function: "stack" holds the   *)
(* calls that are not over, the innermost last.                            *)
(*                                                                         *)
(* A response is two pieces, its headers and its body, and reading stops   *)
(* anywhere between pieces.  A request is its number among those of the    *)
(* program and the CSeq under which it was sent last.                      *)
(***************************************************************************)
EXTENDS Integers, FiniteSets, SequencesExt

CONSTANTS
    MaxRequests,     \* bound: requests of the program
    MaxResends,      \* bound: how often the server asks for one to be resent
    MaxNesting,      \* bound: calls that are not over, for the event loop to
                     \* be run by a handler
    AnswersInOrder   \* whether the server answers in the order of requests

ASSUME ClientAssumption ==
    /\ {MaxRequests, MaxResends, MaxNesting} \subseteq Nat
    /\ AnswersInOrder \in BOOLEAN

VARIABLES
    connection,   \* "none", "pending" (connectionHandler is to be called), "open"
    fCSeq,
    fRequestsAwaitingConnection,
    fRequestsAwaitingResponse,
    fResponseBuffer,    \* the pieces read and not yet handled
    closed,       \* the client is deleted
    stack,
    \* the server, for the present connection
    unanswered,   \* the CSeqs of the requests that it has not answered
    incoming,     \* the pieces of responses that are not read
    resends,
    \* history
    issued,       \* how many requests the program has made
    calls,        \* how often the handler of each was called
    received,     \* the CSeqs of the responses that were read
    disturbed,    \* an answer was given out of order, or a resend has left
                  \* requests waiting whose responses were thrown away or
                  \* will not come any more
    failedResends,  \* the requests that could not be sent again
    dropped       \* the requests that left their queue with no handler called

queueVars == <<fRequestsAwaitingConnection, fRequestsAwaitingResponse>>
serverVars == <<unanswered, incoming, resends>>
historyVars == <<issued, calls, received, disturbed, failedResends, dropped>>
vars == <<connection, fCSeq, queueVars, fResponseBuffer, closed, stack,
          serverVars, historyVars>>

-----------------------------------------------------------------------------
(***************************************************************************)
(* Calls.                                                                  *)
(***************************************************************************)

\* Where the program's function runs, called by the client.
HandlerPoints == {"responseHandler", "errorHandler", "failedHandler"}
ClientPoints == {"parse", "resend", "resendFailed", "resume", "errors"}

NoRequest == [id |-> 0, cseq |-> 0]

\* request: the one being handled; queue: those still to be handled, in a
\* queue that only this call knows; cseq: that of the response; more: whether
\* bytes of other responses came with it (numExtraBytesAfterResponse).
Frame(at) == [at |-> at, request |-> NoRequest, queue |-> <<>>, cseq |-> 0,
              more |-> FALSE]

Top == Last(stack)
At(point) == stack # <<>> /\ Top.at = point /\ ~closed
InHandler == stack # <<>> /\ Top.at \in HandlerPoints
Replaced(frame) == [stack EXCEPT ![Len(stack)] = frame]

\* The event loop runs, at the bottom or inside a handler.
Looping == ~closed /\ (stack = <<>> \/ (InHandler /\ Len(stack) < MaxNesting))

\* The program runs: a handler, or something else called by the event loop.
ProgramRuns == ~closed /\ (stack = <<>> \/ InHandler)

Called(request) == calls' = [calls EXCEPT ![request.id] = @ + 1]

ResetResponseBuffer == fResponseBuffer' = <<>>

ResetTCPSockets ==
    /\ connection' = "none"
    /\ unanswered' = <<>> /\ incoming' = <<>>

Init ==
    /\ connection = "none" /\ fCSeq = 1
    /\ fRequestsAwaitingConnection = <<>>
    /\ fRequestsAwaitingResponse = <<>>
    /\ fResponseBuffer = <<>>
    /\ closed = FALSE /\ stack = <<>>
    /\ unanswered = <<>> /\ incoming = <<>> /\ resends = 0
    /\ issued = 0 /\ calls = [id \in 1..MaxRequests |-> 0]
    /\ received = {} /\ disturbed = FALSE
    /\ failedResends = {} /\ dropped = {}

-----------------------------------------------------------------------------
(***************************************************************************)
(* sendRequest().  "done" is the stack when it has returned, "undone" the  *)
(* stack under the handler that it calls on failure.                       *)
(***************************************************************************)

Pending == fRequestsAwaitingConnection # <<>>

\* Where openConnection(), called if there is no connection, may leave it: an
\* error, a connect() that is not over, or one that succeeded at once.
OpenConnection ==
    IF connection = "none" THEN {"none", "pending", "open"} ELSE {connection}

\* A connection is pending, or openConnection() has just left it pending.
Enqueue(request, done) ==
    /\ \/ Pending /\ UNCHANGED connection
       \/ /\ ~Pending /\ connection = "none"
          /\ connection' = "pending"
    /\ fRequestsAwaitingConnection' = Append(fRequestsAwaitingConnection, request)
    /\ stack' = done
    /\ UNCHANGED <<fRequestsAwaitingResponse, unanswered, calls>>

Send(request, done) ==
    /\ ~Pending
    /\ connection' = "open" /\ connection' \in OpenConnection
    /\ fRequestsAwaitingResponse' = Append(fRequestsAwaitingResponse, request)
    /\ unanswered' = Append(unanswered, request.cseq)
    /\ stack' = done
    /\ UNCHANGED <<fRequestsAwaitingConnection, calls>>

\* The connection could not be opened, or send() failed: "call the response
\* handler immediately".
Fail(request, undone) ==
    /\ ~Pending
    /\ connection' \in OpenConnection \ {"pending"}
    /\ Called(request)
    /\ stack' = Append(undone, [Frame("failedHandler") EXCEPT !.request = request])
    /\ UNCHANGED <<queueVars, unanswered>>

SendRequest(request, done, undone) ==
    /\ \/ Enqueue(request, done)
       \/ Send(request, done)
       \/ Fail(request, undone)
    /\ UNCHANGED <<fResponseBuffer, closed, incoming, resends, received,
                   disturbed, failedResends, dropped>>

\* sendDescribeCommand() and the others: a new request of the program.
SendCommand ==
    /\ ProgramRuns
    /\ issued < MaxRequests
    /\ issued' = issued + 1
    /\ fCSeq' = fCSeq + 1
    /\ SendRequest([id |-> issued + 1, cseq |-> fCSeq + 1], stack, stack)

-----------------------------------------------------------------------------
(***************************************************************************)
(* connectionHandler1().                                                   *)
(***************************************************************************)

\* Mutant: the requests stay in fRequestsAwaitingConnection.
QueueKept == fRequestsAwaitingConnection

\* What is left of fRequestsAwaitingConnection: its requests are moved into a
\* temporary queue, "so that sendRequest() doesn't get confused".
QueueCleared == <<>>

\* The connection that was pending is open.
ConnectionSucceeds ==
    /\ Looping /\ connection = "pending"
    /\ connection' = "open"
    /\ fRequestsAwaitingConnection' = QueueCleared
    /\ stack' = Append(stack, [Frame("resume") EXCEPT
                                  !.queue = fRequestsAwaitingConnection])
    /\ UNCHANGED <<fCSeq, fRequestsAwaitingResponse, fResponseBuffer, closed,
                   serverVars, historyVars>>

\* The connection that was pending has failed.
ConnectionFails ==
    /\ Looping /\ connection = "pending"
    /\ ResetTCPSockets
    /\ fRequestsAwaitingConnection' = QueueCleared
    /\ stack' = Append(stack, [Frame("errors") EXCEPT
                                  !.queue = fRequestsAwaitingConnection])
    /\ UNCHANGED <<fCSeq, fRequestsAwaitingResponse, fResponseBuffer, closed,
                   resends, historyVars>>

\* "Resume sending all pending requests".
ResumeSending ==
    /\ At("resume") /\ Top.queue # <<>>
    /\ LET rest == Replaced([Top EXCEPT !.queue = Tail(@)])
       IN  SendRequest(Head(Top.queue), rest, rest)
    /\ UNCHANGED <<fCSeq, issued>>

\* "Tell all pending requests about the error".
NextError ==
    /\ At("errors") /\ Top.queue # <<>>
    /\ stack' = Replaced([Top EXCEPT !.at = "errorHandler",
                                     !.request = Head(Top.queue),
                                     !.queue = Tail(Top.queue)])
    /\ Called(Head(Top.queue))
    /\ UNCHANGED <<connection, fCSeq, queueVars, fResponseBuffer, closed,
                   serverVars, issued, received, disturbed, failedResends,
                   dropped>>

QueueHandled ==
    /\ stack # <<>> /\ Top.at \in {"resume", "errors"}
    /\ Top.queue = <<>>
    /\ stack' = Front(stack)
    /\ UNCHANGED <<connection, fCSeq, queueVars, fResponseBuffer, closed,
                   serverVars, historyVars>>

-----------------------------------------------------------------------------
(***************************************************************************)
(* incomingDataHandler1() and handleResponseBytes().                       *)
(***************************************************************************)

Codes == {"ok", "error", "bad", "unauthorized", "moved"}

Header(cseq, code) == [part |-> "header", cseq |-> cseq, code |-> code]
Body(cseq, code) == [part |-> "body", cseq |-> cseq, code |-> code]

IncomingData ==
    /\ Looping /\ connection = "open"
    /\ \E n \in 1..Len(incoming) :
          /\ fResponseBuffer' = fResponseBuffer \o SubSeq(incoming, 1, n)
          /\ incoming' = SubSeq(incoming, n + 1, Len(incoming))
          /\ received' = received \cup
                 {incoming[i].cseq : i \in {j \in 1..n : incoming[j].part = "body"}}
    /\ stack' = Append(stack, Frame("parse"))
    /\ UNCHANGED <<connection, fCSeq, queueVars, closed, unanswered, resends,
                   issued, calls, disturbed, failedResends, dropped>>

\* An error while the socket was read: all pending handlers are told.
ConnectionLost ==
    /\ Looping /\ connection = "open"
    /\ ResetResponseBuffer
    /\ ResetTCPSockets
    /\ fRequestsAwaitingResponse' = <<>>
    /\ stack' = Append(stack, [Frame("errors") EXCEPT
                                  !.queue = fRequestsAwaitingResponse])
    /\ UNCHANGED <<fCSeq, fRequestsAwaitingConnection, closed, resends,
                   historyVars>>

Response == Head(fResponseBuffer)

HasHeader == \E i \in 1..Len(fResponseBuffer) : fResponseBuffer[i].part = "header"

\* The end of headers is not found.
NoHeader ==
    /\ At("parse") /\ ~HasHeader
    /\ stack' = Front(stack)
    /\ UNCHANGED <<connection, fCSeq, queueVars, fResponseBuffer, closed,
                   serverVars, historyVars>>

\* It is found, but behind the rest of a response whose headers were thrown
\* away: "This does not appear to be a RTSP response".  All of it goes.
NotAResponse ==
    /\ At("parse") /\ HasHeader /\ Response.part = "body"
    /\ ResetResponseBuffer
    /\ stack' = Front(stack)
    /\ UNCHANGED <<connection, fCSeq, queueVars, closed, serverVars, historyVars>>

\* Of the requests that wait, those with a smaller CSeq than the response.
Older(cseq) ==
    LET q == fRequestsAwaitingResponse
    IN  {i \in 1..Len(q) : \A j \in 1..i : q[j].cseq < cseq}

\* The queue from the request on that is taken to be answered.  If the CSeq is
\* not that of the first one left, that one is gone, and "assume it's for our
\* most recent request" takes the next.
Candidates(cseq) ==
    LET q == fRequestsAwaitingResponse
        left == SubSeq(q, Cardinality(Older(cseq)) + 1, Len(q))
    IN  IF left # <<>> /\ Head(left).cseq # cseq THEN Tail(left) ELSE left

\* The requests before it leave the queue for good.
DropBefore(cseq) ==
    LET q == fRequestsAwaitingResponse
    IN  dropped' = dropped \cup
                       ToSet(SubSeq(q, 1, Len(q) - Len(Candidates(cseq))))

Rest(cseq) ==
    IF Candidates(cseq) = <<>> THEN <<>> ELSE Tail(Candidates(cseq))

FindRequest(cseq) ==
    /\ DropBefore(cseq)
    /\ fRequestsAwaitingResponse' = Rest(cseq)

\* Mutant: the request record is not put back.
NotPutBack(queue) == IF queue = <<>> THEN queue ELSE Tail(queue)

\* Mutant: it is enqueued again, behind the others.
PutAtTail(queue) == IF queue = <<>> THEN queue ELSE Append(Tail(queue), Head(queue))

\* "Put our request record back; we need it again".
PutAtHead(queue) == queue

\* The body is not complete: "We need to read more data".
BodyMissing ==
    /\ At("parse") /\ HasHeader
    /\ Len(fResponseBuffer) = 1
    /\ DropBefore(Response.cseq)
    /\ fRequestsAwaitingResponse' = PutAtHead(Candidates(Response.cseq))
    /\ stack' = Front(stack)
    /\ UNCHANGED <<connection, fCSeq, fRequestsAwaitingConnection,
                   fResponseBuffer, closed, serverVars, issued, calls, received,
                   disturbed, failedResends>>

Complete ==
    At("parse") /\ Len(fResponseBuffer) >= 2 /\ Response.part = "header"
More == Len(fResponseBuffer) > 2
FoundRequest == Head(Candidates(Response.cseq))

ResponseToNobody ==
    /\ Complete
    /\ Candidates(Response.cseq) = <<>>
    /\ FindRequest(Response.cseq)
    /\ fResponseBuffer' = SubSeq(fResponseBuffer, 3, Len(fResponseBuffer))
    /\ stack' = IF More THEN stack ELSE Front(stack)
    /\ UNCHANGED <<connection, fCSeq, fRequestsAwaitingConnection, closed,
                   serverVars, issued, calls, received, disturbed,
                   failedResends>>

\* The handler is called with the response.  A response that can not be made
\* sense of ("bad") is an error, and ends the loop.
CallHandler ==
    /\ Complete
    /\ Candidates(Response.cseq) # <<>>
    /\ Response.code \in {"ok", "error", "bad"}
    /\ FindRequest(Response.cseq)
    /\ fResponseBuffer' = SubSeq(fResponseBuffer, 3, Len(fResponseBuffer))
    /\ stack' = Replaced([Frame("responseHandler") EXCEPT
                             !.request = FoundRequest,
                             !.cseq = Response.cseq,
                             !.more = More /\ Response.code # "bad"])
    /\ Called(FoundRequest)
    /\ UNCHANGED <<connection, fCSeq, fRequestsAwaitingConnection, closed,
                   serverVars, issued, received, disturbed, failedResends>>

\* 401 or a redirection: the buffer is emptied, and the request sent again.
NeedToResend ==
    /\ Complete
    /\ Candidates(Response.cseq) # <<>>
    /\ FindRequest(Response.cseq)
    /\ ResetResponseBuffer
    /\ stack' = Replaced([Frame("resend") EXCEPT !.request = FoundRequest,
                                                 !.more = More])
    /\ \/ /\ Response.code = "unauthorized"
          /\ UNCHANGED <<connection, unanswered, incoming>>
       \/ /\ Response.code = "moved"
          /\ ResetTCPSockets
    /\ disturbed' = \/ disturbed
                    \/ /\ Rest(Response.cseq) # <<>>
                       /\ More \/ Response.code = "moved"
    /\ UNCHANGED <<fCSeq, fRequestsAwaitingConnection, closed, resends, issued,
                   calls, received, failedResends>>

\* Mutant: "fCSeq++" for "++fCSeq".
CSeqBefore == fCSeq

NextCSeq == fCSeq + 1

ResendCommand ==
    /\ At("resend")
    /\ fCSeq' = fCSeq + 1
    /\ LET request == [Top.request EXCEPT !.cseq = NextCSeq]
           failed == [Frame("resendFailed") EXCEPT !.request = request,
                                                   !.more = Top.more]
       IN  SendRequest(request, Front(stack), Replaced(failed))
    /\ UNCHANGED issued

\* Bytes from before the buffer: those behind the response are counted back from
\* the end of what was read, and the buffer was emptied since.
Rubbish == <<Body(Top.request.cseq, "bad")>>

\* "if (!resendCommand(foundRequest)) break": its handler was called and it was
\* deleted, but it is taken for a request whose response could not be parsed.
\* The buffer is emptied once more, or gets bytes that never were in it.
ResendFailed ==
    /\ At("resendFailed")
    /\ fResponseBuffer' = IF Top.more THEN Rubbish ELSE <<>>
    /\ disturbed' = (disturbed \/ Top.more \/ fResponseBuffer # <<>>)
    /\ stack' = Replaced([Frame("responseHandler") EXCEPT !.request = Top.request])
    /\ Called(Top.request)
    /\ failedResends' = failedResends \cup {Top.request.id}
    /\ UNCHANGED <<connection, fCSeq, queueVars, closed, serverVars, issued,
                   received, dropped>>

-----------------------------------------------------------------------------
(***************************************************************************)
(* The program's handlers, and the server.                                 *)
(***************************************************************************)

\* Whether a call goes on to use the client when the handlers above it have
\* returned.
GoesOn(frame) ==
    frame.more \/ frame.queue # <<>> \/ frame.at = "resendFailed"

\* The handler returns, and the request record is deleted.  If the client was
\* closed and the caller goes on to use it, what follows is undefined.
HandlerReturns ==
    /\ InHandler
    /\ ~(closed /\ GoesOn(Top))
    /\ stack' = CASE Top.at = "errorHandler" /\ ~closed ->
                         Replaced([Top EXCEPT !.at = "errors", !.request = NoRequest])
                  [] Top.at = "responseHandler" /\ Top.more ->
                         Replaced(Frame("parse"))
                  [] OTHER -> Front(stack)
    /\ UNCHANGED <<connection, fCSeq, queueVars, fResponseBuffer, closed,
                   serverVars, historyVars>>

\* Medium::close(): the destructor deletes all requests.
Close ==
    /\ ProgramRuns
    /\ closed' = TRUE
    /\ ResetTCPSockets
    /\ ResetResponseBuffer
    /\ fRequestsAwaitingConnection' = <<>>
    /\ fRequestsAwaitingResponse' = <<>>
    /\ UNCHANGED <<fCSeq, stack, resends, historyVars>>

\* The server answers one of the requests of the connection.
Answer ==
    /\ connection = "open"
    /\ \E i \in 1..Len(unanswered), code \in Codes :
          /\ AnswersInOrder => i = 1
          /\ unanswered' = RemoveAt(unanswered, i)
          /\ incoming' = incoming \o <<Header(unanswered[i], code),
                                       Body(unanswered[i], code)>>
          /\ disturbed' = (disturbed \/ i # 1)
          /\ IF code \in {"unauthorized", "moved"}
             THEN resends < MaxResends /\ resends' = resends + 1
             ELSE UNCHANGED resends
    /\ UNCHANGED <<connection, fCSeq, queueVars, fResponseBuffer, closed, stack,
                   issued, calls, received, failedResends, dropped>>

Next ==
    \/ SendCommand
    \/ ConnectionSucceeds \/ ConnectionFails
    \/ ResumeSending \/ NextError \/ QueueHandled
    \/ IncomingData \/ ConnectionLost
    \/ NoHeader \/ NotAResponse \/ BodyMissing
    \/ ResponseToNobody \/ CallHandler \/ NeedToResend
    \/ ResendCommand \/ ResendFailed
    \/ HandlerReturns \/ Close
    \/ Answer

Spec == Init /\ [][Next]_vars

-----------------------------------------------------------------------------
(***************************************************************************)
(* Properties.                                                             *)
(***************************************************************************)

Requests == [id : 1..MaxRequests, cseq : 2..fCSeq]

\* The records are well formed, no CSeq is used that the counter has not
\* reached, and no two requests have the same one: responses are told apart by it.
TypeOK ==
    /\ connection \in {"none", "pending", "open"}
    /\ fCSeq \in Nat
    /\ fRequestsAwaitingConnection \in Seq(Requests)
    /\ fRequestsAwaitingResponse \in Seq(Requests)
    /\ {fResponseBuffer, incoming} \subseteq
          Seq([part : {"header", "body"}, cseq : 2..fCSeq, code : Codes])
    /\ closed \in BOOLEAN
    /\ stack \in Seq([at : HandlerPoints \cup ClientPoints,
                      request : Requests \cup {NoRequest}, queue : Seq(Requests),
                      cseq : 0..fCSeq, more : BOOLEAN])
    /\ unanswered \in Seq(2..fCSeq) /\ IsInjective(unanswered)
    /\ resends \in 0..MaxResends
    /\ issued \in 0..MaxRequests /\ calls \in [1..MaxRequests -> Nat]
    /\ received \subseteq 2..fCSeq
    /\ disturbed \in BOOLEAN /\ dropped \subseteq Requests
    /\ failedResends \subseteq 1..MaxRequests

\* The places that hold request id until its handler is called.
Places(id) ==
    LET In(q) == {i \in 1..Len(q) : q[i].id = id}
    IN  ({"connection"} \X In(fRequestsAwaitingConnection))
        \cup ({"response"} \X In(fRequestsAwaitingResponse))
        \cup (UNION {{k} \X In(stack[k].queue) : k \in 1..Len(stack)})
        \cup {<<k, 0>> : k \in {j \in 1..Len(stack) :
                 stack[j].at = "resend" /\ stack[j].request.id = id}}

Dropped(id) == \E request \in dropped : request.id = id

\* Whether the handler of request id was called, and how often: once, or again
\* when it could not be sent again.
Told(id) == calls[id] = 1 \/ (calls[id] = 2 /\ id \in failedResends)

\* Each request is in one queue, or its handler was called; or it was dropped
\* by handleResponseBytes() when it looked for another one.  None is lost on
\* the way between the queues, by a resend or a nested call, and but for the
\* resend that fails none is told twice.
NoneForgotten ==
    closed \/ \A id \in 1..issued :
        \/ Cardinality(Places(id)) = 1 /\ calls[id] = 0 /\ ~Dropped(id)
        \/ Places(id) = {} /\ Told(id) /\ ~Dropped(id)
        \/ Places(id) = {} /\ calls[id] = 0 /\ Dropped(id)

\* While the server answers in order and no resend has thrown responses away,
\* the guesses of handleResponseBytes() are right, whatever was sent, failed or
\* lost: it drops no request, and gives a handler the response to its own.
RightResponse ==
    disturbed
    \/ /\ dropped = {}
       /\ \A i \in 1..Len(stack) :
             stack[i].at = "responseHandler" /\ stack[i].cseq # 0
                 => stack[i].request.cseq = stack[i].cseq

\* While requests wait for a connection, one is being made, whose end wakes
\* them; and one is being made only for requests that wait.
ConnectionAwaited ==
    fRequestsAwaitingConnection # <<>> <=> connection = "pending"

\* "The responseHandler function is called later to handle the response (or is
\* called immediately - with an error code - if the command cannot be sent)":
\* later or immediately, and once.
CalledOnce == \A id \in 1..MaxRequests : calls[id] <= 1

\* "We never received (and will never receive) a response for this handler, so
\* delete it": a request is given up only if its response was not read.
NeverReceived == \A request \in dropped : request.cseq \notin received

=============================================================================
