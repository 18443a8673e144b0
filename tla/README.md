# A TLA+ development for the RTSP push and pull test programs

The repository ("RTSP 推流拉流并发测试", a concurrency test that pushes and pulls RTSP
streams) is the live555 streaming library with changes of its own and three
programs on it: `push_live555`, `pull_live555`, `server_live555`. This directory
holds TLA+ models of the library's core, the TLC configurations that check them,
and machine-checked proofs. Source paths below are relative to `src/`.

Contents: inventory - hard behaviours - modules - runs, bounds and fairness -
findings - proofs - what is only model-checked - what is not modelled - plan.

## 1. Inventory

Everything in the enabled programs runs in one thread: an event loop
(`TaskScheduler`) calls handlers; a handler returns, or runs the loop again
inside itself. The parts, the state each keeps, and what makes it correct:

| part | source | state | operations | correct when |
|---|---|---|---|---|
| timer queue | `live555/BasicUsageEnvironment/DelayQueue.cpp`, `BasicTaskScheduler0.cpp`, `UsageEnvironment/UsageEnvironment.cpp` | a circular list of time differences ending in the queue object itself; tokens; `fLastSyncTime` | schedule, unschedule, reschedule, synchronize, handleAlarm | each alarm runs once, not before its delay, in order; no alarm object is deleted twice |
| event loop | `BasicUsageEnvironment/BasicTaskScheduler.cpp`, `BasicTaskScheduler0.cpp` | three `fd_set`s, handler list, event-trigger bit map, "last handled" cursors | SingleStep (select, one socket, one trigger, one alarm), registration, moveSocketHandling, triggers, triggerEvent from other threads | what is watched is what is registered; no event lost; nobody starves |
| RTP reception | `liveMedia/MultiFramedRTPSource.cpp`, `H264VideoRTPSource.cpp`, `RTPSource.cpp`, `FramedSource.cpp` | reordering list, next sequence number expected, saved packet, loss and fragment flags, client request | network read handler, doGetNextFrame1, getNextFrame, stop | frames whole, in order, none twice |
| RTSP client | `liveMedia/RTSPClient.cpp` | three request queues, sockets, response buffer, authentication | sendRequest, connection and response handlers, resend, reset | each request's handler is called once, with its own response |
| push | `liveMedia/DarwinInjector.cpp`, `push_live555/main.cpp` | watch variable, result, session parameters | setUrl (ANNOUNCE, SETUP, PLAY), closeAll | streams start in order, or the attempt ends with an error |
| pull | `pull_live555/testRTSPClient.cpp`, `simplertpsession.cpp` | per-stream state, count of clients | continueAfter..., subsession handlers, shutdownStream | a stream is shut down once |
| server | `liveMedia/RTSPServer.cpp`, `GenericMediaServer.cpp`, `ServerMediaSession.cpp`, `OnDemandServerMediaSubsession.cpp`, `mediaServer/DynamicRTSPServer.cpp` | connections, client sessions, media sessions and stream states with reference counts, the streams over each TCP socket | DESCRIBE, SETUP, PLAY, PAUSE, TEARDOWN, liveness timeout, closing of connections, replacement of media sessions | what is used exists, what is not used goes, and no client is disturbed by another |
| stream replication | `liveMedia/StreamReplicator.cpp` | master replica, two queues, deliveries counted, a toggle for each replica | getNextFrame, deactivate, deliver, closure | a request is in one place; every replica that plays on gets every frame once |
| RTCP, interleaving | `liveMedia/RTCP.cpp`, `RTPInterface.cpp` | member tables, shared TCP sockets | reports, BYE, interleaved channels | - |
| ARQ over UDP (not built) | `resend_protocol/` | ring of packets with head and tail, records of requests | insert, combine, ask again, give up, reset | NALUs are whole, in order, and left out only when given up |
| live source server (not built) | `wis_live/` | one media session, one registered callback; queue of at most 10 NAL units under a mutex | register, unregister; insert from the receiver thread, pop from the loop | the stream that clients share is the one that is fed; no unit used after it is freed |
| sockets, proxies, mains, test programs | `live555/groupsock`, `proxyServer`, `mediaServer`, `testProgs`, `common`, `Foundation` | - | - | - |

How they interact. Sockets and alarms reach the objects only through the event
loop. A sink asks a source for a frame (`getNextFrame`) and is called back
(`afterGetting`) - at once, or through an alarm with delay zero (`nextTask()`).
`DarwinInjector` sends a request with `RTSPClient` and runs the event loop until
the response handler sets `fWatchVariable`. A replica asks its `StreamReplicator`, which
asks the input source, and calls the replicas' clients back in the middle of its own loop.
A server's client session refers to a media session and, for each track, to a stream state
that may be shared; the connection that a request comes over is another object, and may
change from request to request. Only `triggerEvent()` may be called from other threads.

## 2. Hard behaviours

`PROJECT.json` lists every hazard at its line; in short:

* *The loop inside itself.* A handler may call `doEventLoop(&watchVariable)`
  (`DarwinInjector.cpp:249`, `H264VideoFileServerMediaSubsession.cpp:97`). The timer
  queue and the loop's cursors are then used by several activations at once, and a
  handler's own alarm object is still to be deleted when an inner one runs.
* *A clock that jumps.* Timers use `gettimeofday()`; an administrator or NTP may set it back.
* *One of each per step.* `SingleStep()` serves one socket, one trigger, one alarm;
  that all are served in the end depends on the cursors.
* *Another thread.* `triggerEvent()` writes a bit map that the loop also writes, unlocked.
* *Requests between queues.* A request waits for a connection, in a queue local to a
  call, or for a response; it moves when connections open, fail, or are lost, and when
  the server asks for it again, while handlers send others or close the client.
* *The network.* Packets are lost, late, repeated; sequence numbers wrap; the SSRC changes.
* *Ownership by hand.* Alarm objects and packet descriptors have several possible
  holders and are deleted or freed by the last one; media sessions and streams of the server
  count references, which clients that time out, disconnect or tear down give up in any order.
* *Called back in the middle.* `deliverReceivedFrame()` gives a frame to one replica after
  the other; each may ask, stop, close or create replicas before its call returns.
* *A description that takes time.* The description of a raw H.264 file is read in an event loop
  inside `handleCmd_DESCRIBE()`; media, sessions and the connection itself may go meanwhile.
* *A callback under a lock.* The receiver thread of `wis_live` runs the callback of a source while it holds
  its mutex; the source queues the unit under a mutex of its own, and the event loop may close it meanwhile.
* *Three ends of one stream.* A client of the pull program is shut down by a request that fails, by the BYE
  for its last subsession, or by its timer, whichever comes first, at any step of setting up.
* *Around a circle.* The ARQ buffer tells before from after by distances in a ring of slots.

## 3. The modules

### Timer queue: `DelayQueue`, `AlarmService`, `MCDelayQueue`
`DelayQueue` is `class DelayQueue` with the `AlarmHandler`s of
`BasicTaskScheduler0`. `queue` is the circular list from its head on, as records of
token and `fDeltaTimeRemaining`; its last element is the queue object (`Self`, with
ETERNITY). `alarms` are the AlarmHandler objects not yet deleted, with what was
asked of them; `running` is the stack of `handleTimeout()` calls - more than one,
since a handler may run the loop. Every operation is the whole function: it
synchronizes with the clock first where the code does (`ScheduleDelayedTask`,
`UnscheduleDelayedTask`, `RescheduleDelayedTask`, `TimeToNextAlarm`, `HandleAlarm`,
`HandlerReturns`). `Tick` and `SetClockBack` are the clock; `now` is real time and
`setBack` how much the clock is behind it.

`AlarmService` is what a program expects: a table of tokens and due times;
the alarm that runs is due, the earliest, and first come first served among equal ones.
`DelayQueue!Service` is the refinement mapping.

### Event loop: `TaskScheduler`
`loop` is a stack of activations of `SingleStep()`, each at a program point. The
steps of `SingleStep()` are actions (`Select`, `SelectInterrupted`,
`CallSocketHandler`, `NoSocketHandler`, `LookAtTriggers`, `ScanTriggers`,
`LoadTriggers`/`StoreTriggers` for the read and write of `&=~`, `NoAlarm`, `TickAlarm`,
`TaskAlarm`), since other threads run between them (`ExternalLoad`/`ExternalStore`).
A handler may register, disable and move sockets, create, delete and raise
triggers, schedule and unschedule tasks, and enter the loop. Of the timer queue
the order of due alarms is kept (what `AlarmService` promises).

### RTP reception: `MultiFramedRTPSource`, `MCMultiFramedRTPSource`, `MultiFramedRTPSourceProofs`
The sender's packets have absolute numbers that only the model knows (`n`); the
code sees `SeqNo`, modulo `SeqNoRange`. `packets` is the list from `fHeadPacket` on
and `fTailPacket` the position of the tail in it, so that a tail pointer that is not
the last element could be seen. `fSavedPacket` says who may use the one descriptor
that is kept. `PacketArrives`, `ReadFails` and `ReadIsIncomplete` are the outcomes of
`networkReadHandler1()`; while `delivering`, the loop of `doGetNextFrame1()` runs, one
action per turn: `LoopEnds`, `RejectHeader`, `RejectFragment`, `UseAndContinue`,
`UseAndDeliver`. The client is `GetNextFrame`, `AfterGetting` (through the event
loop) and `StopGettingFrames`. The payload format is H.264: single NAL units, FU-A
fragments, aggregation packets, and headers that are rejected. `SenderAssumption` says that the fragments
of a unit have consecutive numbers, as the payload format asks: from a sender that cuts a unit short and
goes on with another, without a gap in its numbers, the code would join the two.

### RTSP client: `RTSPClient`
`fRequestsAwaitingConnection` and `fRequestsAwaitingResponse` are the code's queues,
`connection` stands for the socket and the handler registered for it, and
`fResponseBuffer` for the bytes read, as pieces: the headers and the body of a response,
so that reading stops inside one. `stack` holds the calls that are not over, with what only
they know: the temporary queues of `connectionHandler1()` and `handleResponseBytes()`, and
whether the latter goes on with more responses. The program acts whenever one of its
handlers is on top, or at the bottom: `SendCommand`, `Close`, and all that the event loop
calls (up to `MaxNesting`). `SendRequest` with its three outcomes `Enqueue`, `Send` and
`Fail` is `sendRequest()`, used by a new command, by `ResumeSending` and by
`ResendCommand`. The loop of `handleResponseBytes()` takes one action per response:
`NoHeader`, `NotAResponse`, `BodyMissing`, `ResponseToNobody`, `CallHandler`,
`NeedToResend`. `Answer` is the server, which answers the requests of a connection, in
order or not (`AnswersInOrder`). When a handler has closed the client and a call below it would go on to use it, the
model stops: that is undefined in the code. `received`, `disturbed`, `failedResends` and
`dropped` are history.

### Stream replication: `StreamReplicator`
The two lists, the master, the toggles (`fFrameIndex` of the replicator and `frameIndex` of
each replica) and the two counters are the code's. `stack` holds the calls that are not
over: `deliver` is the loop of `deliverReceivedFrame()`, `closure`/`closing` those of
`onSourceClosure()`, `deactivated`/`removed` what `deactivateStreamReplica()` and the
destructor have left to do after a delivery, and `program` a function of the program that was
called back and may call every operation (up to `MaxCalls`). `buffer` and `given` say which
frame a replica has, by its number. The code does not foresee three things, which the
properties name and except (`mishaps`): `lost`, `miscounted` and `overtaken`. What they do
is in section 5; `TypeOK` and `OnePlace` hold in spite of them.

### RTSP server: `RTSPServer`, `RTSPServerProofs`
`media` are the `ServerMediaSession`s that exist, `streams` the `StreamState`s, `sessions` the
client sessions with the `streamState` of each track, `connections` the client connections with
their sockets; `fLastStreamToken`, `fTCPStreamingDatabase` and `destinations`
(`fDestinationsHashTable`) are the code's tables. `program` picks how media are looked up and
shared: `rawFile` and `timedFile` are `DynamicRTSPServer` (new media on the first look-up of
each client, a source for each), `live` is `wis_live` (media made once, the first source shared).
`describing` is the stack of descriptions being made in nested event loops, `callback` who is
registered to be fed by the live source. `Removed`, `Found`, `GiveUpMedia`, `Deleted` and
`DeleteTracks` are what the functions of the same purpose make of these tables, so that
teardown, timeout and a closed connection are the same code with different tracks, as in the
source. `stale` is history: tracks set up over TCP and then again over UDP.

### ARQ over UDP: `PackageBuffer`, `ResendProtocol`, `MCResendProtocol`, `PkgReceiverProofs`
`PackageBuffer` is `Tbuf`: each operator is what a function makes of the buffer (`vpkg`, head,
tail, current, records of requests), with the distances around the ring as in the code.
`Placed` is `pkg_handler()` up to the call of `combine_callback()`, of which `Rounds` is the loop.
`ResendProtocol` composes it with the sender and a network: `Send` (the packet arrives, is lost, or is
delayed), `DelayedArrives`, `ResentArrives`, `Reinit`. After each packet the receiver's loop
sends requests or gives up (`RequestsSent`). The sender is the one that the project file builds
(`DEFINES += LEIZHOU`); who takes the requests and answers them from the ring is not in the
repository. `last`, `givenUp` and `misled` are history, since the buffer was reset: `misled` says whether the
tail was ever before the head, or not behind a NALU that was given; `scan_pkg()` gives one only when the tail
is behind it, except after it skipped another.

### Live source: `WisMediaSource`, `PkgReceiverProofs`
`receiver` and `loop` say where the two threads are, with the source and the NAL unit each holds; who
has the locks follows from that (`_mutexHeld`, `InsertHolds`, `PopHolds`). `NaluReceived`, `CallBack`,
`LockQueue` and `Insert` are `combine_callback()` with `insert_nalu()`; `Register` and `Start`,
`Pop`, `PopFront` and `Deliver`, `Unregister` and `Free` are the steps of the event loop between which
the receiver may act: creating a source, `getNextFrame1()` with `pop_nalu()`, and closing.
`polls` counts the tasks with which a source looks again for a unit (10 ms later). A client is
`GetNextFrame`, `StopGettingFrames` and `Close`, in any order. `inserted`, `given` and `discarded` are
history.

### Pull program: `PullClients`
One record per `ourRTSPClient`: the request that has no answer yet, how far `setupNextSubsession()`
has come, which subsessions have a sink and a BYE handler, and whether the timer is scheduled.
The response handlers, the BYE and the timer are one action each; `ShutdownStream` is part of whichever
of them leads to it. The library below is an abstract client with what `RTSPClient` shows: one
answer or one error per request, or an error inside the call. `setUp` and `unheard` are history: what
the server has set up, and what of it the client took for failed (`RTSPClient.cpp:1162` takes the
session's name from an answer before it finds the transport unusable).

## 4. Runs, bounds, fairness

| run | configuration | shows |
|---|---|---|
| `timers` | 3 alarms with delays -1, 2 and 3, clock set back at any moment by 2 in all, handlers nested once, ETERNITY 9 | `TypeOK`, `OneOwner`, `AlarmTimes` (with `EternityHolds`), `NeverEarly`; until the clock is set back the list implements `AlarmService` (`ImplementsAlarmService`) |
| `event_loop_safety` | 2 sockets, 2 triggers, 1 task and the tick, the loop nested once, 3 changes of registration | `TypeOK`, `EverySocketIsWatched`, `NoTriggerLost` |
| `event_loop_liveness` | as above without nesting, 2 changes, one other thread, `select()` interrupted | `SocketServed`, `TriggerServed`, `AlarmServed` |
| `trigger_race` | one other thread | `NoTriggerLost` fails (finding) |
| `rtp_reception` | 13 packets of all kinds, numbers modulo 8, 2 lost in a row, 2 places late, one change of SSRC | `TypeOK`, `OrderRestored` (with `LossIsNoticed`), `OneHolder`, `FramesAreWhole` |
| `rtsp_requests` | 3 requests, 2 resends, calls nested to depth 3, answers in any order | `TypeOK`, `NoneForgotten`, `RightResponse`, `ConnectionAwaited` |
| `stream_replication` | 3 replicas, 3 frames, 3 calls not over | `TypeOK`, `OnePlace`, `BooksAgree` (`ReadForMaster`, `IndexesAgree`, `CountsAgree`), `MasterWaitsForOthers`, `EveryFrameOnce` |
| `stalled_replication` | the same with 2 frames | `DeliveryIsCompleted` fails (finding) |
| `rtsp_server` | 3 programs, 2 connections, sockets, sessions, media and streams, 2 tracks, descriptions nested twice | `TypeOK`, `ReferencesAgree` (`CountsAgree`, `LastStreamIsShared`, `TCPStreamsAreNoted`), `LiveStreamIsFed`, `OthersUndisturbed` |
| `resend_reception` | 4 NALUs of 1, 2, 3 and 1 packets, ring of 24 whose end comes after the fourth packet, window 6, two packets late by up to 5, one restart | `ProtocolTypeOK`, `NalusAreWhole`, `InOrder`, `SkippedIfGivenUp` |
| `live_source` | 2 sources, 4 NAL units, queues of 2, two threads | `TypeOK`, `UsedWhileAlive`, `NoneLostOnTheWay`, `ReaderIsServed`, `ThreadsGoOn` |
| `pull_clients` | 3 clients, 2 subsessions each | `TypeOK`, `RunsUntilAllEnded`, `NothingLeftBehind` |

Eight more configurations can be given to TLC by hand (`tlc -config X.cfg Module`); each shows
something that section 5 describes, and TLC reports a violation in each:

| configuration | module | fails |
|---|---|---|
| `TaskSchedulerInterrupt.cfg` (`select()` interrupted) | `TaskScheduler` | `OnlyReadyIsReported` |
| `MultiFramedRTPSourceAggregates.cfg` (6 packets, one an aggregation packet after a fragmented unit) | `MCMultiFramedRTPSource` | `OnlyFramesAreDelivered` |
| `RTSPClientResend.cfg` (2 requests, 1 resend, answers in order) | `RTSPClient` | `CalledOnce` |
| `RTSPClientPipelined.cfg` (3 requests, 1 resend, answers in order) | `RTSPClient` | `NeverReceived` |
| `RTSPServerRefused.cfg` (the program with tracks) | `RTSPServer` | `SameStreamIsFound` |
| `ResendProtocolEarlier.cfg` (as `resend_reception`) | `MCResendProtocol` | `EarlierIsDiscarded` |
| `ResendProtocolKept.cfg` (as `resend_reception`) | `MCResendProtocol` | `GivenIsRemoved` |
| `PullClientsExit.cfg` (2 clients) | `PullClients` | `ExitsWithTheFinal` |

Every property has a mutant: a definition marked "Mutant" just before the one it
replaces, a plausible bug with which TLC finds the property violated.

*Why the bounds are enough.* Timers: three alarms give every pair of neighbours in the
list, equal and unequal times, and a handler that meets the other's alarm; the
clock is set back by more than a delay. Event loop: two sockets are enough for one
to be served before the other, to be the largest or not, and to be moved onto the
other's number; two triggers likewise; two activations are a loop in a loop. RTP:
eight sequence numbers wrap around in the middle of a fragmented unit, and two
losses in a row with delays of two reach every order of up to three waiting
packets. RTSP client: three requests are needed for one to be answered while another is
resent and a third is in a queue of its own; depth 3 lets a handler called while requests
are resumed run the event loop, which handles a response, whose handler sends a request.
`MayArrive` names the assumption behind any comparison around a circle:
waiting and late packets span less than half of it. Replication: with three replicas the
master, one that has the current frame and one that does not are there at once, and a
callback inside a callback can stop or close any of them. Server: two clients share a stream
or not, use each other's connection, and meet in each other's description; two sockets let a
number be used again. ARQ: the sizes give NALUs of one packet, of two and of three, so that a whole NALU, part
of one and a gap can wait at once, and the tail can be set back to the middle of a NALU; a skip, a reset after
overflow and several NALUs at once are all reached, two late packets come in either order, and the slot numbers
wrap around. The run was also done once with each of: the sizes 1, 2, 2, 1, 1, 1 and 2, 1, 3, 1, 1; a ring of 12
with a window of 3 and one of 8 with a window of 2; `MaxRequests` 1; `Countdown` 2; three packets late at
once; the properties held. `MaxRequests = 0` and `Countdown = 1` make giving up as quick as possible (the code asks
5 times, after 5 packets each); the window is 6 of 24 instead of 256 of 8192, which keeps the condition
`BufferAssumption` names. No slot is used twice within
the run. Live source: a queue of two is full after two units, so that with four one gives way while another
is being read; two sources take the registration from each other. Pull: with three clients one ends
before the others are open, one while they set up, and the last alone; two subsessions are the first and
the last, and either may fail.

*Fairness.* `FairSpec` of `TaskScheduler` has weak fairness of `SingleStep()` (the
thread of the loop runs), of an alarm coming due (time passes) and of a thread
finishing the store it began; strong fairness of `HandlerReturns` (a handler ends
in the end, whatever it calls). Nothing is assumed of the environment that makes
sockets ready or of `LeaveEventLoop`. In the liveness run a handler may raise its own
trigger and schedule its own task with delay zero for ever; the others are served
all the same. The liveness run does not nest loops: an outer activation waits, by
design, until the inner loop's watch variable is set.

`FairSpec` of `WisMediaSource` has weak fairness of each thread's own next step (a thread runs, and gets a
lock that is free), and strong fairness of each task that polls a queue, which is what `AlarmServed` shows
of the loop: a task that is due is run, whatever else the loop has to do. Nothing makes a unit arrive
or a client call.

Deadlock is checked in the runs of the timers, the event loop and RTP reception. The others may
really stop: a client that was closed, or has sent all its requests, does nothing more; a
replicator may be deleted; a server whose bounds are used up, a sender that has sent its last
packet, and a live source without readers wait; the pull program exits.

*What holds only until something else happens.* Three modules have a history variable that
names what the code does not foresee, and some of their properties are stated until then:
`mishaps` of `StreamReplicator`, `stale` of `RTSPServer` (with media described "late"), and `misled` of
`ResendProtocol` (which a reset of the buffer makes FALSE again). Section 5 says what each is; the properties are not vacuous, for TLC
reaches most of the states without them, and each mutant breaks its property without them.

*What `rtsp_requests` shows.* `NoneForgotten` holds whatever the server does: it accounts for
every request, with those dropped, and those told twice because a resend failed (the
finding on failed resends), as cases of their own. `RightResponse` holds until
an answer was given out of order, or a resend has left other requests waiting for responses
that were thrown away with the buffer or with the connection (`disturbed`). The second
condition is needed with an in-order server too: without it TLC finds, with four requests and
one resend, a response given to another request's handler. The run was also done once with
four requests (one resend, any order; two resends, in order), a minute or two each, with the same result.

## 5. Findings

1. `trigger_race`: `fTriggersAwaitingHandling |= ...` in `triggerEvent()` and
   `&=~` in `SingleStep()` are unlocked reads and writes of one word. A trigger raised
   by another thread between the loop's read and its write is lost, although
   `UsageEnvironment.hh:151-153` says the function may be called from an external thread.
2. `stalled_replication`: `deactivateStreamReplica()` sets the index of a replica to -1
   (`StreamReplicator.cpp:111`) before it compares it (line 114), so a replica that stops without
   having the current frame takes away the delivery that was counted for another. The master then
   waits for a delivery that does not come, and nobody reads on (comment at 183-185).

Under the configurations to be given by hand:

3. `RTSPServerRefused.cfg`: the DESCRIBE of one client replaces the media session of a file
   (`DynamicRTSPServer.cpp:70`) that another client has begun to set up, whose next SETUP is then refused as
   one for "a stream that's different from the one originally requested" (`RTSPServer.cpp:1475`).
4. `ResendProtocolEarlier.cfg`: when head and tail are the same slot, `handle_lost()` takes a packet from just
   before the head for one far ahead (`pkg_buf.cpp:363`, against the comment at 388): it becomes the
   tail, and nearly every slot of the ring is asked for. With larger NALUs the receiver may then give one
   NALU to its callback for ever (`Returned` names that state).
5. `TaskSchedulerInterrupt.cfg`: after `EINTR` `SingleStep()` goes on with the three sets as
   they were passed in, and calls a handler for a socket that is not ready
   (`BasicTaskScheduler.cpp:105`, against the comment at line 129).
6. `MultiFramedRTPSourceAggregates.cfg`: `H264VideoRTPSource::processSpecialHeader()` leaves the two
   fragment flags as they were for aggregation packets. After a first fragment whose
   unit was cut short by loss, an aggregation packet is joined with the next
   fragmented unit into one "frame".
7. `RTSPClientResend.cfg`: a request that cannot be sent again has its handler called by
   `sendRequest()` and once more by `handleResponseBytes()`, which deletes its record a
   second time (`RTSPClient.cpp:1814`).
8. `RTSPClientPipelined.cfg`: a 401 or a redirect empties the response buffer with the responses to
   later requests in it; these are then given up as never answered
   (`RTSPClient.cpp:1813` against the comment at 1696).
9. `PullClientsExit.cfg`: the pull program exits when "the final stream has ended" (comment at
   `testRTSPClient.cpp:450`), which it takes from a count that `openURL()` raises. When the DESCRIBE of
   the first client fails inside the call, the count is 0 again before `main()` has opened the others.
10. `ResendProtocolKept.cfg`: a late packet becomes the tail when the packet received last is the one before it
   (`handle_normal_pkg()`, `pkg_buf.cpp:345`), so the tail may be inside a NALU that has been received whole.
   When that NALU comes to the head because another was skipped, it is given to the callback, but
   `move_to_next_head()` finds fewer slots up to the tail than it has packets and leaves it
   (`pkg_buf.cpp:169`), against "callback and move head tail" (`pkg_recevicer.h:55`): it is given again
   with the next packet. It takes two late packets and a NALU of three.

Also seen: a response whose CSeq is below that of the first waiting request takes that
request out of its queue for good and is given to the next one (`RTSPClient.cpp:1706-1741`; the
comment says to ignore it). After a redirect the requests left on the old connection wait
until a later one is answered. When several requests wait for a connection that fails, or
for responses when it is lost, the handler of the first may close the client while the loop goes
on to call the others with it (lines 1542 and 1601). When the SSRC changes while packets wait, the ASSERT at
`MultiFramedRTPSource.cpp:601` does not hold (constant `SsrcChangesAny`; the runs
exclude it and the comment at line 309 knows of it).

Of the replicator: when a master stops whose frame was read and no replica waits for it, the
frame is lost and the toggles of the others are one behind (`lost`); when the callback of one delivery
completes the frame, the loop around it goes on with the next frame, and a replica that asks
there may be given a frame that is not read yet (`overtaken`; the comment at line 250 excludes it). A
callback that closes the last replica deletes the replicator under the loop.

Of the server: `removeServerMediaSession()` by name takes away whatever media the name stands for by
then (`GenericMediaServer.cpp:46`), so a replacement is no longer found and never deleted. A track set
up over TCP and again over UDP keeps its old `tcpSocketNum` (`RTSPServer.cpp:1572`), and so is not stopped
when that connection goes. A stream of known duration is not started again after it has ended
(`OnDemandServerMediaSubsession.cpp:470`). A connection closed during a nested DESCRIBE closes its socket
number a second time, which may belong to another client by then. The first DESCRIBE of the live stream
while a client plays takes the callback away from it.

Of the ARQ buffer: a NALU that fills the window is never given, since the buffer overflows before its last
packet comes (unless another is skipped just then); the reset of `scan_pkg()` for a head that is no first packet
cannot happen, as the proofs show (`HeadOf`); `move_ht_needed()` resets each packet before it tests it, so that an overflow always
empties the buffer (`pkg_buf.cpp:292`); `before_head_flow` never counts (390); the tail may stay before
the head after `move_to_next_head()` (183); a lost head whose requests are given up waits for the
overflow; requests are driven by packets that arrive, so nothing is asked for when none does.

Of the live source: `_started` is set by `start_source()` when the source is made, and cleared when its
reader stops; a source that is read again afterwards is never served. (The server of `wis_live` stops a
source only when it deletes it.)

Of the pull program: a client that takes a SETUP for failed which the server has performed may go on to
PLAY without a sink, and then wait for ever (`RunsUntilAllEnded` excepts it by `unheard`). TEARDOWN is not sent
for a stream whose subsessions have no sink left, and the program is not told when a connection is lost while it
plays. With 0 workers it waits in its event loop for ever (`PullAssumption` excludes that).

## 6. Proofs

`DelayQueueProofs` begins with lemmas on lists of time differences (what inserting,
unlinking and synchronizing do to the sum of differences before each entry); the theorems
rest on them. TLAPS checks them for every set of tasks and delays and every bound on the clock.

The properties that TLC checks are not inductive as they stand: that an alarm is
on time says nothing of the list's shape, which the next insertion relies on. The
inductive invariant is

    IInv == Scalars /\ Objects /\ Running /\ Owned /\ Shape(queue) /\ OnTime(...)

* `Scalars`: the ranges of the clocks and of the token counter;
* `Objects`: tokens in use are at most `tokenCounter`, and what each asked for is a delay;
* `Running` and `Owned`: each object is in the list or with one call of `handleTimeout()`;
* `Shape`: a non-empty list of tokens without repetition, natural differences, `Self` last;
* `OnTime`: the sum of differences up to an entry lies between what real time leaves of
  its delay and what its client expected, by the time already taken into account and by
  what the clock shows beyond it; likewise for the ETERNITY of the sentinel.

`Invariant` (`Spec => []IInv`) has one step per action; each action is a composition of
`Synchronized`, `Insert`, `Unlink`, and each of these has a lemma of its own
(`SynchronizedOnTime`, `InsertOnTime`, `UnlinkOnTime`, `RemoveOnTime`). From it follow
`TypeCorrect`, `EveryObjectHasOneOwner`, `TimesAreKept` and `NeverTooEarly`.
Sums of sequences are a recursive function, not a RECURSIVE operator; the lemmas
use its unfolding at the positions an operation touches.

`RTSPClientProofs` proves `WaitersAreWoken`, `Spec => []ConnectionAwaited`: requests wait for a
connection exactly while one is being made, for any number of requests, resends and nested
calls. The property alone is not inductive: a redirect closes the connection, and if
it could be one that others wait for (a handler may have lost the old connection and asked
for a new one while `handleResponseBytes()` was going on) they would wait for ever. The
invariant adds that there is nothing in the response buffer without an open connection, so
the loop has nothing left to handle then. It needs no type of the stack: that the queue
is a sequence of whatever is enough (`Enqueued`), and `SendRequestKeeps` serves all three callers.

The second theorem of that module, `NoRequestForgotten` (`Spec => []NoneForgotten`), is about the stack. Its invariant is

    AInv == closed \/ (Queues /\ Pieced /\ Accounts)

* `Queues`: no request is twice in a queue, and the two queues and what each call on the stack holds
  (`Holds`: the requests it will send or tell) are apart from one another: two nested calls of
  `connectionHandler1()` never have the same request;
* `Pieced`: the types of what is read and of the CSeqs, for a response's CSeq to be a number;
* `Accounts`: a request that is held was told nothing, every other one was told or dropped, and one whose
  resend has just failed (`Failing`) was told exactly once, which makes the second call of its handler the last.

`PushFrame`, `PopFrame` and `ReplaceFrame` say what a call, a return and a call that goes on as another do to
what the stack holds; `CandidatesParted`, that the search for a request takes a head of the queue off and
nothing else; `Settled`, that the accounts agree again when what leaves all places is told or dropped.
`SendPlaces` serves the three callers of `sendRequest()`, `Answered` the four ends of `handleResponseBytes()`;
`OnePlaceOrNone` leads from there to the property.

`TypeCorrect` of the same module needs more than types. A response's CSeq is given to a request, so those that are
unanswered must differ, which holds because no CSeq is in two places that may send it. Its invariant

    TInv == Quantities /\ Records /\ Responses /\ Numbers

says of `Numbers` that what the connection queue holds, what the calls that resume sending hold (`CallsBy`,
`Sends`), and what is unanswered at the server (`Outstanding`) all have numbers of their own.

`ResponsesFindTheirRequests` (`[]RightResponse`) takes both and adds what the guesses of `handleResponseBytes()` rest on:

    RInv == IInv /\ TInv /\ (disturbed \/ Orderly)

`Orderly` says that until something disturbs it the queue of requests is in step with the server: it is what was read and not
handled, then what is on its way, then what is unanswered, in this order (`InStep`), and without an open connection
there is nothing to be in step with. A call of a handler is the only place where the two may change under a
loop that is not over; what it does to them (send, close, fail) keeps them in step by itself, so the loop finds
a queue that fits the buffer when it goes on.

`TaskSchedulerProofs` proves of the event loop, for any sockets, conditions, triggers, tasks and depth of
nesting, `SocketsAreWatched` (`Spec => []EverySocketIsWatched`), `TypeCorrect`, and without other threads
`NoTriggerIsLost`. The inductive invariant is

    IInv == Watched /\ Activations /\ Words /\ Others /\ Undisturbed

* `Watched` (lists, sets and `fMaxNumSockets` agree) is inductive by itself. Each
  of `EnableKeeps`, `DisableKeeps` and `MoveKeeps` follows the descriptor list through one operation, by
  the lemmas on what putting first, replacing and removing do to a list whose sockets differ
  (`Prepended`, `Replaced`, `Dropped`, `Found`); the least position that fits is found by well-founded
  induction.
* `Activations`: each activation is at a point of the program with the data that belong to it, and those
  below the innermost are inside a handler. `LeaveEventLoop` needs it: what goes on after a nested
  loop must be what was interrupted.
* `Words`, `Others`: the bit map, the trigger last used and the words read by other threads have
  their types.
* `Undisturbed`: without other threads the word that `&=~` has read is still in memory when it is written,
  which is what `NoTriggerLost` rests on, and what `trigger_race` refutes with one thread.

The last part of `DelayQueueProofs` proves `ServesAsATable`, that the list of differences implements the table of due times
(`Spec => ImplementsAlarmService`), for any tasks and delays. The refinement reads an entry's due time off
the sum of differences before it, so the proof first shows `OrderIsKept`: until the clock is set back, the
entries that wait are ordered by due time and, when due together, by token, and the sentinel's differences
are exact. (`OnTime` alone gives intervals; with one clock they are points.) There is then one lemma for
each action (`ScheduleSimulated`, `UnscheduleSimulated`, `RescheduleSimulated`, `TimeToNextSimulated`,
`HandleAlarmSimulated`, `ReturnSimulated`, `ClockSimulated`): it is a step of the table or leaves it alone.

`StreamReplicatorProofs` proves `EveryRequestInOnePlace` (`Spec => []OnePlace`), for any number of replicas
and of calls inside one another. Its invariant is

    IInv == Lists /\ Apart /\ Asked /\ Playing /\ Toggles

* `Lists`, `Apart`: the two lists hold replicas, none twice, none in both, and the master is in neither;
* `Asked`: who waits for a frame is exactly who is in one of these places;
* `Playing`, `Toggles`: who waits is active, and the toggles are 0 or 1. Without the last a delivery, which
  takes 1 minus the toggle, could make a waiting replica inactive.

`PutFirst`, `TakeFirst`, `TakeOut` and `Joined` follow lists without repetition through what the
code does to its linked lists.

`BooksAreTrue` (`[]BooksAgree`) and `MasterIsNotForgotten` (`[]MasterWaitsForOthers`) are of the replicator's
book-keeping. They follow from

    BInv == IInv /\ Calls /\ Tally /\ (mishaps = {} => Books /\ Waits)

* `Calls`: a closure that is being told is the outermost call, and the source has closed;
* `Tally`: the active replicas are counted, whatever happens;
* `Books`: toggles and deliveries agree, a delivery that is not over has a master and no pending read, and
  while a frame is being read, or nobody has asked for one, no replica has it yet. The last is what makes the count of
  deliveries start from 0, and the closure find nobody in the second list;
* `Waits`: when a frame was read, a delivery or closure is under way, or nobody waits for the current frame
  and a delivery is still missing. Counting the replicas (which are finitely many) turns the missing
  delivery into a replica that has yet to ask.

There is one lemma for each action. `CompletingKeepsBooks` is where the counts are used: the deliveries are one fewer
than the active replicas, so those that have the frame are all but the master, and after both toggles turn
nobody has the next one.

`TypeCorrect` (`[]TypeOK`) holds in spite of the mishaps. That the count of replicas is natural rests on `Remaining` (it is
those alive and those whose removal is on the stack), that a frame is copied from the buffer of a replica on
`MasterKnown`: replicas may wait without a master only after the source has closed, and then nothing is delivered.

`PkgReceiverProofs` proves of the ARQ, for any sizes of NALUs, of the ring and of the window, any number of
requests and any countdown, `WholeNalusGiven` (`NalusAreWhole`), `NalusInOrder` (`[]InOrder`), `OnlyGivenUpSkipped`
(`[]SkippedIfGivenUp`) and `ProtocolTypeCorrect`. None of the properties is inductive, for each step of the code looks
at slots and distances around the ring, which say nothing of what was sent in them. The invariant `ProtocolInv`
says what they stand for:

* `Sound`: what is in a slot was sent in it, and there are records of requests for slots only. A NALU is whole
  because no slot is used for two packets (`SlotsApart`, `RemaindersDiffer`);
* `At`: the head is the slot of the first packet of a NALU, or the one behind the last NALU. This is why
  `current_nalu_pkg_count()` counts the packets of one NALU (`NaluSlotsOf`, `TakenOf`);
* `Covered`, unless misled: head, tail and current slot are those of packets that were sent, the tail within the window
  after the head, and each packet between them is here, asked for or given up, and so is what lies up to the
  current one, unless that is before the head or beyond the window. The last is why a packet that
  follows the current one, and so looks as if nothing were missing, may become the tail;
* `Chain`, unless misled: from the NALU given last, through those given now, to the one at the head each is later than
  the one before, and each NALU between two of them has a packet that was given up. The first NALU after a
  reset may be any.

`Comparisons` says when the three comparisons of distances in `handle_lost()` tell before from after: as long as the
tail is within a window of the head, and no packet is late by half the ring. `Arrived` is what a packet makes of
the buffer, by the four cases of `handle_normal_pkg()` and `handle_lost()`; `Moved` is what `move_to_next_head()`
does when it does something; `After` is `scan_pkg()`: it leaves the buffer, gives, or skips a NALU of which a packet is
neither here nor asked for, and so was given up (`LostIsGivenUp`). The loop of `combine_callback()` is
a recursive function, and its invariant (`InLoop`) is shown for every number of rounds by well-founded
induction (`LoopBegins`, `LoopGoesOn`, `ResultOK`). `AfterHandled` then follows all of `run()`, with requests sent and
given up, for each action that ends in it.

`PkgReceiverProofs` proves of the live source, for any length of the queues and any number of sources and units,
`SourcesOutliveTheirUse` (`[]UsedWhileAlive`) and `NothingIsLostBetweenThreads` (`[]NoneLostOnTheWay`). The invariant is

    IInv == TypeOK /\ Owners /\ Polling /\ Queues

* `Owners`: a source that a thread has in its hands exists, a source is freed only while the receiver is
  outside its lock and nothing is registered, and the two locks of a queue exclude each other;
* `Polling`: at most one task of a source is scheduled, and none while the loop is polling it.
  This is why `~Medium()`, which knows of one task, is enough;
* `Queues`: `NoneLostOnTheWay`, and that the unit the receiver has is newer than any in a queue.

`PullClientsProofs` proves, for any number of clients and of subsessions, `ClientsAreAccountedFor`
(`[]RunsUntilAllEnded`), `NothingStays` (`[]NothingLeftBehind`) and `TypeCorrect`. The invariant is

    IInv == TypeOK /\ \A w \in Workers : Sound(clients[w])
            /\ Open \subseteq 1 .. opened /\ rtspClientCount = Cardinality(Open)
            /\ (exited <=> opened > 0 /\ Open = {})

`Sound` says of a client by itself that something is due for it exactly while it is open (but for
`unheard`), and that whatever the server has set up has a sink or was taken for failed: without the last a client that
plays might have nobody to wait for, and one that is shut down nothing that makes it send TEARDOWN. There are
three lemmas on what becomes of a client in a handler's hands (`ShutdownKeeps`, `GoesOnKeeps`, `SetupNextKeeps`)
and one for each action that ends in them.

Assumed: for the ARQ `BufferAssumption` (the ring has at least four windows; in the code it has 32) and
`ProtocolAssumption`: a late packet is late by less than half the ring, and the packets looked at fit into the ring,
so no slot is used twice. For the server `ServerAssumption` (NULL is no number and no object, a socket number is not that of UDP, the bounds
are positive); for the event loop `SchedulerAssumption`; for the replicator `ReplicatorAssumption` (finitely many replicas); for the live source
`SourceAssumption` (a queue has room for one unit); for the pull program `PullAssumption` (at least one client,
at least one subsession); for the timers only `DelayAssumption` of `DelayQueue`: delays are integers (negative ones are taken for
zero by the code), and no delay reaches ETERNITY within the time looked at, which for ETERNITY
= 2^31 - 1 seconds no program does. For the client `ClientAssumption`, of which the proof of
`NoRequestForgotten` uses that `MaxRequests` is a natural number, and that of `TypeCorrect` that `MaxResends` is one
too. For RTP reception `PacketAssumption` (an even range of sequence numbers, packets numbered from 1, kinds that H.264
has), `SenderAssumption`, and, as a hypothesis of each theorem, `~SsrcChangesAny`: a sender changes its SSRC only while no
packet waits, without which the ASSERT quoted at the end of section 5 fails.

`MultiFramedRTPSourceProofs` proves `TypeCorrect`, `OrderIsRestored` (`[]OrderRestored`),
`DescriptorHasOneHolder` (`[]OneHolder`) and `WholeFramesAreDelivered` (`[]FramesAreWhole`), for any
sequence of packets, any loss and any delay that `MayArrive` admits, and any even range of sequence numbers. The invariant is

    TypeOK /\ ListInOrder /\ ExpectedAgrees /\ HolderInv /\ ClientInv /\ FillInv /\ HandedInv

* `ListInOrder`: what waits is of one sender, in its order, and lies in the half of the circle that begins after the packet
  handed on last. The comparison of two sequence numbers is then that of the numbers (`CompareIsTrue`), which
  is why the list, put together by comparisons alone, is sorted;
* `ExpectedAgrees`: `fNextExpectedSeqNo` is the number after the packet handed on last, or that of a head used in part;
* `HolderInv`: one of the free list, the reading handler and the list has the descriptor that is kept;
* `FillInv`, `HandedInv`: the frame being filled ends with the packet handed on last, or nothing was filled since a
  loss; what the client was given is the fragments of one unit with nothing between them missing.

`RTSPServerProofs` proves `ReferencesAreTrue` (`[]ReferencesAgree`), `LiveStreamIsServed` (`[]LiveStreamIsFed`),
`NobodyIsDisturbed` (`OthersUndisturbed`) and `TypeCorrect`, for each of the three programs and any number of connections,
sockets, sessions, tracks, media, streams and nested descriptions. The inductive invariant is

    IInv == Others /\ SessionsSound /\ MediaSound(media, fServerMediaSessions, UsesMap)
            /\ StreamsSound(streams, fLastStreamToken, TokenMap, MediaMap)
            /\ DestinationsSound(streams, destinations, TokenMap, SocketMap)
            /\ NotesSound(destinations, fTCPStreamingDatabase, TokenMap, SocketMap, stale)
            /\ NotedAreConnected /\ LiveStreamIsFed

`TokenMap`, `MediaMap`, `SocketMap` give, of each track that is set up, the stream, media and socket it refers to; `UsesMap`
counts what refers to each media. The parts are said of such functions, rather than of the variables, because
a SETUP of a track that was set up before undoes the old one and goes on with what is left: `DeletedSound` establishes
them of the tables `deleteStream()` leaves, before `sessions` has changed, and `StreamSound` takes them from there through
`getStreamParameters()`. Three things are not in the properties and make them inductive:

* `StreamsSound`: every stream is referred to by a track, and if the source is shared there is one for each track of the
  media. Since every stream has a track, and the one that is set up has none, there is always room for a stream
  (`RoomForStream`, a pigeonhole argument);
* `DestinationsSound`: a stream is sent to destinations of its own tracks only. This is why deleting
  tracks disturbs no other client;
* `NotesSound`: a track without a stream has no socket, so no old note is left of a track when it is set up;
  `MediaSound`: live media are never to be deleted, so that all live streams are of the same.

References are counted by lemmas on what one session, description or track more or less makes of a cardinality
(`OneSessionMore`, `OneDescriptionLess`, `ReferencesLeft`, `OneReferenceMore`, `GivenUpSound`). Teardown, timeout and a closed
connection share `TracksGone`, as they share `DeleteTracks`; there is one lemma for each action.

## 7. Only model-checked

* What needs fairness or ENABLED, which are beyond the prover: liveness of the event loop, that every frame
  is given once and that deliveries end (replicator), that readers of the live source are served.

## 8. Not modelled, and why

* `DelayQueue::updateEntry()` has no caller; destructors run when the program ends.
* The upper limit of 11.5 days on `select()` and `doEventLoop()`'s maximal delay, which no
  caller passes.
* Timestamps, reception statistics and RTCP; payload formats other than H.264. The time
  threshold of the reordering buffer may run out at any moment, so no bound on waiting is shown.
* Of the RTSP client: tunnelling over HTTP, a response larger than the buffer (20000 bytes),
  responses without a CSeq, requests of the server, `reset()` by the program,
  `changeResponseHandler()`, request records without a handler, and the contents of messages.
* Trigger client data (a pointer per trigger).
* Of the server: tunnelling over HTTP, REGISTER, authentication, requests in pieces or several at
  once, SETUP of a track that does not exist, multicast, the nested loops inside the look-up of
  Matroska and program stream files.
* Of replication: `detachInputSource()`, which nobody calls, and frames that do not fit.
* Of the ARQ: several senders, the rewriting of addresses, statistics. The sender template of the build
  without LEIZHOU has unbalanced braces and cannot be built.
* Of `wis_live`: the callback for all names, several senders, and the start and end of the receiver thread.
* The push program: a chain of requests over the client, each with an event loop of its own;
  `RTSPClient` lets its program do all that it does, in any order, but what it makes of the responses is
  not in a model. Of the pull program: what the sinks receive and the parsing of descriptions.
* RTCP: reports and reception statistics have no control that another part depends on; BYE is an event
  of `PullClients`.
* Parts listed as not modelled in `PROJECT.json`: third-party code (Foundation), main programs,
  socket calls; and the parts the plan below has left.

## 9. Plan

Done: timer queue (checked, invariant and refinement proved), event loop (checked, invariants proved), RTP
reception, RTSP client, server sessions, stream replication, ARQ, live source and pull program (checked, their
invariants proved). What would come next, in this order:

1. `PushClient`: `DarwinInjector` with a loop of its own in every call, and no timeout in it.
2. The rest of the client: HTTP tunnelling and the response that fills the buffer; RTP and RTCP
   interleaved on the connection of RTSP (`RTPInterface.cpp`), which the server's notes on TCP sockets
   are about.
3. Proofs: the ARQ with more packets than the ring has slots, where a slot is used again.
