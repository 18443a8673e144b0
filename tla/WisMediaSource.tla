--------------------------- MODULE WisMediaSource ---------------------------
(***************************************************************************)
(* wis_live: how NAL units ("nalus") pass from the thread of the receiver  *)
(* (Pkg_Receiver) to the event loop, through the queue of a source         *)
(* (Wis_Media_Source) that is registered as the callback of its stream.    *)
(*                                                                         *)
(* There are two threads and two kinds of locks.  The receiver holds its   *)
(* _mutex while it looks for the callback and runs it; the event loop takes*)
(* it to register a source and to give the registration up.  Both take the *)
(* _mutex of a source for its queue.  _started is read without a lock.     *)
(*                                                                         *)
(* One name is modelled.  Several sources may have it: the first           *)
(* description of a stream makes one of its own.  The last one registered  *)
(* is given what is received, and any that closes takes the registration   *)
(* away (what follows from that for clients is in RTSPServer).             *)
(***************************************************************************)
EXTENDS Integers, FiniteSets, SequencesExt

CONSTANTS
    _max_nalu_queue,
    MaxNalus,      \* how many nalus are received
    MaxSources,    \* how many sources are made
    NULL

ASSUME SourceAssumption ==
    /\ _max_nalu_queue \in Nat \ {0} /\ MaxNalus \in Nat /\ MaxSources \in Nat
    /\ NULL \notin Nat

VARIABLES
    created,       \* how many sources were made: the last one's number
    sources,       \* those that exist
    polls,         \* the tasks of each source that the event loop has scheduled
    callback,      \* the source registered under the name, or NULL
    received,      \* how many nalus were received: the last one's number
    receiver,      \* where the thread of the receiver is, and the source it calls
    loop           \* where the event loop is, the source, and the nalu it holds

vars == <<created, sources, polls, callback, received, receiver, loop>>

Sources == 1 .. MaxSources
Nalus == 1 .. MaxNalus
Live == DOMAIN sources

NewSource ==
    [_started |-> FALSE, _buf_list |-> <<>>,
     awaiting |-> FALSE,     \* fIsCurrentlyAwaitingData
     inserted |-> {},        \* history: the nalus that came into the queue,
     given |-> {},           \* those that were handed to the reader,
     discarded |-> {}]       \* and those that gave way to newer ones

Holding(at, s, nalu) == [at |-> at, source |-> s, nalu |-> nalu]
Point(at, s) == Holding(at, s, NULL)
Idle == Point("idle", NULL)

Init ==
    /\ created = 0
    /\ sources = <<>>
    /\ polls = [s \in Sources |-> 0]
    /\ callback = NULL
    /\ received = 0
    /\ receiver = Idle
    /\ loop = Idle

\* Who holds the locks follows from where the threads are.
_mutexHeld == receiver.at # "idle"
InsertHolds(s) == receiver.at = "insert" /\ receiver.source = s
PopHolds(s) == loop.at = "popped" /\ loop.source = s

-----------------------------------------------------------------------------
(***************************************************************************)
(* The thread of the receiver.                                             *)
(***************************************************************************)

\* combine_callback() has a nalu: it takes _mutex and looks for the callback.
NaluReceived ==
    /\ receiver.at = "idle" /\ received < MaxNalus
    /\ received' = received + 1
    /\ receiver' = IF callback = NULL THEN Idle ELSE Point("callback", callback)
    /\ UNCHANGED <<created, sources, polls, callback, loop>>

\* insert_nalu(), as far as the lock.
CallBack ==
    /\ receiver.at = "callback"
    /\ receiver' = IF sources[receiver.source]._started
                   THEN Point("lock", receiver.source) ELSE Idle
    /\ UNCHANGED <<created, sources, polls, callback, received, loop>>

\* Mutant: the queue is changed without its lock.
QueueNotLocked ==
    /\ receiver.at = "lock"
    /\ receiver' = Point("insert", receiver.source)
    /\ UNCHANGED <<created, sources, polls, callback, received, loop>>

LockQueue ==
    /\ receiver.at = "lock" /\ ~PopHolds(receiver.source)
    /\ receiver' = Point("insert", receiver.source)
    /\ UNCHANGED <<created, sources, polls, callback, received, loop>>

\* The oldest nalu gives way when the queue is full.  Both locks are released.
Insert ==
    /\ receiver.at = "insert"
    /\ LET source == sources[receiver.source]
           queue == source._buf_list
           full == Len(queue) >= _max_nalu_queue
       IN  sources' =
               [sources EXCEPT ![receiver.source] =
                   [source EXCEPT
                       !._buf_list =
                           Append(IF full THEN Tail(queue) ELSE queue, received),
                       !.inserted = @ \cup {received},
                       !.discarded = IF full THEN @ \cup {Head(queue)} ELSE @]]
    /\ receiver' = Idle
    /\ UNCHANGED <<created, polls, callback, received, loop>>

ReceiverStep == CallBack \/ LockQueue \/ Insert

-----------------------------------------------------------------------------
(***************************************************************************)
(* The event loop: a source is made, read, stopped and closed.             *)
(***************************************************************************)

\* createNewStreamSource(), which calls start_source().
Create ==
    /\ loop = Idle /\ created < MaxSources
    /\ created' = created + 1
    /\ sources' = [s \in Live \cup {created'} |->
                      IF s = created' THEN NewSource ELSE sources[s]]
    /\ loop' = Point("register", created')
    /\ UNCHANGED <<polls, callback, received, receiver>>

\* set_callback(_name, &nalu_callback), which takes _mutex.
Register ==
    /\ loop.at = "register" /\ ~_mutexHeld
    /\ callback' = loop.source
    /\ loop' = Point("start", loop.source)
    /\ UNCHANGED <<created, sources, polls, received, receiver>>

Start ==
    /\ loop.at = "start"
    /\ sources' = [sources EXCEPT ![loop.source]._started = TRUE]
    /\ loop' = Idle
    /\ UNCHANGED <<created, polls, callback, received, receiver>>

\* Where getNextFrame1() goes, as far as the lock of pop_nalu().
GetNextFrame1(s) == IF sources[s]._started THEN Point("pop", s) ELSE Idle

\* getNextFrame() of the reader, which reads once at a time.
GetNextFrame(s) ==
    /\ loop = Idle /\ ~sources[s].awaiting
    /\ sources' = [sources EXCEPT ![s].awaiting = TRUE]
    /\ loop' = GetNextFrame1(s)
    /\ UNCHANGED <<created, polls, callback, received, receiver>>

\* The task of nextTask() runs.
PollFires(s) ==
    /\ loop = Idle /\ polls[s] > 0
    /\ polls' = [polls EXCEPT ![s] = @ - 1]
    /\ loop' = GetNextFrame1(s)
    /\ UNCHANGED <<created, sources, callback, received, receiver>>

\* Mutant: nothing is scheduled when the queue is empty.
PopGivesUp ==
    /\ loop.at = "pop" /\ ~InsertHolds(loop.source)
    /\ LET queue == sources[loop.source]._buf_list
       IN  loop' = IF queue = <<>> THEN Idle
                   ELSE Holding("popped", loop.source, Head(queue))
    /\ UNCHANGED <<created, sources, polls, callback, received, receiver>>

\* Mutant: pop_nalu() waits for a nalu.
PopWaits ==
    /\ loop.at = "pop" /\ ~InsertHolds(loop.source)
    /\ sources[loop.source]._buf_list # <<>>
    /\ loop' = Holding("popped", loop.source, Head(sources[loop.source]._buf_list))
    /\ UNCHANGED <<created, sources, polls, callback, received, receiver>>

\* pop_nalu() has the lock.  It copies the first nalu, or lets the event loop
\* try again later.
Pop ==
    /\ loop.at = "pop" /\ ~InsertHolds(loop.source)
    /\ LET queue == sources[loop.source]._buf_list
       IN  IF queue = <<>>
           THEN /\ polls' = [polls EXCEPT ![loop.source] = @ + 1]
                /\ loop' = Idle
           ELSE /\ loop' = Holding("popped", loop.source, Head(queue))
                /\ UNCHANGED polls
    /\ UNCHANGED <<created, sources, callback, received, receiver>>

\* It takes what is then the first nalu out, and releases the lock.
PopFront ==
    /\ loop.at = "popped"
    /\ sources' = [sources EXCEPT ![loop.source]._buf_list = Tail(@)]
    /\ loop' = Holding("deliver", loop.source, loop.nalu)
    /\ UNCHANGED <<created, polls, callback, received, receiver>>

\* getNextFrame1() copies to the buffer of the reader and calls afterGetting().
Deliver ==
    /\ loop.at = "deliver"
    /\ LET source == sources[loop.source]
       IN  sources' = [sources EXCEPT ![loop.source] =
                          [source EXCEPT !.awaiting = FALSE,
                                         !.given = @ \cup {loop.nalu}]]
    /\ loop' = Idle
    /\ UNCHANGED <<created, polls, callback, received, receiver>>

\* stopGettingFrames().  A task that is scheduled stays so.
StopGettingFrames(s) ==
    /\ loop = Idle
    /\ sources' = [sources EXCEPT ![s] =
                      [@ EXCEPT !.awaiting = FALSE, !._started = FALSE]]
    /\ UNCHANGED <<created, polls, callback, received, receiver, loop>>

\* Medium::close(), of a source that no one reads: the sink has stopped.
Close(s) ==
    /\ loop = Idle /\ ~sources[s].awaiting
    /\ loop' = Point("unregister", s)
    /\ UNCHANGED <<created, sources, polls, callback, received, receiver>>

\* Mutant: the map of callbacks is changed without its lock.
UnregisterUnlocked ==
    /\ loop.at = "unregister"
    /\ callback' = NULL
    /\ loop' = Point("free", loop.source)
    /\ UNCHANGED <<created, sources, polls, received, receiver>>

\* ~Wis_Media_Source(): set_callback(_name, NULL), which takes _mutex.
Unregister ==
    /\ loop.at = "unregister" /\ ~_mutexHeld
    /\ callback' = NULL
    /\ loop' = Point("free", loop.source)
    /\ UNCHANGED <<created, sources, polls, received, receiver>>

\* Mutant: a task is unscheduled that is not there.
FreeAlwaysUnschedules ==
    /\ loop.at = "free"
    /\ sources' = Restrict(sources, Live \ {loop.source})
    /\ polls' = [polls EXCEPT ![loop.source] = @ - 1]
    /\ loop' = Idle
    /\ UNCHANGED <<created, callback, received, receiver>>

\* The object goes, and with ~Medium() the task that was scheduled last.
Free ==
    /\ loop.at = "free"
    /\ sources' = Restrict(sources, Live \ {loop.source})
    /\ polls' = [polls EXCEPT ![loop.source] = IF @ = 0 THEN 0 ELSE @ - 1]
    /\ loop' = Idle
    /\ UNCHANGED <<created, callback, received, receiver>>

LoopStep == Register \/ Start \/ Pop \/ PopFront \/ Deliver \/ Unregister \/ Free

ClientStep ==
    \/ Create
    \/ \E s \in Live : GetNextFrame(s) \/ StopGettingFrames(s) \/ Close(s)

Next ==
    \/ NaluReceived \/ ReceiverStep
    \/ LoopStep \/ ClientStep
    \/ \E s \in Sources : PollFires(s)

Spec == Init /\ [][Next]_vars

\* Both threads run and get the locks they wait for, and a task runs when it is
\* due, whatever else the event loop has to do (AlarmServed of TaskScheduler).
\* Nothing makes a nalu arrive or a client call.
Fairness ==
    /\ WF_vars(ReceiverStep) /\ WF_vars(LoopStep)
    /\ \A s \in Sources : SF_vars(PollFires(s))

FairSpec == Spec /\ Fairness

-----------------------------------------------------------------------------
SourceRecords ==
    [_started : BOOLEAN, _buf_list : Seq(Nalus), awaiting : BOOLEAN,
     inserted : SUBSET Nalus, given : SUBSET Nalus, discarded : SUBSET Nalus]

\* The variables have their types.
TypeOK ==
    /\ created \in 0 .. MaxSources /\ received \in 0 .. MaxNalus
    /\ Live \subseteq 1 .. created /\ callback \in Sources \cup {NULL}
    /\ polls \in [Sources -> Nat]
    /\ \A s \in Live : sources[s] \in SourceRecords
    /\ receiver \in [at : {"idle", "callback", "lock", "insert"},
                     source : Sources \cup {NULL}, nalu : {NULL}]
    /\ loop \in [at : {"idle", "register", "start", "pop", "popped", "deliver",
                       "unregister", "free"},
                 source : Sources \cup {NULL}, nalu : Nalus \cup {NULL}]

\* Neither thread uses a source that is gone: not the receiver, in whichever
\* step of the callback it is when the event loop deletes the source, and not
\* a task of the source, although doStopGettingFrames() leaves it scheduled and
\* ~Medium() knows of one only.  Nor is a nalu copied to a buffer that a reader
\* has not given, or no longer waits for.
UsedWhileAlive ==
    /\ receiver.source # NULL => receiver.source \in Live
    /\ callback # NULL => callback \in Live
    /\ \A s \in Sources : polls[s] > 0 => s \in Live
    /\ loop.at = "deliver" => sources[loop.source].awaiting

\* What the event loop has copied out of the queue of a source, and what is
\* still to come.
Held(s) == IF loop.source = s /\ loop.nalu # NULL THEN {loop.nalu} ELSE {}
Waiting(s) == IF PopHolds(s) THEN Tail(sources[s]._buf_list)
              ELSE sources[s]._buf_list

\* The two threads together lose no nalu of a source's queue, and give none
\* twice or in another order: what was put in was given, is being given, waits,
\* or gave way when the queue was full.
NoneLostOnTheWay ==
    \A s \in Live :
        LET source == sources[s]
            waiting == Waiting(s)
            gone == source.given \cup Held(s)
        IN  /\ source.inserted = gone \cup source.discarded \cup ToSet(waiting)
            /\ gone \cap source.discarded = {}
            /\ \A i, j \in DOMAIN waiting : i < j => waiting[i] < waiting[j]
            /\ \A early \in gone \cup source.discarded, late \in ToSet(waiting) :
                  early < late

\* A reader of a source that was not stopped is not left waiting while there is
\* something in the queue, whenever it came in.
ReaderIsServed ==
    \A s \in Sources :
        s \in Live /\ sources[s].awaiting /\ sources[s]._started
            /\ sources[s]._buf_list # <<>>
        ~> s \notin Live \/ ~sources[s].awaiting

\* Neither thread waits for ever for the other, or for what does not come.
ThreadsGoOn ==
    /\ receiver # Idle ~> receiver = Idle
    /\ loop # Idle ~> loop = Idle
=============================================================================
