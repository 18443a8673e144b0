--------------------------- MODULE TaskScheduler ---------------------------
(***************************************************************************)
(* The live555 event loop: BasicTaskScheduler::SingleStep() with its       *)
(* socket handlers, event triggers and alarms, and the operations that a   *)
(* handler may call while it runs.                                         *)
(*                                                                         *)
(* One thread runs the loop.  A handler may run the loop again inside      *)
(* itself (doEventLoop(&watchVariable)), so the state of the loop is a     *)
(* stack of activations of SingleStep().  Other threads may call           *)
(* triggerEvent(); they share fTriggersAwaitingHandling with the loop      *)
(* without a lock, so the read and the write of their "|=" and of the      *)
(* "&=~" in SingleStep() are steps of their own.  (A handler's own         *)
(* triggerEvent() and deleteEventTrigger() are one step each: they race    *)
(* with other threads in no other way than SingleStep() does.)             *)
(*                                                                         *)
(* Of the timer queue only what DelayQueue is shown to implement           *)
(* (AlarmService) is kept: alarms come due in some order and are served    *)
(* in that order.                                                          *)
(***************************************************************************)
EXTENDS Integers, FiniteSets, SequencesExt

CONSTANTS
    Sockets,         \* the socket numbers in use
    Conditions,      \* SOCKET_READABLE, SOCKET_WRITABLE, SOCKET_EXCEPTION
    NumTriggers,     \* MAX_NUM_EVENT_TRIGGERS
    Tasks,           \* delayed tasks of the program
    Tick,            \* the delayed task schedulerTickTask
    Threads,         \* external threads that call triggerEvent()
    Interrupts,      \* whether select() may fail with EINTR
    FD_SETSIZE,      \* select() takes no socket with a number as large as this
    MaxNesting,      \* bound: activations of SingleStep() at once
    MaxChanges,      \* bound: how often handlers change what is registered ...
    Endless          \* ... unless they never stop: what they change then,
                     \* sets of "sockets" and "triggers"

ASSUME SchedulerAssumption ==
    /\ Sockets \subseteq Int
    /\ FD_SETSIZE \in Nat
    /\ NumTriggers \in Nat \ {0}
    /\ Tick \notin Tasks
    /\ MaxNesting \in Nat \ {0}
    /\ MaxChanges \in Nat
    /\ Endless \subseteq SUBSET {"sockets", "triggers"}
    /\ Interrupts \in BOOLEAN

VARIABLES
    ready,           \* the conditions that hold, pairs <<socket, condition>>
    fdSet,           \* fReadSet, fWriteSet, fExceptionSet: the pairs watched
    fHandlers,       \* HandlerSet: descriptors [sock, conds], in list order
    fMaxNumSockets,
    fLastHandledSocketNum,
    fTriggeredEventHandlers,    \* the trigger numbers that have a handler
    fTriggersAwaitingHandling,  \* the trigger numbers whose bit is set
    fLastUsedTriggerNum,        \* with fLastUsedTriggerMask, always its bit
    sleeping,        \* alarms not yet due
    due,             \* alarms that are due, in the order of the queue
    loop,            \* stack of activations of SingleStep(), innermost last
    external,        \* what each external thread is doing
    owed,            \* history: triggers raised, neither handled nor deleted
    changes          \* which registrations handlers change, how often still

socketVars == <<ready, fdSet, fHandlers, fMaxNumSockets, fLastHandledSocketNum>>
triggerVars == <<fTriggeredEventHandlers, fTriggersAwaitingHandling,
                 fLastUsedTriggerNum, owed>>
alarmVars == <<sleeping, due>>
vars == <<socketVars, triggerVars, alarmVars, loop, external, changes>>

Triggers == 0..NumTriggers - 1
NoTrigger == -1

Alarms == Tasks \cup {Tick}

-----------------------------------------------------------------------------
(***************************************************************************)
(* Activations of SingleStep().                                            *)
(***************************************************************************)

\* Where a handler runs; "program" is the code before doEventLoop() is called.
HandlerPoints == {"program", "socketHandler", "onlyTriggerHandler",
                  "triggerHandler", "alarmHandler"}
LoopPoints == {"select", "sockets", "triggers", "scan", "load", "store", "alarms"}

\* result: what select() reported; trigger: the trigger looked at; word: the
\* value of fTriggersAwaitingHandling that "&=" has read; only: whether the
\* branch for a single trigger is taken.
Activation(at) == [at |-> at, result |-> {}, trigger |-> NoTrigger,
                   word |-> {}, only |-> FALSE]

Top == Last(loop)
At(point) == Top.at = point
InHandler == Top.at \in HandlerPoints
GoTo(point) == loop' = [loop EXCEPT ![Len(loop)].at = point]
Set(activation) == loop' = [loop EXCEPT ![Len(loop)] = activation]

\* How handlers change registrations: MaxChanges times, or some for ever.
NoEnd == -1

PlanSet == [of : SUBSET {"sockets", "triggers"}, left : {NoEnd} \cup 0..MaxChanges]

Plans ==
    {[of |-> {"sockets", "triggers"}, left |-> MaxChanges]}
        \cup {[of |-> kinds, left |-> NoEnd] : kinds \in Endless}

Init ==
    /\ ready = {} /\ fdSet = {} /\ fHandlers = <<>>
    /\ fMaxNumSockets = 0 /\ fLastHandledSocketNum = -1
    /\ fTriggeredEventHandlers = {} /\ fTriggersAwaitingHandling = {}
    /\ fLastUsedTriggerNum = NumTriggers - 1
    /\ sleeping = {Tick} /\ due = <<>>
    /\ loop = <<Activation("program")>>
    /\ external = [t \in Threads |-> <<>>]
    /\ owed = {} /\ changes \in Plans

-----------------------------------------------------------------------------
(***************************************************************************)
(* SingleStep(), first part: select() and one socket handler.              *)
(***************************************************************************)

\* select() looks at the sockets below its first argument only.
Selectable == {p \in fdSet : p[1] < fMaxNumSockets}

\* select() returns when a watched condition holds or an alarm is due.
Select ==
    /\ At("select")
    /\ Selectable \cap ready # {} \/ due # <<>>
    /\ Set([Top EXCEPT !.at = "sockets", !.result = Selectable \cap ready])
    /\ UNCHANGED <<socketVars, triggerVars, alarmVars, external, changes>>

\* select() fails with EINTR: it leaves the three sets as they were passed
\* in, and SingleStep() goes on with them.
SelectInterrupted ==
    /\ Interrupts
    /\ At("select")
    /\ Set([Top EXCEPT !.at = "sockets", !.result = fdSet])
    /\ UNCHANGED <<socketVars, triggerVars, alarmVars, external, changes>>

\* The conditions for which the handler at position i would be called.
ResultConditionSet(i) ==
    {c \in fHandlers[i].conds :
        <<fHandlers[i].sock, c>> \in Top.result \cap fdSet}

Callable == {i \in 1..Len(fHandlers) : ResultConditionSet(i) # {}}

\* lookupHandler(): the first descriptor of the socket, 0 when it has none.
LookupHandler(sock) ==
    SelectInSeq(fHandlers, LAMBDA h : h.sock = sock)

\* Mutant: every search starts at the beginning.
FirstHandler == Min(Callable)

\* The first search begins past the last socket handled, the second one at
\* the beginning; so does the first if that socket has no handler any more.
NextHandler ==
    LET past == {i \in Callable : i > LookupHandler(fLastHandledSocketNum)}
    IN  IF past # {} THEN Min(past) ELSE Min(Callable)

\* The handler is called.  It may or may not take what made it ready.
CallSocketHandler ==
    /\ At("sockets")
    /\ Callable # {}
    /\ LET sock == fHandlers[NextHandler].sock
       IN  /\ fLastHandledSocketNum' = sock
           /\ \E left \in SUBSET {p \in ready : p[1] = sock} :
                 ready' = {p \in ready : p[1] # sock} \cup left
    /\ GoTo("socketHandler")
    /\ UNCHANGED <<fdSet, fHandlers, fMaxNumSockets, triggerVars, alarmVars,
                   external, changes>>

\* No handler could be called: both searches came to the end.
NoSocketHandler ==
    /\ At("sockets")
    /\ Callable = {}
    /\ fLastHandledSocketNum' = -1
    /\ GoTo("triggers")
    /\ UNCHANGED <<ready, fdSet, fHandlers, fMaxNumSockets, triggerVars,
                   alarmVars, external, changes>>

-----------------------------------------------------------------------------
(***************************************************************************)
(* SingleStep(), second part: one event trigger.                           *)
(***************************************************************************)

\* Mutant: the search always starts at trigger 0.
LookFromFirst ==
    /\ At("triggers")
    /\ CASE fTriggersAwaitingHandling = {} -> GoTo("alarms")
         [] fTriggersAwaitingHandling = {fLastUsedTriggerNum} ->
                Set([Top EXCEPT !.at = "load", !.only = TRUE,
                                !.trigger = fLastUsedTriggerNum])
         [] OTHER ->
                Set([Top EXCEPT !.at = "scan", !.only = FALSE,
                                !.trigger = NumTriggers - 1])
    /\ UNCHANGED <<socketVars, triggerVars, alarmVars, external, changes>>

\* "fTriggersAwaitingHandling == fLastUsedTriggerMask": no search needed.
LookAtTriggers ==
    /\ At("triggers")
    /\ CASE fTriggersAwaitingHandling = {} -> GoTo("alarms")
         [] fTriggersAwaitingHandling = {fLastUsedTriggerNum} ->
                Set([Top EXCEPT !.at = "load", !.only = TRUE,
                                !.trigger = fLastUsedTriggerNum])
         [] OTHER ->
                Set([Top EXCEPT !.at = "scan", !.only = FALSE,
                                !.trigger = fLastUsedTriggerNum])
    /\ UNCHANGED <<socketVars, triggerVars, alarmVars, external, changes>>

\* One turn of the search, which starts past the trigger used last.
ScanTriggers ==
    /\ At("scan")
    /\ LET i == (Top.trigger + 1) % NumTriggers
       IN  Set([Top EXCEPT
                   !.trigger = i,
                   !.at = IF i \in fTriggersAwaitingHandling THEN "load"
                          ELSE IF i = fLastUsedTriggerNum THEN "alarms"
                          ELSE "scan"])
    /\ UNCHANGED <<socketVars, triggerVars, alarmVars, external, changes>>

\* "fTriggersAwaitingHandling &=~ mask": the read ...
LoadTriggers ==
    /\ At("load")
    /\ Set([Top EXCEPT !.at = "store", !.word = fTriggersAwaitingHandling])
    /\ UNCHANGED <<socketVars, triggerVars, alarmVars, external, changes>>

\* Mutant: all bits are cleared, and one trigger is handled.
StoreNothing ==
    /\ At("store")
    /\ fTriggersAwaitingHandling' = {}
    /\ owed' = owed \ {Top.trigger}
    /\ GoTo(IF Top.trigger \in fTriggeredEventHandlers THEN "triggerHandler"
            ELSE "alarms")
    /\ UNCHANGED <<socketVars, fTriggeredEventHandlers, fLastUsedTriggerNum,
                   alarmVars, changes, external>>

\* ... and the write, after which the handler is called if there is one.
StoreTriggers ==
    /\ At("store")
    /\ fTriggersAwaitingHandling' = Top.word \ {Top.trigger}
    /\ owed' = owed \ {Top.trigger}
    /\ IF Top.trigger \in fTriggeredEventHandlers
       THEN /\ GoTo(IF Top.only THEN "onlyTriggerHandler" ELSE "triggerHandler")
            /\ UNCHANGED fLastUsedTriggerNum
       ELSE /\ GoTo("alarms")
            /\ fLastUsedTriggerNum' = Top.trigger
    /\ UNCHANGED <<socketVars, fTriggeredEventHandlers, alarmVars, external,
                   changes>>

-----------------------------------------------------------------------------
(***************************************************************************)
(* SingleStep(), third part: one alarm (DelayQueue::handleAlarm()).        *)
(***************************************************************************)

NoAlarm ==
    /\ At("alarms")
    /\ due = <<>>
    /\ Set(Activation("select"))
    /\ UNCHANGED <<socketVars, triggerVars, alarmVars, external, changes>>

\* schedulerTickTask() asks for itself again and returns.
TickAlarm ==
    /\ At("alarms")
    /\ due # <<>> /\ Head(due) = Tick
    /\ due' = Tail(due)
    /\ sleeping' = sleeping \cup {Tick}
    /\ Set(Activation("select"))
    /\ UNCHANGED <<socketVars, triggerVars, external, changes>>

TaskAlarm ==
    /\ At("alarms")
    /\ due # <<>> /\ Head(due) \in Tasks
    /\ due' = Tail(due)
    /\ GoTo("alarmHandler")
    /\ UNCHANGED <<socketVars, triggerVars, sleeping, external, changes>>

-----------------------------------------------------------------------------
(***************************************************************************)
(* Handlers: how they end, and what they may call.                         *)
(***************************************************************************)

\* Control goes back to where the handler was called from.  The search for a
\* trigger notes its result only now, after the handler has run.
HandlerReturns ==
    /\ InHandler
    /\ CASE Top.at = "program" -> Set(Activation("select"))
         [] Top.at = "socketHandler" -> GoTo("triggers")
         [] Top.at \in {"onlyTriggerHandler", "triggerHandler"} -> GoTo("alarms")
         [] Top.at = "alarmHandler" -> Set(Activation("select"))
    /\ fLastUsedTriggerNum' =
           IF Top.at = "triggerHandler" THEN Top.trigger ELSE fLastUsedTriggerNum
    /\ UNCHANGED <<socketVars, fTriggeredEventHandlers, owed,
                   fTriggersAwaitingHandling, alarmVars, external, changes>>

\* doEventLoop() called by a handler, with a watch variable.
EnterEventLoop ==
    /\ InHandler /\ ~At("program")
    /\ Len(loop) < MaxNesting
    /\ loop' = Append(loop, Activation("select"))
    /\ UNCHANGED <<socketVars, triggerVars, alarmVars, external, changes>>

\* The watch variable was set: the inner doEventLoop() returns.
LeaveEventLoop ==
    /\ Len(loop) > 1 /\ At("select")
    /\ loop' = Front(loop)
    /\ UNCHANGED <<socketVars, triggerVars, alarmVars, external, changes>>

\* A handler that changes what is registered.
Change(kind) ==
    /\ InHandler
    /\ kind \in changes.of
    /\ changes.left # 0
    /\ changes' = IF changes.left = NoEnd THEN changes
                  ELSE [changes EXCEPT !.left = @ - 1]
    /\ UNCHANGED <<ready, fLastHandledSocketNum, loop, external>>

\* The checks on socket numbers: a call with any other one does nothing.
CanSelect(sock) == 0 <= sock /\ sock < FD_SETSIZE

Watching(sock, conds) == {p \in fdSet : p[1] # sock} \cup ({sock} \X conds)

\* setBackgroundHandling() with conditions: assignHandler() reuses the
\* socket's descriptor or links a new one in at the front.
EnableHandling(sock, conds) ==
    /\ Change("sockets")
    /\ CanSelect(sock)
    /\ fdSet' = Watching(sock, conds)
    /\ fHandlers' = LET i == LookupHandler(sock)
                        h == [sock |-> sock, conds |-> conds]
                    IN  IF i = 0 THEN <<h>> \o fHandlers
                        ELSE [fHandlers EXCEPT ![i] = h]
    /\ fMaxNumSockets' = Max({fMaxNumSockets, sock + 1})
    /\ UNCHANGED <<triggerVars, alarmVars>>

\* The list without the descriptor at position i, 0 being none.
Without(i) == IF i = 0 THEN fHandlers ELSE RemoveAt(fHandlers, i)

\* Mutant: fMaxNumSockets goes down with every socket that is disabled.
DisableAndLower(sock) ==
    /\ Change("sockets")
    /\ CanSelect(sock)
    /\ fdSet' = Watching(sock, {})
    /\ fHandlers' = Without(LookupHandler(sock))
    /\ fMaxNumSockets' = fMaxNumSockets - 1
    /\ UNCHANGED <<triggerVars, alarmVars>>

\* setBackgroundHandling(socketNum, 0, ...), i.e. disableBackgroundHandling().
DisableHandling(sock) ==
    /\ Change("sockets")
    /\ CanSelect(sock)
    /\ fdSet' = Watching(sock, {})
    /\ fHandlers' = Without(LookupHandler(sock))
    /\ fMaxNumSockets' = IF sock + 1 = fMaxNumSockets THEN sock
                         ELSE fMaxNumSockets
    /\ UNCHANGED <<triggerVars, alarmVars>>

\* Mutant: fMaxNumSockets does not follow the new socket.
MoveWithoutRaising(old, new) ==
    /\ Change("sockets")
    /\ CanSelect(old) /\ CanSelect(new)
    /\ LET moved == {c \in Conditions : <<old, c>> \in fdSet}
           i == LookupHandler(old)
       IN  /\ fdSet' = {p \in fdSet : p[1] # old} \cup ({new} \X moved)
           /\ fHandlers' = IF i = 0 THEN fHandlers
                           ELSE [fHandlers EXCEPT ![i].sock = new]
    /\ fMaxNumSockets' = IF old + 1 = fMaxNumSockets THEN old
                         ELSE fMaxNumSockets
    /\ UNCHANGED <<triggerVars, alarmVars>>

\* moveSocketHandling()
MoveSocketHandling(old, new) ==
    /\ Change("sockets")
    /\ CanSelect(old) /\ CanSelect(new)
    /\ LET moved == {c \in Conditions : <<old, c>> \in fdSet}
           i == LookupHandler(old)
           max == IF old + 1 = fMaxNumSockets THEN old ELSE fMaxNumSockets
       IN  /\ fdSet' = {p \in fdSet : p[1] # old} \cup ({new} \X moved)
           /\ fHandlers' = IF i = 0 THEN fHandlers
                           ELSE [fHandlers EXCEPT ![i].sock = new]
           /\ fMaxNumSockets' = Max({max, new + 1})
    /\ UNCHANGED <<triggerVars, alarmVars>>

\* Its only caller is changePort(), for a socket it has just been given by
\* the system in place of the old one, which is another number that is not
\* handled.
ChangePort(old, new) ==
    /\ new # old
    /\ LookupHandler(new) = 0
    /\ MoveSocketHandling(old, new)

\* createEventTrigger(): the first free number past the one used last; no
\* effect (and 0 returned) when all are taken.
CreateEventTrigger ==
    /\ Change("triggers")
    /\ LET free == Triggers \ fTriggeredEventHandlers
           \* how many steps past fLastUsedTriggerNum i is reached
           Distance(i) == (i - fLastUsedTriggerNum - 1) % NumTriggers
       IN  \E i \in free :
              /\ \A j \in free : Distance(i) <= Distance(j)
              /\ fTriggeredEventHandlers' = fTriggeredEventHandlers \cup {i}
              /\ fLastUsedTriggerNum' = i
    /\ UNCHANGED <<fdSet, fHandlers, fMaxNumSockets, alarmVars, owed,
                   fTriggersAwaitingHandling>>

DeleteEventTrigger(i) ==
    /\ Change("triggers")
    /\ i \in fTriggeredEventHandlers
    /\ fTriggersAwaitingHandling' = fTriggersAwaitingHandling \ {i}
    /\ fTriggeredEventHandlers' = fTriggeredEventHandlers \ {i}
    /\ owed' = owed \ {i}
    /\ UNCHANGED <<fdSet, fHandlers, fMaxNumSockets, alarmVars,
                   fLastUsedTriggerNum>>

\* triggerEvent() called by a handler.
TriggerEvent(i) ==
    /\ InHandler
    /\ i \in fTriggeredEventHandlers
    /\ fTriggersAwaitingHandling' = fTriggersAwaitingHandling \cup {i}
    /\ owed' = owed \cup {i}
    /\ UNCHANGED <<socketVars, fTriggeredEventHandlers, fLastUsedTriggerNum,
                   alarmVars, loop, external, changes>>

\* triggerEvent() called by an external thread: "|=" reads the word ...
ExternalLoad(thread, i) ==
    /\ external[thread] = <<>>
    /\ i \in fTriggeredEventHandlers
    /\ external' = [external EXCEPT ![thread] = <<i, fTriggersAwaitingHandling>>]
    /\ owed' = owed \cup {i}
    /\ UNCHANGED <<socketVars, fTriggeredEventHandlers, fLastUsedTriggerNum,
                   fTriggersAwaitingHandling, alarmVars, loop, changes>>

\* ... and writes it back.
ExternalStore(thread) ==
    /\ external[thread] # <<>>
    /\ fTriggersAwaitingHandling' = external[thread][2] \cup {external[thread][1]}
    /\ external' = [external EXCEPT ![thread] = <<>>]
    /\ UNCHANGED <<socketVars, fTriggeredEventHandlers, fLastUsedTriggerNum,
                   owed, alarmVars, loop, changes>>

\* Mutant: an alarm that is due at once comes before the others.
ScheduleFirst(task) ==
    /\ InHandler
    /\ task \notin sleeping \cup ToSet(due)
    /\ \/ sleeping' = sleeping \cup {task} /\ UNCHANGED due
       \/ due' = <<task>> \o due /\ UNCHANGED sleeping
    /\ UNCHANGED <<socketVars, triggerVars, loop, external, changes>>

\* scheduleDelayedTask(): with a zero delay the alarm is due at once, after
\* those that already are.
ScheduleDelayedTask(task) ==
    /\ InHandler
    /\ task \notin sleeping \cup ToSet(due)
    /\ \/ sleeping' = sleeping \cup {task} /\ UNCHANGED due
       \/ due' = Append(due, task) /\ UNCHANGED sleeping
    /\ UNCHANGED <<socketVars, triggerVars, loop, external, changes>>

UnscheduleDelayedTask(task) ==
    /\ InHandler
    /\ task \in sleeping \cup ToSet(due)
    /\ sleeping' = sleeping \ {task}
    /\ due' = RemoveFirst(due, task)
    /\ UNCHANGED <<socketVars, triggerVars, loop, external, changes>>

-----------------------------------------------------------------------------
(***************************************************************************)
(* The environment.                                                        *)
(***************************************************************************)

\* Whether a condition holds that nobody watches cannot be seen.
BecomesReady(sock, cond) ==
    /\ <<sock, cond>> \in fdSet
    /\ ready' = ready \cup {<<sock, cond>>}
    /\ UNCHANGED <<fdSet, fHandlers, fMaxNumSockets, fLastHandledSocketNum,
                   triggerVars, alarmVars, loop, external, changes>>

ComesDue(alarm) ==
    /\ alarm \in sleeping
    /\ sleeping' = sleeping \ {alarm}
    /\ due' = Append(due, alarm)
    /\ UNCHANGED <<socketVars, triggerVars, loop, external, changes>>

-----------------------------------------------------------------------------
SingleStep ==
    \/ Select
    \/ CallSocketHandler
    \/ NoSocketHandler
    \/ LookAtTriggers
    \/ ScanTriggers
    \/ LoadTriggers
    \/ StoreTriggers
    \/ NoAlarm
    \/ TickAlarm
    \/ TaskAlarm

HandlerCalls ==
    \/ EnterEventLoop
    \/ \E sock \in Sockets, conds \in SUBSET Conditions \ {{}} :
          EnableHandling(sock, conds)
    \/ \E sock \in Sockets : DisableHandling(sock)
    \/ \E old, new \in Sockets : ChangePort(old, new)
    \/ CreateEventTrigger
    \/ \E i \in Triggers : DeleteEventTrigger(i)
    \/ \E i \in Triggers : TriggerEvent(i)
    \/ \E task \in Tasks : ScheduleDelayedTask(task)
    \/ \E task \in Tasks : UnscheduleDelayedTask(task)

Environment ==
    \/ \E sock \in Sockets, cond \in Conditions : BecomesReady(sock, cond)
    \/ \E alarm \in Alarms : ComesDue(alarm)
    \/ \E thread \in Threads, i \in Triggers : ExternalLoad(thread, i)
    \/ \E thread \in Threads : ExternalStore(thread)

Next ==
    \/ SingleStep
    \/ SelectInterrupted
    \/ HandlerReturns
    \/ LeaveEventLoop
    \/ HandlerCalls
    \/ Environment

Spec == Init /\ [][Next]_vars

\* The loop's thread keeps running, every handler returns in the end (unless
\* it stays inside a doEventLoop() of its own), time passes, and an external
\* thread finishes the call it has begun.
Fairness ==
    /\ WF_vars(SingleStep)
    /\ SF_vars(HandlerReturns)
    /\ \A alarm \in Alarms : WF_vars(ComesDue(alarm))
    /\ \A thread \in Threads : WF_vars(ExternalStore(thread))

FairSpec == Spec /\ Fairness

-----------------------------------------------------------------------------
(***************************************************************************)
(* Properties.                                                             *)
(***************************************************************************)

Pairs == Sockets \X Conditions

TypeOK ==
    /\ ready \subseteq Pairs /\ fdSet \subseteq Pairs
    /\ fHandlers \in Seq([sock : Sockets, conds : SUBSET Conditions])
    /\ fMaxNumSockets \in Nat
    /\ fLastHandledSocketNum \in Sockets \cup {-1}
    /\ fTriggeredEventHandlers \subseteq Triggers
    /\ fTriggersAwaitingHandling \subseteq Triggers
    /\ fLastUsedTriggerNum \in Triggers
    /\ sleeping \subseteq Alarms /\ due \in Seq(Alarms)
    /\ loop # <<>>
    /\ loop \in Seq([at : HandlerPoints \cup LoopPoints, result : SUBSET Pairs,
                     trigger : Triggers \cup {NoTrigger},
                     word : SUBSET Triggers, only : BOOLEAN])
    /\ external \in [Threads -> {<<>>} \cup (Triggers \X SUBSET Triggers)]
    /\ owed \subseteq Triggers
    /\ changes \in PlanSet

\* The descriptors and the sets passed to select() tell the same story, and
\* select()'s first argument is large enough for all of them, although it is
\* only ever lowered by one and only when the largest socket goes.
EverySocketIsWatched ==
    /\ \A i, j \in 1..Len(fHandlers) :
          fHandlers[i].sock = fHandlers[j].sock => i = j
    /\ fdSet = UNION {{fHandlers[i].sock} \X fHandlers[i].conds :
                         i \in 1..Len(fHandlers)}
    /\ fdSet = Selectable

\* "Call the handler function for one readable socket": a socket's handler
\* is called only for conditions that hold.
OnlyReadyIsReported == At("sockets") => Top.result \subseteq ready

\* An event that was triggered stays noted until its handler is called (or
\* the trigger is deleted).
NoTriggerLost ==
    owed \subseteq fTriggersAwaitingHandling
                      \cup {external[t][1] : t \in {u \in Threads : external[u] # <<>>}}

\* A watched socket that is ready is handled in the end, or its handler is
\* disabled or moved.
Served(sock, cond) ==
    LET waits == <<sock, cond>> \in fdSet \cap ready
    IN  waits ~> \/ ~waits
                 \/ At("socketHandler") /\ fLastHandledSocketNum = sock

\* What the comment in SingleStep() says, "to ensure forward progress through
\* the handlers", whatever the handlers do.
ForwardProgress == \A p \in Pairs : Served(p[1], p[2])

\* The socket handled last loses its place in the list, past which the next
\* search was to begin.
PlaceIsLost ==
    \E sock \in Sockets :
        /\ sock = fLastHandledSocketNum
        /\ \/ DisableHandling(sock)
           \/ \E new \in Sockets : ChangePort(sock, new)

\* Every ready socket is served, as the search starts past the socket handled
\* last, unless that place is lost again and again: sockets enabled at the
\* front of the list may then come before this one for ever.
SocketServed == ForwardProgress \/ []<><<PlaceIsLost>>_vars

\* An event trigger that is set is taken in the end, whatever handlers create.
EachTriggerServed ==
    \A i \in Triggers :
        i \in fTriggersAwaitingHandling ~> i \notin fTriggersAwaitingHandling

\* The same, even when no socket is ever ready (the tick wakes select()), as
\* the search starts past the trigger used last, unless triggers are created
\* for ever: that moves the place on, perhaps past the one that waits.
TriggerServed == EachTriggerServed \/ []<><<CreateEventTrigger>>_vars

\* An alarm that is due is served in the end, or unscheduled.
AlarmServed == \A a \in Alarms : a \in ToSet(due) ~> a \notin ToSet(due)

=============================================================================
