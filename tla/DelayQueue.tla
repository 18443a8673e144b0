----------------------------- MODULE DelayQueue -----------------------------
(***************************************************************************)
(* The timer queue of the live555 event loop (class DelayQueue, its        *)
(* entries AlarmHandler, and the three task operations of                  *)
(* BasicTaskScheduler0 that use it).                                       *)
(*                                                                         *)
(* The code keeps the pending alarms in a circular doubly linked list.     *)
(* Each entry stores only the DIFFERENCE between its time and its          *)
(* predecessor's; the list head is the DelayQueue object itself, an entry  *)
(* whose difference stays near ETERNITY and that stops every walk.  Here   *)
(* the list is the sequence "queue", in list order from head(), with the   *)
(* DelayQueue object as its last element.  Time is counted in one unit     *)
(* (Timeval's seconds and microseconds with their carry are one integer).  *)
(*                                                                         *)
(* The clock the code reads (gettimeofday) may be set back by the system.  *)
(* "now" is the time that has really passed and is not known to the code.  *)
(***************************************************************************)
EXTENDS Integers, FiniteSets, SequencesExt

CONSTANTS
    Delays,        \* the delays that tasks are scheduled with
    Eternity,      \* ETERNITY, the difference the DelayQueue object starts with
    MaxTokens,     \* bound: how many alarms are ever scheduled
    MaxTime,       \* bound: how far "now" goes
    MaxSetBack,    \* bound: how far, in all, the clock is set back
    MaxNesting     \* bound: alarm handlers that are active at once

ASSUME DelayAssumption ==
    /\ Delays \subseteq Int
    /\ {Eternity, MaxTokens, MaxTime, MaxSetBack, MaxNesting} \subseteq Nat
    /\ MaxTime < Eternity
    /\ \A d \in Delays : d + MaxTime < Eternity

VARIABLES
    now,            \* time that has really passed (not seen by the code)
    setBack,        \* by how much the clock has been set back in all
    fLastSyncTime,  \* clock reading of the last synchronize()
    queue,          \* the list: records [token, delta], the DelayQueue last
    tokenCounter,   \* DelayQueueEntry::tokenCounter
    running,        \* tokens of the alarms whose handleTimeout() is active,
                    \* innermost last
    alarms          \* the AlarmHandler objects not yet deleted: for each its
                    \* delay and (history) when it was asked for

timeVars == <<now, setBack>>
listVars == <<fLastSyncTime, queue>>
vars == <<now, setBack, fLastSyncTime, queue, tokenCounter, running, alarms>>

-----------------------------------------------------------------------------
(***************************************************************************)
(* The list.                                                               *)
(***************************************************************************)

\* The token of the DelayQueue object: it is a DelayQueueEntry too, the first
\* one to be constructed.
Self == 1

Tokens == 2..MaxTokens + 1

\* What the clock shows: gettimeofday(), as TimeNow() reads it.
TimeNow == now - setBack

Entry(token, delta) == [token |-> token, delta |-> delta]

\* TimeTo(q)[i]: how long after the last synchronize() entry i is due, the
\* sum of the differences up to and including its own.  TimeTo(q)[0] = 0.
TimeTo(q) ==
    LET sum[i \in 0..Len(q)] == IF i = 0 THEN 0 ELSE sum[i - 1] + q[i].delta
    IN  sum

\* Mutant: only the first entry is looked at, and not compared with elapsed.
ElapseAtHead(q, elapsed) == [q EXCEPT ![1].delta = q[1].delta - elapsed]

\* synchronize() once it knows how much time went by: the loop zeroes every
\* entry whose time is up, and takes what is left from the entry it stops at.
Elapse(q, elapsed) ==
    LET due == TimeTo(q)
    IN  [i \in 1..Len(q) |->
            IF due[i] <= elapsed THEN Entry(q[i].token, 0)
            ELSE IF due[i - 1] <= elapsed
                 THEN Entry(q[i].token, due[i] - elapsed)
                 ELSE q[i]]

\* Mutant: a clock that went back counts as time that went by.
SynchronizedBackwards(q) ==
    Elapse(q, IF TimeNow < fLastSyncTime THEN fLastSyncTime - TimeNow
              ELSE TimeNow - fLastSyncTime)

\* synchronize(): the list it leaves.  It always sets fLastSyncTime to
\* TimeNow; when the clock has gone back that is all it does.
Synchronized(q) ==
    IF TimeNow < fLastSyncTime THEN q ELSE Elapse(q, TimeNow - fLastSyncTime)

\* Mutant: the difference of the entry behind the new one is not adjusted.
InsertOnly(q, token, delay) ==
    LET due == TimeTo(q)
        cur == CHOOSE i \in 1..Len(q) : due[i - 1] <= delay /\ delay < due[i]
    IN  InsertAt(q, cur, Entry(token, delay - due[cur - 1]))

\* Mutant: ">" for ">=", so that of two equal times the later request is first.
InsertBeforeEqual(q, token, delay) ==
    LET due == TimeTo(q)
        cur == CHOOSE i \in 1..Len(q) :
                   (i = 1 \/ due[i - 1] < delay) /\ delay <= due[i]
        later == [q EXCEPT ![cur].delta = due[cur] - delay]
    IN  InsertAt(later, cur, Entry(token, delay - due[cur - 1]))

\* addEntry() after its synchronize(): the loop passes every entry due no
\* later than the new one, which is linked in before the first later entry;
\* that entry's difference shrinks by the new one's.
Insert(q, token, delay) ==
    LET due == TimeTo(q)
        cur == CHOOSE i \in 1..Len(q) : due[i - 1] <= delay /\ delay < due[i]
        later == [q EXCEPT ![cur].delta = due[cur] - delay]
    IN  InsertAt(later, cur, Entry(token, delay - due[cur - 1]))

\* removeEntry(entry): the successor takes over the difference.
Unlink(q, i) ==
    LET heir == [q EXCEPT ![i + 1].delta = q[i + 1].delta + q[i].delta]
    IN  RemoveAt(heir, i)

\* findEntryByToken() looks at every entry but the DelayQueue object.
Positions(q) == 1..Len(q) - 1

Pending(q) == {q[i].token : i \in Positions(q)}

PositionOf(q, token) == CHOOSE i \in Positions(q) : q[i].token = token

\* removeEntry(token): no effect when no entry has that token.
RemoveEntry(q, token) ==
    IF token \in Pending(q) THEN Unlink(q, PositionOf(q, token)) ELSE q

-----------------------------------------------------------------------------
(***************************************************************************)
(* The operations.                                                         *)
(***************************************************************************)

Init ==
    /\ now = 0 /\ setBack = 0
    /\ fLastSyncTime = 0
    /\ queue = <<Entry(Self, Eternity)>>
    /\ tokenCounter = Self
    /\ running = <<>>
    /\ alarms = <<>>

\* "if (microseconds < 0) microseconds = 0;"
NotNegative(delay) == IF delay < 0 THEN 0 ELSE delay

\* new AlarmHandler: the next token, and the object itself.
NewAlarmHandler(others, delay) ==
    /\ tokenCounter <= MaxTokens
    /\ tokenCounter' = tokenCounter + 1
    /\ alarms' = [t \in DOMAIN others \cup {tokenCounter + 1} |->
                     IF t = tokenCounter + 1
                     THEN [delay |-> delay, at |-> now, clock |-> TimeNow]
                     ELSE others[t]]

\* addEntry() to the list q.
AddEntry(q, token, delay) ==
    /\ fLastSyncTime' = TimeNow
    /\ queue' = Insert(Synchronized(q), token, delay)

\* Mutant: an alarm whose handler is running is deleted as well.
DeletedWhileRunning(token) == Restrict(alarms, DOMAIN alarms \ {token})

\* "delete alarmHandler", which is NULL when the token was not in the list.
Deleted(token) == Restrict(alarms, DOMAIN alarms \ (Pending(queue) \cap {token}))

\* scheduleDelayedTask(), called by a handler or before the event loop runs.
ScheduleDelayedTask(delay) ==
    /\ NewAlarmHandler(alarms, NotNegative(delay))
    /\ AddEntry(queue, tokenCounter + 1, NotNegative(delay))
    /\ UNCHANGED <<timeVars, running>>

\* unscheduleDelayedTask(): the token may be NULL, stale, or that of an alarm
\* that is running just now; none of those is in the list.
UnscheduleDelayedTask(token) ==
    /\ queue' = RemoveEntry(queue, token)
    /\ alarms' = Deleted(token)
    /\ UNCHANGED <<timeVars, fLastSyncTime, tokenCounter, running>>

\* rescheduleDelayedTask(): the two above, in this order.
RescheduleDelayedTask(token, delay) ==
    /\ NewAlarmHandler(Deleted(token), NotNegative(delay))
    /\ AddEntry(RemoveEntry(queue, token), tokenCounter + 1, NotNegative(delay))
    /\ UNCHANGED <<timeVars, running>>

\* timeToNextAlarm(): only an alarm that is already due spares the
\* synchronize().
TimeToNextAlarm ==
    /\ queue[1].delta # 0
    /\ fLastSyncTime' = TimeNow
    /\ queue' = Synchronized(queue)
    /\ UNCHANGED <<timeVars, tokenCounter, running, alarms>>

\* The list handleAlarm() looks at after its own synchronize().
AtAlarm == IF queue[1].delta # 0 THEN Synchronized(queue) ELSE queue

\* handleAlarm(): takes the first entry out if it is due and calls its
\* handler, which is then active.
HandleAlarm ==
    /\ Len(running) < MaxNesting
    /\ fLastSyncTime' = IF queue[1].delta # 0 THEN TimeNow ELSE fLastSyncTime
    /\ IF AtAlarm[1].delta = 0
       THEN /\ queue' = Unlink(AtAlarm, 1)
            /\ running' = Append(running, AtAlarm[1].token)
       ELSE /\ queue' = AtAlarm
            /\ UNCHANGED running
    /\ UNCHANGED <<timeVars, tokenCounter, alarms>>

\* AlarmHandler::handleTimeout() after the task: "delete this".
HandlerReturns ==
    /\ running # <<>>
    /\ running' = Front(running)
    /\ alarms' = Restrict(alarms, DOMAIN alarms \ {Last(running)})
    /\ UNCHANGED <<timeVars, listVars, tokenCounter>>

\* The environment: time passes, and somebody sets the clock back.
Tick ==
    /\ now < MaxTime
    /\ now' = now + 1
    /\ UNCHANGED <<setBack, listVars, tokenCounter, running, alarms>>

SetClockBack ==
    /\ setBack < MaxSetBack
    /\ setBack' = setBack + 1
    /\ UNCHANGED <<now, listVars, tokenCounter, running, alarms>>

\* The tokens a client may hold: NULL (0), and every one it was ever given.
ClientTokens == {0} \cup (Self + 1..tokenCounter)

Next ==
    \/ \E d \in Delays : ScheduleDelayedTask(d)
    \/ \E t \in ClientTokens : UnscheduleDelayedTask(t)
    \/ \E t \in ClientTokens, d \in Delays : RescheduleDelayedTask(t, d)
    \/ TimeToNextAlarm
    \/ HandleAlarm
    \/ HandlerReturns
    \/ Tick
    \/ SetClockBack

Spec == Init /\ [][Next]_vars

-----------------------------------------------------------------------------
(***************************************************************************)
(* Properties.                                                             *)
(***************************************************************************)

Entries == [token : {Self} \cup Tokens, delta : Nat]

\* The values the variables may take.
TypeOK ==
    /\ now \in 0..MaxTime /\ setBack \in 0..MaxSetBack
    /\ fLastSyncTime \in Int
    /\ queue \in Seq(Entries) /\ queue # <<>>
    /\ tokenCounter \in Self..MaxTokens + 1
    /\ running \in Seq(Tokens)
    /\ DOMAIN alarms \subseteq Self + 1..tokenCounter
    /\ alarms \in [DOMAIN alarms -> [delay : Nat, at : Nat, clock : Int]]

\* When alarm t ought to run: in real time, and on the clock of the moment
\* at which it was asked for.
Due(t) == alarms[t].at + alarms[t].delay
ClockDue(t) == alarms[t].clock + alarms[t].delay

\* Every AlarmHandler object that is not yet deleted has exactly one owner:
\* the list, which holds it once, or one active handleTimeout(), which will
\* delete it.  So none is deleted twice (an unschedule from inside its own
\* handler finds nothing) and none leaks.
OneOwner ==
    /\ \A i, j \in 1..Len(queue) : queue[i].token = queue[j].token => i = j
    /\ \A i, j \in 1..Len(running) : running[i] = running[j] => i = j
    /\ Pending(queue) \cap ToSet(running) = {}
    /\ Pending(queue) \cup ToSet(running) = DOMAIN alarms

\* What is left of ETERNITY at the end of the list is what the time that has
\* passed leaves of it.
EternityHolds ==
    /\ queue[Len(queue)].token = Self
    /\ LET left == TimeTo(queue)[Len(queue)]
       IN  /\ left >= Eternity - now
           /\ left >= Eternity - setBack - fLastSyncTime
           /\ left <= Eternity

\* The differences add up to the right times, whatever was added, removed
\* and synchronized before, and however often the clock was set back: an
\* entry is never due before the delay its client asked for has really
\* passed (neither by the time the queue has taken into account nor by what
\* the clock shows beyond it), and it is due at the latest when the clock
\* shows what its client expected.  The DelayQueue object stays last, and no
\* operation on the list creates or loses time of its ETERNITY: it stops every
\* walk through the list.
AlarmTimes ==
    /\ EternityHolds
    /\ \A i \in Positions(queue) :
          LET t == queue[i].token
              left == TimeTo(queue)[i]
          IN  /\ left >= Due(t) - now
              /\ left >= Due(t) - setBack - fLastSyncTime
              /\ left = 0 \/ left <= ClockDue(t) - fLastSyncTime

\* A task never runs before the delay it was scheduled with has passed, even
\* if the clock was set back in the meantime.
NeverEarly == \A i \in 1..Len(running) : Due(running[i]) <= now

\* The alarms in the list as a client sees them: a table of due times.  Until
\* the clock is set back for the first time, the list implements it: what fires
\* is due, in the order of due times, and first come first served.
Service == INSTANCE AlarmService WITH
               pending <- [t \in Pending(queue) |-> Due(t)],
               lastToken <- tokenCounter

ImplementsAlarmService ==
    Service!Init /\ [][setBack' = 0 => [Service!Next]_(Service!vars)]_vars

=============================================================================
