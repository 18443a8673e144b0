---------------------------- MODULE AlarmService ----------------------------
(***************************************************************************)
(* What the timer queue promises to its clients, on a machine whose clock  *)
(* is never set back: a table of alarms with absolute due times.  The      *)
(* alarm that fires is due, and is the first of those pending: earliest    *)
(* due time first, and of two with the same due time the one asked for     *)
(* first.  Nothing else ever happens to an alarm than that it is asked     *)
(* for, cancelled, or fires, and an alarm that was cancelled never fires.   *)
(***************************************************************************)
EXTENDS Integers, Sequences

CONSTANTS Delays

VARIABLES
    now,       \* the time
    pending,   \* due time of each alarm that waits, by token
    lastToken, \* tokens are given out in order
    running    \* the alarms that fired and whose tasks are not over, in the
               \* order in which they fired

vars == <<now, pending, lastToken, running>>

Without(t) == [u \in DOMAIN pending \ {t} |-> pending[u]]

Init ==
    /\ now = 0
    /\ pending = <<>>
    /\ lastToken = 1
    /\ running = <<>>

\* Give out the next token, due after the delay (at once if it is negative);
\* the table is the one left by a cancellation that may come with it.
AskedFor(table, delay) ==
    /\ lastToken' = lastToken + 1
    /\ pending' = [t \in DOMAIN table \cup {lastToken + 1} |->
                      IF t \in DOMAIN table THEN table[t]
                      ELSE IF delay < 0 THEN now ELSE now + delay]
    /\ UNCHANGED <<now, running>>

Ask == \E d \in Delays : AskedFor(pending, d)

Replace == \E t \in DOMAIN pending, d \in Delays : AskedFor(Without(t), d)

Cancel ==
    \E t \in DOMAIN pending :
        /\ pending' = Without(t)
        /\ UNCHANGED <<now, lastToken, running>>

\* t comes before every other pending alarm.
IsFirst(t) ==
    \A u \in DOMAIN pending :
        \/ pending[t] < pending[u]
        \/ pending[t] = pending[u] /\ t <= u

Fire ==
    \E t \in DOMAIN pending :
        /\ pending[t] <= now
        /\ IsFirst(t)
        /\ pending' = Without(t)
        /\ running' = Append(running, t)
        /\ UNCHANGED <<now, lastToken>>

\* The task that was started last is over.
Return ==
    /\ running # <<>>
    /\ running' = SubSeq(running, 1, Len(running) - 1)
    /\ UNCHANGED <<now, pending, lastToken>>

Tick ==
    /\ now' = now + 1
    /\ UNCHANGED <<pending, lastToken, running>>

Next == Ask \/ Replace \/ Cancel \/ Fire \/ Return \/ Tick

Spec == Init /\ [][Next]_vars

=============================================================================
