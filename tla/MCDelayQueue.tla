---------------------------- MODULE MCDelayQueue ----------------------------
(***************************************************************************)
(* Values for checking DelayQueue.  The delays are chosen so that alarms   *)
(* with the same due time arise in several ways (asked for together, or    *)
(* one unit apart), and so that a negative delay occurs.                   *)
(***************************************************************************)
EXTENDS DelayQueue

SomeDelays == {-1, 2, 3}

=============================================================================
