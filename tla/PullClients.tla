---------------------------- MODULE PullClients ----------------------------
(***************************************************************************)
(* pull_live555: the clients that main() opens, each of which asks for a   *)
(* description, sets up one subsession after the other, plays, and is shut *)
(* down by whatever ends its stream first: a request that fails, a BYE for *)
(* the last of its subsessions, or its timer.  The last one to be shut     *)
(* down ends the program.                                                  *)
(*                                                                         *)
(* The client library is taken for what RTSPClient shows: a request that   *)
(* is sent has one answer or one error, unless its client is closed first; *)
(* one that cannot be sent has its error inside the call.                  *)
(***************************************************************************)
EXTENDS Integers, FiniteSets

CONSTANTS
    workerNums,     \* how many clients main() opens
    MaxTracks       \* at most so many subsessions does a description have

ASSUME PullAssumption == workerNums \in Nat \ {0} /\ MaxTracks \in Nat \ {0}

VARIABLES
    opened,             \* how many of the clients main() has opened
    clients,
    rtspClientCount,
    exited              \* exit() was called

vars == <<opened, clients, rtspClientCount, exited>>

Workers == 1 .. workerNums
Tracks == 1 .. MaxTracks

\* open: the client exists.  request: the one that has no answer yet.
\* subsessions: how many the session has, 0 when there is no session.  sinks,
\* byeHandlers: the subsessions that have one.  setUp and unheard are history:
\* the subsessions that the server has set up, and not ended with a BYE or torn
\* down, and those whose SETUP it performed but the client took for failed.
NotOpened ==
    [open |-> FALSE, request |-> "none", subsessions |-> 0, subsession |-> 0,
     sinks |-> {}, byeHandlers |-> {}, streamTimerTask |-> FALSE,
     setUp |-> {}, unheard |-> {}]

NewClient == [NotOpened EXCEPT !.open = TRUE, !.request = "DESCRIBE"]

Open == {w \in Workers : clients[w].open}

Init ==
    /\ opened = 0
    /\ clients = [w \in Workers |-> NotOpened]
    /\ rtspClientCount = 0
    /\ exited = FALSE

\* main() opens the clients before it runs the event loop.
Looping == opened = workerNums /\ ~exited

-----------------------------------------------------------------------------
\* What becomes of a client that is shut down: it is closed, with its requests
\* that wait, and with its session the sockets that BYEs come to and the timer.
\* If one of its sinks was active, TEARDOWN ends all that the server has set up
\* (as long as there is a connection: an answer is not waited for).
ShutDown(c) ==
    [c EXCEPT !.open = FALSE, !.request = "none",
              !.sinks = {}, !.byeHandlers = {}, !.streamTimerTask = FALSE,
              !.setUp = IF c.sinks = {} THEN c.setUp ELSE {}]

\* Mutant: the timer is not unscheduled.
ShutdownLeavesTimer(w, c, count) ==
    /\ clients' = [clients EXCEPT ![w] =
                      [ShutDown(c) EXCEPT !.streamTimerTask = c.streamTimerTask]]
    /\ rtspClientCount' = count - 1
    /\ exited' = (rtspClientCount' = 0)

\* Mutant: nothing is torn down that does not play yet.
ShutdownBeforePlay(w, c, count) ==
    /\ clients' = [clients EXCEPT ![w] =
                      [ShutDown(c) EXCEPT
                          !.setUp = IF c.request = "none" THEN {} ELSE c.setUp]]
    /\ rtspClientCount' = count - 1
    /\ exited' = (rtspClientCount' = 0)

\* shutdownStream(), of a client that was like c.
ShutdownStream(w, c, count) ==
    /\ clients' = [clients EXCEPT ![w] = ShutDown(c)]
    /\ rtspClientCount' = count - 1
    /\ exited' = (rtspClientCount' = 0)

GoesOn(w, c) ==
    /\ clients' = [clients EXCEPT ![w] = c]
    /\ UNCHANGED exited

\* setupNextSubsession(): a subsession that cannot be initiated, or whose SETUP
\* cannot be sent, is passed over.  After the last one PLAY is sent: if that
\* cannot be done, the error shuts the stream down.
SetupNextSubsession(w, c) ==
    \/ \E t \in c.subsession + 1 .. c.subsessions :
          /\ GoesOn(w, [c EXCEPT !.request = "SETUP", !.subsession = t])
          /\ UNCHANGED rtspClientCount
    \/ /\ GoesOn(w, [c EXCEPT !.request = "PLAY"])
       /\ UNCHANGED rtspClientCount
    \/ ShutdownStream(w, c, rtspClientCount)

-----------------------------------------------------------------------------
\* Mutant: a client is counted when its description has been asked for.
OpenCountedLate ==
    /\ opened < workerNums /\ ~exited
    /\ opened' = opened + 1
    /\ \/ GoesOn(opened', NewClient) /\ rtspClientCount' = rtspClientCount + 1
       \/ ShutdownStream(opened', NewClient, rtspClientCount)

\* openURL(): the description is asked for, or continueAfterDESCRIBE() is told
\* at once that it cannot be.
OpenURL ==
    /\ opened < workerNums /\ ~exited
    /\ opened' = opened + 1
    /\ \/ GoesOn(opened', NewClient) /\ rtspClientCount' = rtspClientCount + 1
       \/ ShutdownStream(opened', NewClient, rtspClientCount + 1)

\* continueAfterDESCRIBE().
ContinueAfterDESCRIBE(w) ==
    /\ Looping /\ clients[w].request = "DESCRIBE"
    /\ \/ \E n \in 1 .. MaxTracks :
             SetupNextSubsession(w, [clients[w] EXCEPT !.subsessions = n])
       \/ ShutdownStream(w, clients[w], rtspClientCount)
    /\ UNCHANGED opened

\* continueAfterSETUP(): the subsession has a sink from now on, and is listened
\* to for a BYE; or it is given up, and the server may have set it up all the
\* same (handleSETUPResponse() takes the session's name first).
ContinueAfterSETUP(w) ==
    /\ Looping /\ clients[w].request = "SETUP"
    /\ LET c == clients[w]
           t == c.subsession
       IN  \/ SetupNextSubsession(w, [c EXCEPT !.sinks = @ \cup {t},
                                               !.byeHandlers = @ \cup {t},
                                               !.setUp = @ \cup {t}])
           \/ SetupNextSubsession(w, c)
           \/ SetupNextSubsession(w, [c EXCEPT !.setUp = @ \cup {t},
                                               !.unheard = @ \cup {t}])
    /\ UNCHANGED opened

\* continueAfterPLAY(): of a session, if the server has given one.  The timer is
\* for streams whose duration is known.
ContinueAfterPLAY(w) ==
    /\ Looping /\ clients[w].request = "PLAY"
    /\ \/ /\ clients[w].setUp # {}
          /\ \E timed \in BOOLEAN :
                GoesOn(w, [clients[w] EXCEPT !.request = "none",
                                             !.streamTimerTask = timed])
          /\ UNCHANGED rtspClientCount
       \/ ShutdownStream(w, clients[w], rtspClientCount)
    /\ UNCHANGED opened

\* A BYE for a subsession: its handler is called once.  The sink is closed, and
\* with the last sink the stream is shut down (subsessionAfterPlaying()).
SubsessionByeHandler(w, t) ==
    /\ Looping /\ t \in clients[w].byeHandlers
    /\ LET c == [clients[w] EXCEPT !.byeHandlers = @ \ {t}, !.sinks = @ \ {t},
                                   !.setUp = @ \ {t}]
       IN  IF c.sinks = {}
           THEN ShutdownStream(w, c, rtspClientCount)
           ELSE GoesOn(w, c) /\ UNCHANGED rtspClientCount
    /\ UNCHANGED opened

StreamTimerHandler(w) ==
    /\ Looping /\ clients[w].streamTimerTask
    /\ ShutdownStream(w, [clients[w] EXCEPT !.streamTimerTask = FALSE],
                      rtspClientCount)
    /\ UNCHANGED opened

Next ==
    \/ OpenURL
    \/ \E w \in Workers :
          \/ ContinueAfterDESCRIBE(w) \/ ContinueAfterSETUP(w)
          \/ ContinueAfterPLAY(w) \/ StreamTimerHandler(w)
          \/ \E t \in Tracks : SubsessionByeHandler(w, t)

Spec == Init /\ [][Next]_vars

-----------------------------------------------------------------------------
ClientRecords ==
    [open : BOOLEAN, request : {"DESCRIBE", "SETUP", "PLAY", "none"},
     subsessions : 0 .. MaxTracks, subsession : 0 .. MaxTracks,
     sinks : SUBSET Tracks, byeHandlers : SUBSET Tracks,
     streamTimerTask : BOOLEAN,
     setUp : SUBSET Tracks, unheard : SUBSET Tracks]

\* The variables have their types.
TypeOK ==
    /\ opened \in 0 .. workerNums /\ rtspClientCount \in 0 .. workerNums
    /\ exited \in BOOLEAN
    /\ clients \in [Workers -> ClientRecords]

\* What the event loop may still call for a client.
SomethingIsDue(c) == c.request # "none" \/ c.streamTimerTask \/ c.byeHandlers # {}

\* The program runs until the last of its clients is shut down, and no longer:
\* none is cut off by exit() because another was counted twice, none that was
\* closed is called again, and none that is open waits for what cannot come,
\* whichever of error, BYE and timer comes first for each.  The last is not so
\* of a client that was told that a SETUP failed which the server has
\* performed: it may play nothing, for ever.
RunsUntilAllEnded ==
    /\ rtspClientCount = Cardinality(Open)
    /\ exited => Open = {}
    /\ Looping => Open # {}
    /\ \A w \in Workers : SomethingIsDue(clients[w]) => w \in Open
    /\ \A w \in Open : SomethingIsDue(clients[w]) \/ clients[w].unheard # {}

\* A client that is shut down leaves nothing at the server that it was told is
\* set up, and that no BYE has ended: it tears it down, at whichever step the
\* stream was given up.
NothingLeftBehind == \A w \in Workers \ Open : clients[w].setUp \subseteq clients[w].unheard

\* The program exits when "the final stream has ended".  (testRTSPClient.cpp,
\* the comment in shutdownStream().  It does not hold.)
ExitsWithTheFinal == exited => opened = workerNums
=============================================================================
