-------------------------- MODULE StreamReplicator --------------------------
(***************************************************************************)
(* One input source whose frames are given to several replicas.  The first *)
(* replica that asks for a frame is the master: the frame is read into its *)
(* buffer, copied to the others that have asked for it, and given to the   *)
(* master last.                                                            *)
(*                                                                         *)
(* Whoever is given a frame is called back in the middle of                *)
(* deliverReceivedFrame(), and may ask for the next frame, or stop, close  *)
(* and create replicas, before it returns: "stack" holds the calls that    *)
(* are not over, the innermost last.  The input source delivers from the   *)
(* event loop, never inside its getNextFrame().                            *)
(***************************************************************************)
EXTENDS Integers, FiniteSets, SequencesExt

CONSTANTS
    Replicas,      \* objects that may be created as replicas
    NULL,
    DeleteWhenLastReplicaDies,
    MaxFrames,     \* bound: frames that the input source delivers
    MaxCalls       \* bound: calls that are not over

ASSUME ReplicatorAssumption ==
    /\ NULL \notin Replicas /\ IsFiniteSet(Replicas)
    /\ DeleteWhenLastReplicaDies \in BOOLEAN
    /\ {MaxFrames, MaxCalls} \subseteq Nat

VARIABLES
    \* the replicator
    fMasterReplica,
    fReplicasAwaitingCurrentFrame,
    fReplicasAwaitingNextFrame,
    fFrameIndex,
    fNumReplicas,
    fNumActiveReplicas,
    fNumDeliveriesMadeSoFar,
    fInputSourceHasClosed,
    reading,       \* fIsCurrentlyAwaitingData of the input source
    deleted,
    \* the replicas
    alive,         \* those created and not being closed
    frameIndex,    \* fFrameIndex of each; -1 if it is not playing
    awaiting,      \* those with fIsCurrentlyAwaitingData
    buffer,        \* the number of the frame in the buffer of each
    stack,
    \* history
    read,          \* how many frames have been read
    given,         \* the last frame that each was given; 0 if it was given
                   \* none since it last began to play
    mishaps        \* which of Mishaps have happened

listVars == <<fMasterReplica, fReplicasAwaitingCurrentFrame,
              fReplicasAwaitingNextFrame>>
countVars == <<fNumActiveReplicas, fNumDeliveriesMadeSoFar>>
historyVars == <<read, given, mishaps>>
vars == <<listVars, fFrameIndex, fNumReplicas, countVars,
          fInputSourceHasClosed, reading, deleted, alive, frameIndex,
          awaiting, buffer, stack, historyVars>>

-----------------------------------------------------------------------------
(***************************************************************************)
(* Calls: "deliver" is the loop of deliverReceivedFrame(), "closure" and   *)
(* "closing" are those of onSourceClosure(), "deactivated" and "removed"   *)
(* the rest of deactivateStreamReplica(), for a replica that stops or is   *)
(* closed, and "program" a function of the program that was called back.   *)
(***************************************************************************)
Points == {"deliver", "closure", "closing", "deactivated", "removed", "program"}

At(point) == stack # <<>> /\ Last(stack) = point /\ ~deleted
Returned == Front(stack)

\* What the code does not foresee, and the properties below except:
\*   "lost": a frame was lost because its master stopped, with no other
\*       replica waiting for it, when a replica may have been given it;
\*   "miscounted": a replica stopped that did not have the current frame, and
\*       took away the delivery that was counted for another;
\*   "overtaken": the frame was given to its master inside a callback of the
\*       loop that delivers it, which then goes on with the next frame.
Mishaps == {"lost", "miscounted", "overtaken"}
Note(mishap, condition) == IF condition THEN {mishap} ELSE {}

\* The event loop, or a function called back, runs the program.
ProgramRuns == ~deleted /\ (stack = <<>> \/ At("program"))
MayCall == ProgramRuns /\ Len(stack) < MaxCalls

IsActive(replica) == frameIndex[replica] # -1

Init ==
    /\ fMasterReplica = NULL
    /\ fReplicasAwaitingCurrentFrame = <<>>
    /\ fReplicasAwaitingNextFrame = <<>>
    /\ fFrameIndex = 0
    /\ fNumReplicas = 0
    /\ fNumActiveReplicas = 0 /\ fNumDeliveriesMadeSoFar = 0
    /\ fInputSourceHasClosed = FALSE
    /\ reading = FALSE /\ deleted = FALSE
    /\ alive = {}
    /\ frameIndex = [replica \in Replicas |-> -1]
    /\ awaiting = {}
    /\ buffer = [replica \in Replicas |-> 0]
    /\ stack = <<>>
    /\ read = 0
    /\ given = [replica \in Replicas |-> 0]
    /\ mishaps = {}

CreateStreamReplica(replica) ==
    /\ ProgramRuns /\ replica \notin alive
    /\ ~IsActive(replica)
    /\ alive' = alive \cup {replica}
    /\ fNumReplicas' = fNumReplicas + 1
    /\ given' = [given EXCEPT ![replica] = 0]
    /\ buffer' = [buffer EXCEPT ![replica] = 0]
    /\ UNCHANGED <<listVars, fFrameIndex, countVars, fInputSourceHasClosed,
                   reading, deleted, frameIndex, awaiting, stack, read,
                   mishaps>>

-----------------------------------------------------------------------------
(***************************************************************************)
(* A replica is asked for a frame.                                         *)
(***************************************************************************)

\* The index of the frame that a replica asks for: one that had stopped, or
\* is new, begins with the current frame.
AskedIndex(replica) ==
    IF IsActive(replica) THEN frameIndex[replica] ELSE fFrameIndex

GetNextFrame(replica) ==
    /\ MayCall /\ replica \in alive \ awaiting
    /\ ~fInputSourceHasClosed
    /\ frameIndex' = [frameIndex EXCEPT ![replica] = AskedIndex(replica)]
    /\ fNumActiveReplicas' =
           fNumActiveReplicas + (IF IsActive(replica) THEN 0 ELSE 1)
    /\ given' = IF IsActive(replica) THEN given
                ELSE [given EXCEPT ![replica] = 0]
    /\ awaiting' = awaiting \cup {replica}
    /\ \/ \* the first to ask for the next unread frame
          /\ fMasterReplica = NULL
          /\ fMasterReplica' = replica
          /\ reading' = TRUE
          /\ UNCHANGED <<fReplicasAwaitingCurrentFrame,
                         fReplicasAwaitingNextFrame, stack>>
       \/ \* it has received the current frame
          /\ fMasterReplica # NULL /\ AskedIndex(replica) # fFrameIndex
          /\ fReplicasAwaitingNextFrame' =
                 <<replica>> \o fReplicasAwaitingNextFrame
          /\ UNCHANGED <<fMasterReplica, fReplicasAwaitingCurrentFrame,
                         reading, stack>>
       \/ /\ fMasterReplica # NULL /\ AskedIndex(replica) = fFrameIndex
          /\ fReplicasAwaitingCurrentFrame' =
                 <<replica>> \o fReplicasAwaitingCurrentFrame
          /\ stack' = IF reading THEN stack ELSE Append(stack, "deliver")
          /\ UNCHANGED <<fMasterReplica, fReplicasAwaitingNextFrame, reading>>
    /\ UNCHANGED <<fFrameIndex, fNumReplicas, fNumDeliveriesMadeSoFar,
                   fInputSourceHasClosed, deleted, alive, buffer, read,
                   mishaps>>

\* After the source has closed, asking is answered by the closure handler.
GetNextFrameOfClosed(replica) ==
    /\ MayCall /\ replica \in alive \ awaiting
    /\ fInputSourceHasClosed
    /\ stack' = Append(stack, "program")
    /\ UNCHANGED <<listVars, fFrameIndex, fNumReplicas, countVars,
                   fInputSourceHasClosed, reading, deleted, alive, frameIndex,
                   awaiting, buffer, historyVars>>

-----------------------------------------------------------------------------
(***************************************************************************)
(* A replica stops, or is closed.                                          *)
(***************************************************************************)

HasCurrentFrame(replica) ==
    IsActive(replica) /\ frameIndex[replica] # fFrameIndex

\* "Forget about any frame delivery that might have just been made to this
\* replica": its index is -1 by the time that it is compared, so this is done
\* whether it had the current frame or not.
ForgetDelivery(replica) ==
    fNumDeliveriesMadeSoFar' =
        IF frameIndex'[replica] # fFrameIndex /\ fNumDeliveriesMadeSoFar > 0
        THEN fNumDeliveriesMadeSoFar - 1
        ELSE fNumDeliveriesMadeSoFar

\* Mutant: the replica is looked for in one of the two lists only.
LeaveOneList(replica) ==
    /\ fReplicasAwaitingCurrentFrame' =
           RemoveFirst(fReplicasAwaitingCurrentFrame, replica)
    /\ UNCHANGED fReplicasAwaitingNextFrame

LeaveLists(replica) ==
    /\ fReplicasAwaitingCurrentFrame' =
           RemoveFirst(fReplicasAwaitingCurrentFrame, replica)
    /\ fReplicasAwaitingNextFrame' =
           RemoveFirst(fReplicasAwaitingNextFrame, replica)

\* Another replica that waits for the current frame takes the place of the
\* master.  A pending read is done again into its buffer; a frame that was
\* read is copied to it, or lost if there is none.
ReplaceMaster(oldMaster) ==
    /\ UNCHANGED fReplicasAwaitingNextFrame
    /\ \/ /\ fReplicasAwaitingCurrentFrame = <<>>
          /\ fMasterReplica' = NULL
          /\ reading' = FALSE
          /\ UNCHANGED <<fReplicasAwaitingCurrentFrame, buffer>>
       \/ /\ fReplicasAwaitingCurrentFrame # <<>>
          /\ fMasterReplica' = Head(fReplicasAwaitingCurrentFrame)
          /\ fReplicasAwaitingCurrentFrame' = Tail(fReplicasAwaitingCurrentFrame)
          /\ buffer' = IF reading THEN buffer
                       ELSE [buffer EXCEPT ![fMasterReplica'] = buffer[oldMaster]]
          /\ UNCHANGED reading

\* "then" is what is left to do when it is deactivated.
DeactivateStreamReplica(replica, then) ==
    /\ awaiting' = awaiting \ {replica}
    /\ \/ \* already deactivated, or never activated
          /\ ~IsActive(replica)
          /\ stack' = IF then = "removed" THEN Append(stack, then) ELSE stack
          /\ UNCHANGED <<listVars, countVars, reading, frameIndex, buffer,
                         mishaps>>
       \/ /\ IsActive(replica)
          /\ fNumActiveReplicas' = fNumActiveReplicas - 1
          /\ frameIndex' = [frameIndex EXCEPT ![replica] = -1]
          /\ ForgetDelivery(replica)
          /\ mishaps' = mishaps
                 \cup Note("lost", replica = fMasterReplica /\ ~reading
                                   /\ fReplicasAwaitingCurrentFrame = <<>>)
                 \cup Note("miscounted", ~HasCurrentFrame(replica)
                                         /\ fNumDeliveriesMadeSoFar > 0)
          /\ \/ /\ replica = fMasterReplica
                /\ ReplaceMaster(replica)
                /\ stack' = Append(stack, then)
             \/ \* all others may have the current frame now
                /\ replica # fMasterReplica
                /\ LeaveLists(replica)
                /\ stack' = IF fMasterReplica # NULL /\ ~reading
                            THEN stack \o <<then, "deliver">>
                            ELSE Append(stack, then)
                /\ UNCHANGED <<fMasterReplica, reading, buffer>>
    /\ UNCHANGED <<fFrameIndex, fNumReplicas, fInputSourceHasClosed, deleted,
                   read, given>>

StopGettingFrames(replica) ==
    /\ MayCall /\ replica \in alive
    /\ DeactivateStreamReplica(replica, "deactivated")
    /\ UNCHANGED alive

CloseReplica(replica) ==
    /\ MayCall /\ replica \in alive
    /\ DeactivateStreamReplica(replica, "removed")
    /\ alive' = alive \ {replica}

\* If no replica is active the source stops too.  If the replica was closed,
\* and was the last, the replicator goes, and the input source with it.
Deactivated ==
    /\ At("deactivated") \/ At("removed")
    /\ reading' = (reading /\ fNumActiveReplicas # 0)
    /\ fNumReplicas' = IF At("removed") THEN fNumReplicas - 1 ELSE fNumReplicas
    /\ deleted' = (At("removed") /\ fNumReplicas' = 0
                   /\ DeleteWhenLastReplicaDies)
    /\ stack' = Returned
    /\ UNCHANGED <<listVars, fFrameIndex, countVars, fInputSourceHasClosed,
                   alive, frameIndex, awaiting, buffer, historyVars>>

-----------------------------------------------------------------------------
(***************************************************************************)
(* The input source delivers a frame, or closes.                           *)
(***************************************************************************)

AfterGettingFrame ==
    /\ stack = <<>> /\ ~deleted
    /\ reading /\ ~fInputSourceHasClosed /\ read < MaxFrames
    /\ fMasterReplica # NULL
    /\ reading' = FALSE
    /\ read' = read + 1
    /\ buffer' = [buffer EXCEPT ![fMasterReplica] = read']
    /\ stack' = <<"deliver">>
    /\ UNCHANGED <<listVars, fFrameIndex, fNumReplicas, countVars,
                   fInputSourceHasClosed, deleted, alive, frameIndex, awaiting,
                   given, mishaps>>

OnSourceClosure ==
    /\ stack = <<>> /\ ~deleted /\ reading
    /\ reading' = FALSE
    /\ fInputSourceHasClosed' = TRUE
    /\ stack' = <<"closure">>
    /\ UNCHANGED <<listVars, fFrameIndex, fNumReplicas, countVars, deleted,
                   alive, frameIndex, awaiting, buffer, historyVars>>

CurrentAreTold == \/ At("closure") /\ fReplicasAwaitingCurrentFrame = <<>>
                  \/ At("closing")

\* Each replica that waits is told, those that wait for the current frame
\* first and the master last.
TellOfClosure ==
    /\ \/ /\ At("closure") /\ fReplicasAwaitingCurrentFrame # <<>>
          /\ awaiting' = awaiting \ {Head(fReplicasAwaitingCurrentFrame)}
          /\ fReplicasAwaitingCurrentFrame' = Tail(fReplicasAwaitingCurrentFrame)
          /\ UNCHANGED <<fReplicasAwaitingNextFrame, fMasterReplica>>
          /\ stack' = Append(stack, "program")
       \/ /\ CurrentAreTold /\ fReplicasAwaitingNextFrame # <<>>
          /\ awaiting' = awaiting \ {Head(fReplicasAwaitingNextFrame)}
          /\ fReplicasAwaitingNextFrame' = Tail(fReplicasAwaitingNextFrame)
          /\ UNCHANGED <<fReplicasAwaitingCurrentFrame, fMasterReplica>>
          /\ stack' = Returned \o <<"closing", "program">>
       \/ /\ CurrentAreTold /\ fReplicasAwaitingNextFrame = <<>>
          /\ awaiting' = awaiting \ {fMasterReplica}
          /\ fMasterReplica' = NULL
          /\ UNCHANGED <<fReplicasAwaitingCurrentFrame,
                         fReplicasAwaitingNextFrame>>
          /\ stack' = IF fMasterReplica = NULL THEN Returned
                      ELSE Append(Returned, "program")
    /\ UNCHANGED <<fFrameIndex, fNumReplicas, countVars, fInputSourceHasClosed,
                   reading, deleted, alive, frameIndex, buffer, historyVars>>

-----------------------------------------------------------------------------
(***************************************************************************)
(* deliverReceivedFrame().                                                 *)
(***************************************************************************)

\* Mutant: counted up and not toggled.
CountedUp(index) == index + 1

Toggled(index) == 1 - index

\* One turn of the loop.
DeliverToAnother ==
    /\ At("deliver") /\ fReplicasAwaitingCurrentFrame # <<>>
    /\ LET replica == Head(fReplicasAwaitingCurrentFrame) IN
       /\ buffer' = [buffer EXCEPT ![replica] = buffer[fMasterReplica]]
       /\ frameIndex' = [frameIndex EXCEPT ![replica] = Toggled(@)]
       /\ awaiting' = awaiting \ {replica}
       /\ given' = [given EXCEPT ![replica] = buffer'[replica]]
    /\ fReplicasAwaitingCurrentFrame' = Tail(fReplicasAwaitingCurrentFrame)
    /\ fNumDeliveriesMadeSoFar' = fNumDeliveriesMadeSoFar + 1
    /\ stack' = Append(stack, "program")
    /\ UNCHANGED <<fMasterReplica, fReplicasAwaitingNextFrame, fFrameIndex,
                   fNumReplicas, fNumActiveReplicas, fInputSourceHasClosed,
                   reading, deleted, alive, read, mishaps>>

\* Mutant: the master is counted with the others.
DueWithMaster ==
    /\ fReplicasAwaitingCurrentFrame = <<>>
    /\ fNumDeliveriesMadeSoFar = fNumActiveReplicas
    /\ fMasterReplica # NULL

\* Mutant: an active replica that has yet to ask is not waited for.
DueWhenAsked ==
    /\ fReplicasAwaitingCurrentFrame = <<>>
    /\ fMasterReplica # NULL

\* No more requests for this frame are expected.
DeliveryIsDue ==
    /\ fReplicasAwaitingCurrentFrame = <<>>
    /\ fNumDeliveriesMadeSoFar = fNumActiveReplicas - 1
    /\ fMasterReplica # NULL

\* Mutant: the requests for the next frame stay where they are.
RequestsStay ==
    /\ fMasterReplica' = IF fReplicasAwaitingNextFrame = <<>> THEN NULL
                         ELSE Head(fReplicasAwaitingNextFrame)
    /\ fReplicasAwaitingNextFrame' = IF fReplicasAwaitingNextFrame = <<>>
                                     THEN <<>>
                                     ELSE Tail(fReplicasAwaitingNextFrame)
    /\ UNCHANGED fReplicasAwaitingCurrentFrame

\* One of those that have asked for the next frame is its master, and the
\* others now wait for the current frame.
PassToNextFrame ==
    /\ fMasterReplica' = IF fReplicasAwaitingNextFrame = <<>> THEN NULL
                         ELSE Head(fReplicasAwaitingNextFrame)
    /\ fReplicasAwaitingCurrentFrame' = IF fReplicasAwaitingNextFrame = <<>>
                                        THEN <<>>
                                        ELSE Tail(fReplicasAwaitingNextFrame)
    /\ fReplicasAwaitingNextFrame' = <<>>

ResetDeliveries == fNumDeliveriesMadeSoFar' = 0

DeliverToMaster ==
    /\ At("deliver") /\ DeliveryIsDue
    /\ PassToNextFrame
    /\ reading' = (reading \/ fReplicasAwaitingNextFrame # <<>>)
    /\ frameIndex' = [frameIndex EXCEPT ![fMasterReplica] = Toggled(@)]
    /\ fFrameIndex' = Toggled(fFrameIndex)
    /\ ResetDeliveries
    /\ awaiting' = awaiting \ {fMasterReplica}
    /\ given' = [given EXCEPT ![fMasterReplica] = buffer[fMasterReplica]]
    /\ stack' = Append(Returned, "program")
    /\ mishaps' = mishaps
           \cup Note("overtaken", "deliver" \in ToSet(Returned))
    /\ UNCHANGED <<fNumReplicas, fNumActiveReplicas, fInputSourceHasClosed,
                   deleted, alive, buffer, read>>

DeliverReturns ==
    /\ At("deliver")
    /\ fReplicasAwaitingCurrentFrame = <<>> /\ ~DeliveryIsDue
    /\ stack' = Returned
    /\ UNCHANGED <<listVars, fFrameIndex, fNumReplicas, countVars,
                   fInputSourceHasClosed, reading, deleted, alive, frameIndex,
                   awaiting, buffer, historyVars>>

ProgramReturns ==
    /\ At("program")
    /\ stack' = Returned
    /\ UNCHANGED <<listVars, fFrameIndex, fNumReplicas, countVars,
                   fInputSourceHasClosed, reading, deleted, alive, frameIndex,
                   awaiting, buffer, historyVars>>

-----------------------------------------------------------------------------
Next ==
    \/ \E replica \in Replicas :
         \/ CreateStreamReplica(replica)
         \/ GetNextFrame(replica)
         \/ GetNextFrameOfClosed(replica)
         \/ StopGettingFrames(replica)
         \/ CloseReplica(replica)
    \/ Deactivated
    \/ AfterGettingFrame \/ OnSourceClosure \/ TellOfClosure
    \/ DeliverToAnother \/ DeliverToMaster \/ DeliverReturns
    \/ ProgramReturns

Spec == Init /\ [][Next]_vars

\* The replicas are interchangeable.
Symmetry == Permutations(Replicas)

-----------------------------------------------------------------------------
ReplicaOrNULL == Replicas \cup {NULL}

\* Every variable has its type.
TypeOK ==
    /\ fMasterReplica \in ReplicaOrNULL
    /\ fReplicasAwaitingCurrentFrame \in Seq(Replicas)
    /\ fReplicasAwaitingNextFrame \in Seq(Replicas)
    /\ fFrameIndex \in {0, 1}
    /\ {fNumReplicas, fNumActiveReplicas, fNumDeliveriesMadeSoFar, read}
           \subseteq Nat
    /\ {fInputSourceHasClosed, reading, deleted}
           \subseteq BOOLEAN
    /\ mishaps \subseteq Mishaps
    /\ alive \subseteq Replicas /\ awaiting \subseteq Replicas
    /\ frameIndex \in [Replicas -> {-1, 0, 1}]
    /\ buffer \in [Replicas -> Nat] /\ given \in [Replicas -> Nat]
    /\ stack \in Seq(Points)

\* A replica that waits for a frame is in one place: it is the master, or it
\* is once in one of the two lists.  One that does not wait is nowhere, so no
\* callback goes to a replica that has stopped or was deleted.
OnePlace ==
    LET Waiting == fReplicasAwaitingCurrentFrame \o fReplicasAwaitingNextFrame
    IN  /\ IsInjective(Waiting)
        /\ fMasterReplica \notin ToSet(Waiting)
        /\ awaiting = (ToSet(Waiting) \cup {fMasterReplica}) \ {NULL}
        /\ awaiting \subseteq {replica \in alive : IsActive(replica)}

\* A read that is pending has a master to read for, which
\* afterGettingFrame() uses without a test, and so has a frame to copy:
\* "Internal Error 1" of deliverReceivedFrame() does not happen.
ReadForMaster ==
    /\ reading => fMasterReplica # NULL
    /\ At("deliver") /\ fReplicasAwaitingCurrentFrame # <<>>
           => fMasterReplica # NULL

\* The toggles of the replicas and of the replicator agree: the
\* master and those that wait for the current frame have its index, and those
\* that wait for the next frame have the current one behind them.
IndexesAgree ==
    /\ \A replica \in ToSet(fReplicasAwaitingCurrentFrame) \cup {fMasterReplica} :
          replica # NULL => frameIndex[replica] = fFrameIndex
    /\ \A replica \in ToSet(fReplicasAwaitingNextFrame) :
          HasCurrentFrame(replica)

\* The deliveries counted are the active replicas that have the
\* current frame, and so fewer than the active replicas while there is a master
\* to deliver to: "Internal Error 2" does not happen.
CountsAgree ==
    /\ fNumActiveReplicas = Cardinality({r \in Replicas : IsActive(r)})
    /\ fNumDeliveriesMadeSoFar =
           Cardinality({r \in Replicas : HasCurrentFrame(r)})

\* Until a mishap, the replicator's book-keeping is true, whoever asks, stops,
\* closes or is called back: its two "Internal Errors" do not happen.
BooksAgree == mishaps = {} => ReadForMaster /\ IndexesAgree /\ CountsAgree

\* Until a mishap, the master of a frame that was read waits only for a replica
\* that plays and has yet to ask for this frame.
MasterWaitsForOthers ==
    mishaps = {} /\ stack = <<>> /\ ~deleted
    /\ fMasterReplica # NULL /\ ~reading
        => \E replica \in Replicas \ awaiting :
               IsActive(replica) /\ ~HasCurrentFrame(replica)

\* The same, of every delivery: what the comment in deactivateStreamReplica()
\* says is checked for ("all other replicas have received the current frame,
\* and so now we need to complete delivery to the master replica").
DeliveryIsCompleted ==
    stack = <<>> /\ ~deleted /\ fMasterReplica # NULL /\ ~reading
        => \E replica \in Replicas \ awaiting :
               IsActive(replica) /\ ~HasCurrentFrame(replica)

\* A replica that goes on playing is given every frame, once and in order,
\* however the others ask, stop and close in between: until a mishap, or the
\* source closes.
EveryFrameOnce ==
    [][\A replica \in Replicas :
          {frameIndex[replica], frameIndex'[replica]} = {0, 1}
          /\ given[replica] # 0 /\ mishaps' = {} /\ ~fInputSourceHasClosed
              => given'[replica] = given[replica] + 1]_vars
=============================================================================
