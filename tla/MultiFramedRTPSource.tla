------------------------ MODULE MultiFramedRTPSource ------------------------
(***************************************************************************)
(* How a live555 receiver turns RTP packets into frames: class             *)
(* MultiFramedRTPSource with its ReorderingPacketBuffer, for the payload   *)
(* format the programs of this repository receive (H264VideoRTPSource).    *)
(*                                                                         *)
(* The network loses, delays, repeats and reorders packets.  A packet has  *)
(* an absolute number, which only the model knows; the code sees it modulo *)
(* 2^16 and compares sequence numbers around the circle.  The packets that *)
(* wait are a list ordered by that comparison; the head is handed on when  *)
(* it is the one expected, or when it has waited longer than a threshold.  *)
(*                                                                         *)
(* Everything runs in the event loop.  The loop of doGetNextFrame1() is    *)
(* one action per turn; "delivering" says that it is running, and then no  *)
(* other handler does.                                                     *)
(***************************************************************************)
EXTENDS Integers, FiniteSets, SequencesExt

CONSTANTS
    Kinds,          \* what packet number n carries
    Empty,          \* numbers of packets that lack data (see below)
    Ssrc,           \* the SSRC of packet number n
    FirstSeqNo,     \* the sequence number that packet 0 has, or would have,
                    \* with each SSRC
    SeqNoRange,     \* 2^16
    MaxDelay,       \* bound: how far behind the newest packet one arrives
    MaxLoss,        \* bound: how many packets in a row are lost
    SsrcChangesAny  \* whether the SSRC may change while packets are waiting

\* What a packet carries: a whole NAL unit, the first, a middle or the last
\* fragment of one (FU-A), two NAL units (STAP-A), or a header that is
\* rejected.
Kind == {"single", "start", "middle", "end", "aggregate", "malformed"}

Numbers == DOMAIN Kinds

\* Nothing is left of some fragments behind their header (with its first one
\* comes the header of the NAL unit).  An aggregation packet that lacks data has
\* one byte left after its first NAL unit.  A NAL unit that claims to be longer
\* than the rest of the packet is the rest of it.
MayBeEmpty == {"middle", "end", "aggregate"}

\* Half the circle of sequence numbers, 0x8000.
Half == SeqNoRange \div 2

ASSUME PacketAssumption ==
    /\ Numbers \subseteq Nat
    /\ Kinds \in [Numbers -> Kind]
    /\ Empty \subseteq {n \in Numbers : Kinds[n] \in MayBeEmpty}
    /\ SeqNoRange \in Nat /\ SeqNoRange = 2 * Half /\ Half > 0
    /\ DOMAIN Ssrc = Numbers
    /\ \A n \in Numbers : FirstSeqNo[Ssrc[n]] \in 0..SeqNoRange - 1
    /\ MaxDelay \in Nat /\ MaxLoss \in Nat
    /\ MaxDelay + 1 < Half
    /\ SsrcChangesAny \in BOOLEAN

\* What the sender does (the payload format asks it to): the fragments of a NAL
\* unit have consecutive numbers, from its first fragment to its last.
ASSUME SenderAssumption ==
    \A n \in Numbers : n + 1 \in Numbers /\ Ssrc[n + 1] = Ssrc[n] =>
        /\ Kinds[n] \in {"start", "middle"}
              => Kinds[n + 1] \in {"middle", "end", "malformed"}
        /\ Kinds[n + 1] \in {"middle", "end"}
              => Kinds[n] \in {"start", "middle", "malformed"}

None == "none"

VARIABLES
    \* ReorderingPacketBuffer
    fHaveSeenFirstPacket,
    fNextExpectedSeqNo,
    packets,            \* the list from fHeadPacket on
    fTailPacket,        \* position of the tail in it, 0 for NULL
    fSavedPacket,       \* "none", "free" (fSavedPacketFree) or "used"
    \* MultiFramedRTPSource
    fPacketReadInProgress,    \* "none", "saved" or "new"
    fAreDoingNetworkReads,
    fNeedDelivery,
    fPacketLossInFragmentedFrame,
    fCurrentPacketBeginsFrame,
    fCurrentPacketCompletesFrame,
    fLastReceivedSSRC,
    fIsCurrentlyAwaitingData,
    frame,              \* what is in the client's buffer: pieces of packets
    nextTask,           \* whether afterGetting() is scheduled
    delivering,         \* doGetNextFrame1() is running
    \* history
    newest,             \* number of the newest packet that arrived
    next,               \* number of the packet after the last one handed on
    delivered           \* the frame the client received last

bufferVars == <<fHaveSeenFirstPacket, fNextExpectedSeqNo, packets, fTailPacket,
                fSavedPacket, next>>
frameVars == <<fPacketLossInFragmentedFrame, fCurrentPacketBeginsFrame,
               fCurrentPacketCompletesFrame, frame>>
readVars == <<fPacketReadInProgress, fAreDoingNetworkReads, fLastReceivedSSRC,
              newest>>
clientVars == <<fNeedDelivery, fIsCurrentlyAwaitingData, nextTask, delivered>>
vars == <<bufferVars, frameVars, readVars, clientVars, delivering>>

-----------------------------------------------------------------------------
(***************************************************************************)
(* Sequence numbers and packet descriptors.                                *)
(***************************************************************************)

\* Mutant: the plain comparison.
PlainLT(s1, s2) == s1 < s2

\* seqNumLT(): "a 'less-than' on 16-bit sequence numbers".
SeqNumLT(s1, s2) ==
    LET diff == s2 - s1
    IN  IF diff > 0 THEN diff < Half ELSE diff < -Half

SeqNo(p) == (FirstSeqNo[Ssrc[p.n]] + p.n) % SeqNoRange

\* Mutant: the number expected is not a 16-bit one.
PlusOne(seqNo) == seqNo + 1

Following(seqNo) == (seqNo + 1) % SeqNoRange

\* A descriptor in the list: saved says whether it is fSavedPacket.
Packet(n, saved, first) ==
    [n |-> n, saved |-> saved, isFirstPacket |-> first, useCount |-> 0]

\* nextEnclosedFrameSize() finds no NAL unit in what is left of the packet, and
\* goes no further in it.
IsStuck(p) == Kinds[p.n] = "aggregate" /\ p.useCount = 1 /\ p.n \in Empty

\* hasUsableData() after use().
HasMore(p) == Kinds[p.n] = "aggregate" /\ (p.useCount = 0 \/ IsStuck(p))

\* A piece is the number of a packet and that of the NAL unit in it.
HasData(piece) == Kinds[piece[1]] = "aggregate" \/ piece[1] \notin Empty

\* fFrameSize > 0.
HoldsData(f) == \E i \in 1..Len(f) : HasData(f[i])

\* The descriptor that networkReadHandler1() reads into: the one of an
\* incomplete read, or that of getFreePacket().
Descriptor ==
    CASE fPacketReadInProgress # None -> fPacketReadInProgress
      [] fPacketReadInProgress = None /\ fSavedPacket # "used" -> "saved"
      [] OTHER -> "new"

\* Mutant: every packet freed is taken for fSavedPacket.
FreedAlways(saved) == "free"

\* freePacket(): one that is not fSavedPacket is deleted.
Freed(saved) == IF saved THEN "free" ELSE fSavedPacket

Init ==
    /\ fHaveSeenFirstPacket = FALSE
    /\ fNextExpectedSeqNo = 0
    /\ packets = <<>> /\ fTailPacket = 0
    /\ fSavedPacket = None
    /\ fPacketReadInProgress = None
    /\ fAreDoingNetworkReads = FALSE
    /\ fNeedDelivery = FALSE
    /\ fPacketLossInFragmentedFrame = FALSE
    /\ fCurrentPacketBeginsFrame = TRUE
    /\ fCurrentPacketCompletesFrame = TRUE
    /\ fLastReceivedSSRC = None
    /\ fIsCurrentlyAwaitingData = FALSE
    /\ frame = <<>> /\ nextTask = FALSE /\ delivering = FALSE
    /\ newest = 0 /\ next = 0 /\ delivered = <<>>

-----------------------------------------------------------------------------
(***************************************************************************)
(* networkReadHandler1() and storePacket().                                *)
(***************************************************************************)

TailPacket == packets[fTailPacket]

\* The most common cases: nothing waits, or nothing as new as this packet.
IsNewest(p) == packets = <<>> \/ SeqNumLT(SeqNo(TailPacket), SeqNo(p))

\* Where the search from the head stops, 0 if nowhere: at the packet itself, or
\* at the first one that is newer.
Place(p) ==
    LET Stops(q) == SeqNo(q) = SeqNo(p) \/ SeqNumLT(SeqNo(p), SeqNo(q))
    IN  SelectInSeq(packets, Stops)

IsDuplicate(p) ==
    \/ SeqNo(p) = SeqNo(TailPacket)
    \/ Place(p) # 0 /\ SeqNo(packets[Place(p)]) = SeqNo(p)

LinkIn(p) ==
    IF IsNewest(p)
    THEN /\ packets' = Append(SubSeq(packets, 1, fTailPacket), p)
         /\ fTailPacket' = Len(packets')
    ELSE IF Place(p) = 0
         THEN packets' = Append(packets, p) /\ UNCHANGED fTailPacket
         ELSE /\ packets' = InsertAt(packets, Place(p), p)
              /\ fTailPacket' = fTailPacket + 1

\* storePacket(): the packet is linked in, or refused (it is late, or a copy of
\* one that waits) and then freed.
StorePacket(n, haveSeenFirst) ==
    LET saved == Descriptor = "saved"
        p == Packet(n, saved, ~haveSeenFirst)
        expected == IF haveSeenFirst THEN fNextExpectedSeqNo ELSE SeqNo(p)
    IN  /\ fHaveSeenFirstPacket' = TRUE
        /\ fNextExpectedSeqNo' = expected
        /\ next' = IF haveSeenFirst THEN next ELSE n
        /\ IF SeqNumLT(SeqNo(p), expected) \/ (~IsNewest(p) /\ IsDuplicate(p))
           THEN /\ fSavedPacket' = Freed(saved)
                /\ UNCHANGED <<packets, fTailPacket>>
           ELSE /\ fSavedPacket' = IF saved THEN "used" ELSE fSavedPacket
                /\ LinkIn(p)

\* Whether the first packet was seen, once the SSRC has been looked at.
SeenFirst(n) == fHaveSeenFirstPacket /\ Ssrc[n] = fLastReceivedSSRC

\* What the network may do.  Packets that wait and packets that are late span
\* less than half the circle: the client and the threshold keep up with the
\* sender.  While packets of one SSRC wait none of another arrives.
MayArrive(n) ==
    /\ n \in newest - MaxDelay..newest + MaxLoss + 1
    /\ SeenFirst(n) => n < next + Half
    /\ ~SeenFirst(n) => SsrcChangesAny \/ packets = <<>>

\* A whole packet was read and its RTP header is in order.
PacketArrives(n) ==
    /\ fAreDoingNetworkReads /\ ~delivering
    /\ MayArrive(n)
    /\ newest' = Max({newest, n})
    /\ fLastReceivedSSRC' = Ssrc[n]
    /\ StorePacket(n, SeenFirst(n))
    /\ fPacketReadInProgress' = None
    /\ delivering' = TRUE
    /\ UNCHANGED <<fAreDoingNetworkReads, frameVars, clientVars>>

\* The read fails, or the RTP header is not in order.
ReadFails ==
    /\ fAreDoingNetworkReads /\ ~delivering
    /\ fSavedPacket' = Freed(Descriptor = "saved")
    /\ fPacketReadInProgress' = None
    /\ delivering' = TRUE
    /\ UNCHANGED <<fHaveSeenFirstPacket, fNextExpectedSeqNo, packets,
                   fTailPacket, next, fAreDoingNetworkReads, fLastReceivedSSRC,
                   newest, frameVars, clientVars>>

\* Over TCP only a part of the packet was there to be read.
ReadIsIncomplete ==
    /\ fAreDoingNetworkReads /\ ~delivering
    /\ fPacketReadInProgress' = Descriptor
    /\ fSavedPacket' = IF Descriptor = "saved" THEN "used" ELSE fSavedPacket
    /\ UNCHANGED <<fHaveSeenFirstPacket, fNextExpectedSeqNo, packets,
                   fTailPacket, next, fAreDoingNetworkReads, fLastReceivedSSRC,
                   newest, frameVars, clientVars, delivering>>

-----------------------------------------------------------------------------
(***************************************************************************)
(* doGetNextFrame1().                                                      *)
(***************************************************************************)

HeadPacket == Head(packets)

ExpectedIsHere ==
    packets # <<>> /\ SeqNo(HeadPacket) = fNextExpectedSeqNo

\* getNextCompletedPacket() gives the head: it is the one expected, or it has
\* waited too long (or the threshold is zero), and then it is from now on.
HeadIsTaken ==
    /\ delivering /\ fNeedDelivery
    /\ packets # <<>>

PacketLossPreceded == ~ExpectedIsHere \/ HeadPacket.isFirstPacket

\* releaseUsedPacket(), for the head.
ReleaseHead ==
    /\ fNextExpectedSeqNo' = Following(SeqNo(HeadPacket))
    /\ packets' = Tail(packets)
    /\ fTailPacket' = IF Len(packets) = 1 THEN 0 ELSE fTailPacket - 1
    /\ fSavedPacket' = Freed(HeadPacket.saved)
    /\ next' = HeadPacket.n + 1
    /\ UNCHANGED fHaveSeenFirstPacket

\* The loop ends: nothing is asked for, or the packet that is wanted has not
\* come and the time threshold is not exceeded.
LoopEnds ==
    /\ delivering
    /\ ~fNeedDelivery \/ ~ExpectedIsHere
    /\ delivering' = FALSE
    /\ UNCHANGED <<bufferVars, frameVars, readVars, clientVars>>

\* processSpecialHeader() is called for a packet that is used the first time.
HeaderIsLookedAt == HeadPacket.useCount = 0

\* "Something's wrong with the header; reject the packet": neither a loss before
\* it nor its own is noted.
RejectHeader ==
    /\ HeadIsTaken
    /\ HeaderIsLookedAt /\ Kinds[HeadPacket.n] = "malformed"
    /\ ReleaseHead
    /\ UNCHANGED <<frameVars, readVars, clientVars, delivering>>

\* The two flags when the header has been looked at: an aggregation packet
\* leaves them as they were.
BeginsFrame ==
    CASE Kinds[HeadPacket.n] \in {"single", "start"} -> TRUE
      [] Kinds[HeadPacket.n] \in {"middle", "end"} -> FALSE
      [] OTHER -> fCurrentPacketBeginsFrame

CompletesFrame ==
    CASE Kinds[HeadPacket.n] \in {"single", "end"} -> TRUE
      [] Kinds[HeadPacket.n] \in {"start", "middle"} -> FALSE
      [] OTHER -> fCurrentPacketCompletesFrame

HeadIsAccepted ==
    /\ HeadIsTaken
    /\ ~(HeaderIsLookedAt /\ Kinds[HeadPacket.n] = "malformed")
    /\ fCurrentPacketBeginsFrame' = BeginsFrame
    /\ fCurrentPacketCompletesFrame' = CompletesFrame

\* Mutant: a loss inside a frame is forgotten with the packet it precedes.
ForgetsLoss == ~BeginsFrame /\ PacketLossPreceded

\* A packet was lost in the frame that this packet goes on with.
LossInFrame ==
    ~BeginsFrame /\ (PacketLossPreceded \/ fPacketLossInFragmentedFrame)

\* "This packet is unusable; reject it".
RejectFragment ==
    /\ HeadIsAccepted
    /\ LossInFrame
    /\ fPacketLossInFragmentedFrame' = TRUE
    /\ ReleaseHead
    /\ UNCHANGED <<frame, readVars, clientVars, delivering>>

\* "Forget any data that we used from it": the frame before was not completed.
ForgetsData ==
    BeginsFrame /\ (PacketLossPreceded \/ fPacketLossInFragmentedFrame)

\* use(): the next piece of the packet is copied to the client's buffer.
UsePacket ==
    LET piece == <<HeadPacket.n, HeadPacket.useCount + 1>>
        data == IF ForgetsData THEN <<>> ELSE frame
    IN  /\ frame' = IF IsStuck(HeadPacket) THEN data ELSE Append(data, piece)
        /\ fPacketLossInFragmentedFrame' = FALSE
        /\ IF HasMore(HeadPacket)
           THEN /\ packets' = [packets EXCEPT ![1].useCount = 1]
                /\ fNextExpectedSeqNo' = SeqNo(HeadPacket)
                /\ UNCHANGED <<fHaveSeenFirstPacket, fTailPacket, fSavedPacket,
                               next>>
           ELSE ReleaseHead

\* "We have all the data that the client wants."
FrameIsComplete == CompletesFrame /\ HoldsData(frame')

\* The client wants more: the loop goes on.
UseAndContinue ==
    /\ HeadIsAccepted
    /\ ~LossInFrame
    /\ UsePacket
    /\ ~FrameIsComplete
    /\ UNCHANGED <<readVars, clientVars, delivering>>

\* The client's function is called: directly when nothing is queued, and
\* otherwise through the event loop.
UseAndDeliver ==
    /\ HeadIsAccepted
    /\ ~LossInFrame
    /\ UsePacket
    /\ FrameIsComplete
    /\ fNeedDelivery' = FALSE
    /\ IF packets' = <<>>
       THEN /\ fIsCurrentlyAwaitingData' = FALSE
            /\ delivered' = frame'
            /\ UNCHANGED nextTask
       ELSE /\ nextTask' = TRUE
            /\ UNCHANGED <<fIsCurrentlyAwaitingData, delivered>>
    /\ delivering' = FALSE
    /\ UNCHANGED readVars

-----------------------------------------------------------------------------
(***************************************************************************)
(* The client.                                                             *)
(***************************************************************************)

\* getNextFrame() and doGetNextFrame().
GetNextFrame ==
    /\ ~delivering /\ ~fIsCurrentlyAwaitingData
    /\ fIsCurrentlyAwaitingData' = TRUE
    /\ fAreDoingNetworkReads' = TRUE
    /\ frame' = <<>>
    /\ fNeedDelivery' = TRUE
    /\ delivering' = TRUE
    /\ UNCHANGED <<bufferVars, fPacketLossInFragmentedFrame,
                   fCurrentPacketBeginsFrame, fCurrentPacketCompletesFrame,
                   fPacketReadInProgress, fLastReceivedSSRC, newest, nextTask,
                   delivered>>

\* afterGetting(), called from the event loop.
AfterGetting ==
    /\ ~delivering /\ nextTask
    /\ nextTask' = FALSE
    /\ fIsCurrentlyAwaitingData' = FALSE
    /\ delivered' = frame
    /\ UNCHANGED <<bufferVars, frameVars, readVars, fNeedDelivery, delivering>>

\* stopGettingFrames() and doStopGettingFrames().  All descriptors are
\* deleted: those in the list, and fSavedPacket if it is free, as it is when
\* it was the one of an incomplete read.
StopGettingFrames ==
    /\ ~delivering
    /\ fIsCurrentlyAwaitingData' = FALSE
    /\ fHaveSeenFirstPacket' = FALSE
    /\ packets' = <<>> /\ fTailPacket' = 0
    /\ fSavedPacket' = None
    /\ fPacketReadInProgress' = None
    /\ fAreDoingNetworkReads' = FALSE
    /\ fNeedDelivery' = FALSE
    /\ fPacketLossInFragmentedFrame' = FALSE
    /\ fCurrentPacketBeginsFrame' = TRUE
    /\ fCurrentPacketCompletesFrame' = TRUE
    /\ nextTask' = FALSE
    /\ UNCHANGED <<fNextExpectedSeqNo, next, frame, fLastReceivedSSRC,
                   newest, delivered, delivering>>

Next ==
    \/ \E n \in Numbers : PacketArrives(n)
    \/ ReadFails
    \/ ReadIsIncomplete
    \/ LoopEnds
    \/ RejectHeader
    \/ RejectFragment
    \/ UseAndContinue
    \/ UseAndDeliver
    \/ GetNextFrame
    \/ AfterGetting
    \/ StopGettingFrames

Spec == Init /\ [][Next]_vars

-----------------------------------------------------------------------------
(***************************************************************************)
(* Properties.                                                             *)
(***************************************************************************)

SeqNos == 0..SeqNoRange - 1

Piece == Numbers \X (1..2)

TypeOK ==
    /\ fHaveSeenFirstPacket \in BOOLEAN
    /\ fNextExpectedSeqNo \in SeqNos
    /\ packets \in Seq([n : Numbers, saved : BOOLEAN,
                        isFirstPacket : BOOLEAN, useCount : 0..1])
    /\ fTailPacket \in Nat
    /\ fSavedPacket \in {None, "free", "used"}
    /\ fPacketReadInProgress \in {None, "saved", "new"}
    /\ fLastReceivedSSRC \in Range(Ssrc) \cup {None}
    /\ {fAreDoingNetworkReads, fNeedDelivery, fPacketLossInFragmentedFrame,
        fCurrentPacketBeginsFrame, fCurrentPacketCompletesFrame, nextTask,
        fIsCurrentlyAwaitingData, delivering} \subseteq BOOLEAN
    /\ frame \in Seq(Piece) /\ delivered \in Seq(Piece)
    /\ newest \in Nat /\ next \in Nat

\* The list is in the order in which the sender numbered the packets, without
\* repetition, although only sequence numbers that wrap around are compared;
\* nothing in it is older than what was handed on before (so no packet is
\* handed on twice or after a newer one); and fTailPacket is its last element.  A
\* packet is taken to follow the last one handed on without loss only if it really
\* is the next one the sender sent.
OrderRestored ==
    /\ \A i \in 1..Len(packets) - 1 : packets[i].n < packets[i + 1].n
    /\ packets # <<>> => next <= HeadPacket.n
    /\ fTailPacket = Len(packets)
    /\ HeadIsTaken /\ ~PacketLossPreceded /\ HeadPacket.useCount = 0
          => HeadPacket.n = next

\* fSavedPacket, the descriptor that is kept to be used again, has one holder
\* as long as it exists: it is free, or the list has it once, or the read in
\* progress has it.  So no read goes into a packet that still waits.
OneHolder ==
    LET inList == {i \in 1..Len(packets) : packets[i].saved}
        reading == fPacketReadInProgress = "saved"
    IN  CASE fSavedPacket = "used" -> Cardinality(inList) = IF reading THEN 0 ELSE 1
          [] OTHER -> inList = {} /\ ~reading

\* A NAL unit begins with the i-th piece, and nothing was copied before it.
BeginsHere(f, i) ==
    /\ Kinds[f[i][1]] \in {"single", "start"}
    /\ \A j \in 1..i - 1 : ~HasData(f[j])

\* The i-th piece is the fragment that follows the one before it.
FollowsHere(f, i) ==
    /\ i > 1
    /\ f[i][1] = f[i - 1][1] + 1 /\ Ssrc[f[i][1]] = Ssrc[f[i - 1][1]]
    /\ Kinds[f[i - 1][1]] \in {"start", "middle"}
    /\ Kinds[f[i][1]] \in {"middle", "end"}

\* The header of the packet before the i-th piece's was rejected.
AfterRejected(f, i) ==
    \E n \in Numbers : /\ f[i][1] = n + 1 /\ Kinds[n] = "malformed"
                       /\ Ssrc[f[i][1]] = Ssrc[n]

HasAggregate(f) == \E i \in 1..Len(f) : Kinds[f[i][1]] = "aggregate"

\* The client never receives a frame with a hole in it, or parts of two NAL
\* units in one, unless the header of the very packet before was rejected
\* (doGetNextFrame1() releases that packet and goes on as if nothing were
\* missing): what is rejected or forgotten because of loss is exactly what can
\* not be completed.  Here for frames without aggregation packets.
FramesAreWhole ==
    \/ delivered = <<>> \/ HasAggregate(delivered)
    \/ /\ \A i \in 1..Len(delivered) : \/ BeginsHere(delivered, i)
                                        \/ FollowsHere(delivered, i)
                                        \/ AfterRejected(delivered, i)
       /\ Kinds[delivered[Len(delivered)][1]] \in {"single", "end"}

\* The pieces of a frame are one NAL unit, complete and of one sender.
IsWhole(f) ==
    LET kind(i) == Kinds[f[i][1]]
    IN  /\ \A i \in 1..Len(f) - 1 : f[i + 1][1] = f[i][1] + 1
        /\ \A i \in 1..Len(f) : Ssrc[f[i][1]] = Ssrc[f[1][1]]
        /\ \/ Len(f) = 1 /\ kind(1) \in {"single", "aggregate"}
           \/ /\ kind(1) = "start" /\ kind(Len(f)) = "end"
              /\ \A i \in 2..Len(f) - 1 : kind(i) = "middle"

\* afterGetting() is called "after the frame has been read (*iff* it is read
\* successfully)": also when a header was rejected, and when packets aggregate
\* several NAL units.
OnlyFramesAreDelivered == delivered # <<>> => IsWhole(delivered)

=============================================================================
