--------------------------- MODULE ResendProtocol ---------------------------
(***************************************************************************)
(* The protocol that sends NALUs over UDP and asks again for the packets   *)
(* that were lost: the sender (Resend_Protocol_Send_Handler), which keeps  *)
(* each packet in its slot of a ring until the next round, and may be      *)
(* started anew; the receiver (Pkg_Receiver), of which the buffer is in    *)
(* PackageBuffer; and a network that loses packets, requests and answers,  *)
(* and delays them.  What takes the requests and answers them from the     *)
(* ring is not part of the repository.                                     *)
(***************************************************************************)
EXTENDS PackageBuffer

CONSTANTS
    Lossy,          \* bound: packets of which the first copy may be lost or delayed
    MaxLate,        \* bound: packets sent before a delayed one arrives
    MaxRestarts     \* bound: times that the sender starts anew

ASSUME ProtocolAssumption ==
    /\ MaxLate \in Nat \ {0} /\ MaxLate + 2 <= QueueSize \div 2
    /\ MaxRestarts \in Nat /\ Lossy \subseteq Packets

VARIABLES
    sent,       \* number of the packet sent last, or before the sender started
    started,    \* that number when it started
    telling,    \* the packet that says that it started is on its way
    restarts,
    delayed,    \* packets of which the first copy is on its way
    requests,   \* slots that are asked for, or of which answers are on their way
    buffer,     \* the receiver's
    nalus,      \* what the last packet made it give to the callback
    \* history:
    first,      \* the packet for which the head of the buffer stands, or 0
    last,       \* the last NALU given before, since the buffer was reset, or 0
    givenUp,    \* packets since then that it stopped asking for
    misled      \* whether, since then, the receiver ever met one of the mishaps
                \* of Misled, or gave a NALU behind which the tail was not

senderVars == <<sent, started, telling, restarts>>
receiverVars == <<buffer, nalus, first, last, givenUp, misled>>
protocolVars == <<senderVars, delayed, requests, receiverVars>>

ProtocolInit ==
    /\ sent = 0 /\ started = 0 /\ telling = FALSE /\ restarts = 0
    /\ delayed = {} /\ requests = {}
    /\ buffer = EmptyBuffer /\ nalus = <<>>
    /\ first = 0 /\ last = 0 /\ givenUp = {} /\ misled = FALSE

\* Of n packets, the last in a slot.
LastIn(s, n) == {p \in n - QueueSize + 1 .. n : p > 0 /\ slot_index(p) = s}

\* What get_vsyn_pkg() finds in a slot.
SentIn(s) == {p \in LastIn(s, sent) : p > started}

\* Packets that may still arrive when n packets have been sent.
InTime(n) == n - MaxLate .. n

\* combine_callback() does not return if it gives a NALU that it does not remove.
Returned == Len(nalus) < QueueSize

\* The packet for which the head of b stands, when packet p was handled: the head
\* was set to that packet, or moved on, or back if that is not as far.
HeadFor(b, p) ==
    LET from == IF buffer.head = none THEN slot_index(p) ELSE buffer.head
        before == IF buffer.head = none THEN p ELSE first
        moved == Ahead(from, b.head)
    IN  IF b.head = none THEN 0
        ELSE before + (IF moved < QueueSize \div 2 THEN moved ELSE moved - QueueSize)

\* Packet p is placed, and this misleads the receiver: the tail is before the
\* head, or a packet of another round is between them, or p is half a round or
\* more ahead of the head.
Misled(placed, p) ==
    placed.head # none /\ \/ IsAstray(placed)
                          \/ HasStale(placed, HeadFor(placed, p))
                          \/ p - HeadFor(placed, p) >= QueueSize \div 2

\* The packets, of n that were sent, that are given up in b, of which the head
\* stands for packet "head".
LeftOut(b, head, n) == {q \in 1 .. n : \E s \in GivenUpSlots(b) : q = head + Ahead(b.head, s)}

\* The receiver handled packet p, if any, with this result, was misled or not,
\* and then sends requests; n packets have been sent, and the slots "tooLate" are
\* no longer asked for.
Handled(result, p, mishap, n, tooLate) ==
    LET b == result.buffer
    IN  /\ Returned
        /\ buffer' = RequestsSent(b)
        /\ nalus' = result.nalus
        /\ requests' = (requests \ tooLate) \cup DueSlots(b)
        /\ misled' = \/ misled /\ buffer.head # none
                     \/ result.misled \/ mishap
        /\ first' = HeadFor(b, p)
        /\ last' = IF buffer.head = none THEN 0
                   ELSE IF nalus = <<>> THEN last ELSE NaluOf[nalus[Len(nalus)][1]]
        /\ givenUp' = IF b.head = none THEN {}
                      ELSE {q \in givenUp \cup LeftOut(b, first', n) : NaluOf[q] > last'}

Receive(p, n, tooLate) ==
    Handled(HandlePackage(buffer, p), p, Misled(Placed(buffer, p), p), n, tooLate)

\* Requests and answers that are too late now are lost.
TooLate(n) == {s \in requests : LastIn(s, n) \cap InTime(n) = {}}

\* operator() of the sender keeps a packet in the ring and sends it.
Send ==
    /\ sent < Cardinality(Packets)
    /\ sent' = sent + 1
    /\ \/ /\ Receive(sent', sent', TooLate(sent'))
          /\ delayed' = delayed \cap InTime(sent')
       \/ /\ sent' \in Lossy
          /\ \E some \in SUBSET {sent'} :
                delayed' = (delayed \cap InTime(sent')) \cup some
          /\ requests' = requests \ TooLate(sent')
          /\ UNCHANGED receiverVars
    /\ UNCHANGED <<started, telling, restarts>>

DelayedArrives(p) ==
    /\ p \in delayed
    /\ delayed' = delayed \ {p}
    /\ Receive(p, sent, {})
    /\ UNCHANGED senderVars

\* A packet that was asked for more than once may be sent again as often.
ResentArrives(p) ==
    /\ slot_index(p) \in requests /\ p \in SentIn(slot_index(p))
    /\ LET mishap == buffer.head # none /\ HasStale(Stored(buffer, p), first)
       IN  Handled(HandleResent(buffer, p), p, mishap, sent, {})
    /\ UNCHANGED <<senderVars, delayed>>

\* The sender starts anew and counts from slot 0.  It has nothing to send again.
Restart ==
    /\ restarts < MaxRestarts
    /\ restarts' = restarts + 1
    /\ \E n \in sent .. sent + QueueSize - 1 :
          /\ n + 1 \in Packets /\ IsFirst(n + 1) /\ slot_index(n + 1) = 0
          /\ sent' = n
    /\ started' = sent'
    /\ telling' = TRUE
    /\ delayed' = delayed \cap InTime(sent')
    /\ requests' = {}
    /\ UNCHANGED receiverVars

\* The packet that tells the receiver so arrives, if it is not lost.
Reinit ==
    /\ telling /\ started \in InTime(sent)
    /\ telling' = FALSE
    /\ Handled(Result(Reset(buffer), <<>>, FALSE), 0, FALSE, sent, {})
    /\ UNCHANGED <<sent, started, restarts, delayed>>

ProtocolNext ==
    \/ Send
    \/ Restart
    \/ Reinit
    \/ \E p \in Packets : DelayedArrives(p)
    \/ \E p \in Packets : ResentArrives(p)

ProtocolSpec == ProtocolInit /\ [][ProtocolNext]_protocolVars

-----------------------------------------------------------------------------
BufferOK ==
    /\ buffer.vpkg \in [Slots -> Packets \cup {Invalid}]
    /\ {buffer.head, buffer.tail, buffer.current} \subseteq Slots \cup {none}
    /\ buffer.head = none <=> buffer.tail = none
    /\ DOMAIN buffer.qos \subseteq Slots
    /\ \A s \in DOMAIN buffer.qos :
          /\ buffer.qos[s].request_count \in 0 .. MaxRequests + 1
          /\ buffer.qos[s].countdown \in 1 .. Countdown

\* The variables have their types.
ProtocolTypeOK ==
    /\ sent \in 0 .. Cardinality(Packets) /\ started \in 0 .. sent
    /\ telling \in BOOLEAN /\ restarts \in 0 .. MaxRestarts
    /\ delayed \cup givenUp \subseteq 1 .. sent
    /\ requests \subseteq Slots /\ misled \in BOOLEAN
    /\ BufferOK
    /\ nalus \in Seq(Seq(Packets)) /\ first \in Int /\ last \in 0 .. Len(NaluSizes)

PackagesOf(nalu) == [i \in 1 .. NaluSizes[nalu] |-> LastPacket[nalu - 1] + i]

\* Each of its packets is the one that it says, or has its slot in another round.
HasSlotsOf(packages, nalu) ==
    /\ Len(packages) = NaluSizes[nalu]
    /\ \A i \in 1 .. NaluSizes[nalu] :
          /\ packages[i] # Invalid
          /\ slot_index(packages[i]) = slot_index(PackagesOf(nalu)[i])

Numbers == [i \in DOMAIN nalus |-> NaluOf[nalus[i][1]]]

\* What the callback is given has the packets of a NALU in order, none missing,
\* and until the receiver was misled it is the NALU: it has no packet of another
\* round in the place of one that was lost.
NalusAreWhole ==
    [][\A i \in DOMAIN nalus' :
          \E nalu \in 1 .. Len(NaluSizes) :
             /\ HasSlotsOf(nalus'[i], nalu)
             /\ ~misled' => nalus'[i] = PackagesOf(nalu)]_protocolVars

\* The number of the NALU that was given before this one, or 0.
Before(i) == IF i = 1 THEN last ELSE Numbers[i - 1]

\* Until the buffer is reset, or the receiver is misled, NALUs are given in order,
\* each once: what is late, or sent again, is neither given before what precedes
\* it nor given again.
InOrder == ~misled => \A i \in DOMAIN nalus : Numbers[i] > Before(i)

\* Until the buffer is reset, or the receiver is misled, a NALU is skipped only if
\* a packet of it was given up; what is late, or sent again, is waited for, and
\* what is missing between head and tail is asked for.
SkippedIfGivenUp ==
    ~misled =>
        /\ \A i \in DOMAIN nalus : Before(i) # 0 =>
              \A nalu \in Before(i) + 1 .. Numbers[i] - 1 :
                 ToSet(PackagesOf(nalu)) \cap givenUp # {}
        /\ buffer.head # none =>
              \A s \in Missing(buffer, From(buffer.head, buffer.tail)) :
                 s \in DOMAIN buffer.qos \/ first + Ahead(buffer.head, s) \in givenUp

\* A packet from before the head is discarded, and so the tail is never before
\* the head.  (pkg_buf.cpp, the comment in handle_lost().  It does not hold.)
EarlierIsDiscarded == buffer.head # none => ~IsAstray(buffer)

\* A NALU that was given is removed, as long as the tail is not before the head:
\* "callback and move head tail" (pkg_recevicer.h:55).  (It does not hold: the
\* tail may be inside the NALU.)
GivenIsRemoved ==
    buffer.head # none /\ ~IsAstray(buffer) /\ nalus # <<>> =>
        HeadPackage(buffer) # nalus[Len(nalus)][1]

\* What the callback is given is a NALU as it was sent.  (It does not hold: a
\* packet of an earlier round that was left in its slot is taken for a new one.)
NalusAreNew ==
    [][\A i \in DOMAIN nalus' :
          \E nalu \in 1 .. Len(NaluSizes) : nalus'[i] = PackagesOf(nalu)]_protocolVars

\* Once the receiver was told that the sender started anew, none of the packets in
\* use is of another round: one that was lost is missing, and so it is asked for.
\* (It does not hold either.)
LostIsMissing ==
    buffer.head # none /\ ~IsAstray(buffer) /\ ~telling => ~HasStale(buffer, first)

=============================================================================
