--------------------------- MODULE PackageBuffer ---------------------------
(***************************************************************************)
(* The buffer in which Pkg_Receiver puts the packets of one sender in      *)
(* order (Tbuf): a ring of slots, of which those from the head to the tail *)
(* are in use, and a record of each packet whose resending was asked for.  *)
(* Every operator is what a function of the code makes of the buffer.      *)
(*                                                                         *)
(* Packets are numbered as they are sent; a packet carries only its slot,  *)
(* its number modulo the size of the ring, and slots are used again and    *)
(* again.  A NALU is sent in one packet or more, the first of which says   *)
(* how many.                                                               *)
(***************************************************************************)
EXTENDS Integers, FiniteSets, SequencesExt

CONSTANTS
    NaluSizes,     \* packets of each NALU that is sent
    QueueSize,     \* QUEUE_SIZE
    FirstSlot,     \* slot of the packet sent before the first one here
    WindowSize,    \* window_size
    MaxRequests,   \* a packet is asked for once more than this
    Countdown,     \* packets received before it is asked for, and again
    Invalid        \* in a slot without a valid packet

ASSUME BufferAssumption ==
    /\ NaluSizes \in Seq(Nat \ {0})
    /\ {WindowSize, Countdown} \subseteq Nat \ {0} /\ MaxRequests \in Nat
    /\ QueueSize \in Nat /\ QueueSize >= 4 * WindowSize /\ FirstSlot \in Nat
    /\ Invalid \notin Int

Slots == 0 .. QueueSize - 1
none == -1       \* of head, tail and current

LastPacket[i \in 0 .. Len(NaluSizes)] ==
    IF i = 0 THEN 0 ELSE LastPacket[i - 1] + NaluSizes[i]
Packets == 1 .. LastPacket[Len(NaluSizes)]
NaluOf == [p \in Packets |-> CHOOSE i \in 1 .. Len(NaluSizes) :
                                LastPacket[i - 1] < p /\ p <= LastPacket[i]]
IsFirst(p) == p = LastPacket[NaluOf[p] - 1] + 1
slot_index(p) == (FirstSlot + p) % QueueSize

pre_index(s) == (s + QueueSize - 1) % QueueSize
next_index(s, i) == (s + i) % QueueSize

distance(s, t) ==
    LET d == IF s > t THEN s - t ELSE t - s
    IN  1 + (IF d < QueueSize - d THEN d ELSE QueueSize - d)

\* The slots from s up to, but without, t.
Ahead(s, t) == (t - s + QueueSize) % QueueSize
From(s, t) == {next_index(s, i) : i \in 0 .. Ahead(s, t) - 1}

\* History: the tail is before the head.
IsAstray(b) == Ahead(b.head, b.tail) >= QueueSize \div 2

\* History: among the packets in use, where the head stands for packet "first",
\* there is one of another round, which was left in its slot.
HasStale(b, first) ==
    \E s \in From(b.head, b.tail) \cup {b.tail} :
        b.vpkg[s] \notin {Invalid, first + Ahead(b.head, s)}

EmptyBuffer ==
    [vpkg |-> [s \in Slots |-> Invalid],   \* the valid packets
     head |-> none, tail |-> none, current |-> none,
     qos |-> <<>>]                      \* qos_records

NewRecord == [request_count |-> 0, countdown |-> Countdown]

Missing(b, slots) == {s \in slots : b.vpkg[s] = Invalid}

ResetPackets(b, slots) ==
    [b EXCEPT !.vpkg = [s \in Slots |-> IF s \in slots THEN Invalid ELSE @[s]]]

\* reset(): invalid_all_package() does not go round the end of the ring, and
\* the records of requests are kept.
Reset(b) ==
    [ResetPackets(b, IF b.head = none THEN {} ELSE b.head .. b.tail)
        EXCEPT !.head = none, !.tail = none, !.current = none]

Erase(b, slots) ==
    [b EXCEPT !.qos = Restrict(@, DOMAIN @ \ slots)]

-----------------------------------------------------------------------------
(***************************************************************************)
(* A packet is received.                                                   *)
(***************************************************************************)

\* handle_normal_pkg(), unless the packet is discarded.
NormalHandled(b) ==
    IF b.head = none THEN [b EXCEPT !.head = b.current, !.tail = b.current]
    ELSE [b EXCEPT !.tail = b.current]

\* Mutant: lost packets are not asked for.
NothingRequested(b, slots) == b

\* add_qos_request() for each missing packet.
Requested(b, slots) ==
    [b EXCEPT !.qos = [s \in DOMAIN @ \cup Missing(b, slots) |->
                          IF s \in DOMAIN @ THEN @[s] ELSE NewRecord]]

\* Mutant: a packet from before the head becomes the head.
EarlierIsHead(b) ==
    LET d_h == distance(b.head, b.current)
        d_t == distance(b.tail, b.current)
        d_ht == distance(b.head, b.tail)
    IN  IF b.current \in {b.head, b.tail} THEN b
        ELSE IF d_h + 1 = d_t + d_ht /\ d_t < WindowSize
        THEN Requested([b EXCEPT !.tail = b.current], From(b.head, b.current))
        ELSE IF d_h + d_ht = d_t + 1 THEN [b EXCEPT !.head = b.current]
        ELSE b

\* handle_lost(): the packet does not follow the one that was received before.
\* before_head_flow never counts: it would count packets that do follow it.
LostHandled(b) ==
    LET d_h == distance(b.head, b.current)
        d_t == distance(b.tail, b.current)
        d_ht == distance(b.head, b.tail)
    IN  IF b.current \in {b.head, b.tail} THEN b
        ELSE IF d_h + 1 = d_t + d_ht /\ d_t < WindowSize
        THEN Requested([b EXCEPT !.tail = b.current], From(b.head, b.current))
        ELSE IF d_h + d_ht = d_t + 1 THEN ResetPackets(b, {b.current})
        ELSE b

-----------------------------------------------------------------------------
(***************************************************************************)
(* NALUs are combined.                                                     *)
(***************************************************************************)
HeadPackage(b) == b.vpkg[b.head]

\* The packets of the NALU at the head, and how many of them are there up to
\* the first that is not (current_nalu_pkg_count()).
Size(b) == IF HeadPackage(b) = Invalid THEN 0 ELSE NaluSizes[NaluOf[HeadPackage(b)]]
NaluSlots(b) == {next_index(b.head, i) : i \in 0 .. Size(b) - 1}

\* move_to_next_head()
NextHead(b) ==
    LET head == next_index(b.head, Size(b))
        left == Erase(ResetPackets(b, NaluSlots(b)), NaluSlots(b))
    IN  IF Size(b) = 0 \/ distance(b.head, b.tail) < Size(b) THEN b
        ELSE [left EXCEPT !.head = head,
                          !.tail = IF left.vpkg[next_index(head, 1)] = Invalid
                                   THEN head ELSE @]

\* scan_pkg(): what is left of the buffer, and whether it returns 0, that is
\* whether to take a NALU from it.
Scanned(b) ==
    LET received == From(b.head, b.tail) \ Missing(b, From(b.head, b.tail))
        missing == Missing(b, NaluSlots(b))
        lost == \E s \in missing :
                   /\ s \notin DOMAIN b.qos
                   /\ \A t \in missing : Ahead(b.head, s) <= Ahead(b.head, t)
    IN  IF HeadPackage(b) # Invalid /\ ~IsFirst(HeadPackage(b))
        THEN [buffer |-> Reset(b), more |-> FALSE]
        ELSE IF HeadPackage(b) = Invalid \/ Size(b) > Cardinality(received)
        THEN [buffer |-> b, more |-> FALSE]
        ELSE IF missing = {} THEN [buffer |-> b, more |-> TRUE]
        ELSE IF lost THEN [buffer |-> NextHead(b), more |-> TRUE]
        ELSE [buffer |-> b, more |-> FALSE]

\* Mutant: the first packet is enough.
HeadIsHere(b) == HeadPackage(b) # Invalid /\ IsFirst(HeadPackage(b))

\* get_current_nalu() finds the whole of it.
IsWhole(b) == /\ HeadPackage(b) # Invalid /\ IsFirst(HeadPackage(b))
              /\ Missing(b, NaluSlots(b)) = {}

Taken(b) == [i \in 1 .. Size(b) |-> b.vpkg[next_index(b.head, i - 1)]]

\* History: the tail is behind the NALU at the head, and not before the head.
TailIsBehind(b) ==
    Size(b) <= Ahead(b.head, b.tail) /\ ~IsAstray(b)

\* The loop of combine_callback(), after i NALUs were taken or it ended: how
\* the last scan_pkg() left the buffer, and what the callback was given.
Rounds(b) ==
    LET after[i \in 0 .. QueueSize] ==
            IF i = 0 THEN [scan |-> Scanned(b), nalus |-> <<>>, misled |-> FALSE]
            ELSE LET before == after[i - 1]
                     left == before.scan.buffer
                 IN  IF before.scan.more /\ IsWhole(left)
                     THEN [scan |-> Scanned(NextHead(left)),
                           nalus |-> Append(before.nalus, Taken(left)),
                           misled |-> before.misled \/ ~TailIsBehind(left)]
                     ELSE before
    IN  after

\* What the handling of a packet makes of the buffer, what it gives to the
\* callback, and (history) whether the tail was not behind a NALU given.
Result(b, nalus, misled) == [buffer |-> b, nalus |-> nalus, misled |-> misled]

Combined(b) ==
    LET end == Rounds(b)[QueueSize]
    IN  Result(end.scan.buffer, end.nalus, end.misled)

Closer(record) == [record EXCEPT !.countdown = @ - 1]

CountedDown(b) == [b EXCEPT !.qos = [s \in DOMAIN @ |-> Closer(@[s])]]

HasOverflowed(b) == distance(b.head, b.tail) > WindowSize

\* combine_callback().  When there are more slots in use than the window has,
\* move_ht_needed() invalidates every packet before it looks at it, finds none
\* to begin with, and resets the buffer.
CombineCallback(b) ==
    IF HasOverflowed(b)
    THEN Result(Reset(ResetPackets(CountedDown(b),
                                   From(b.head, b.tail) \cup {b.tail})),
                <<>>, FALSE)
    ELSE Combined(CountedDown(b))

-----------------------------------------------------------------------------
(***************************************************************************)
(* pkg_handler(): the buffer and the NALUs that it gave to the callback.   *)
(***************************************************************************)
Stored(b, p) == [b EXCEPT !.vpkg[slot_index(p)] = p]

\* A packet that is sent again is not combined with the others yet.
HandleResent(b, p) ==
    Result(Erase(Stored(b, p), {slot_index(p)}), <<>>, FALSE)

\* What it makes of the buffer before NALUs are combined.
Placed(b, p) ==
    LET s == slot_index(p)
        stored == [Stored(b, p) EXCEPT !.current = s]
    IN  IF b.head # none /\ b.current # pre_index(s) THEN LostHandled(stored)
        ELSE IF b.head # none \/ IsFirst(p) THEN NormalHandled(stored)
        ELSE stored

HandlePackage(b, p) ==
    LET placed == Placed(b, p)
    IN  IF placed.head = none THEN Result(placed, <<>>, FALSE)
        ELSE CombineCallback(placed)

\* Mutant: a record that was asked for as often as allowed is kept.
DueIfFew(record) == record.request_count < MaxRequests /\ record.countdown = 0

\* run(), after each packet: requests are sent, or given up.
IsDue(record) == record.request_count <= MaxRequests /\ record.countdown = 0

DueSlots(b) == {s \in DOMAIN b.qos : IsDue(b.qos[s])}
GivenUpSlots(b) == {s \in DOMAIN b.qos : b.qos[s].request_count > MaxRequests}

RequestsSent(b) ==
    LET left == Erase(b, GivenUpSlots(b))
    IN  [left EXCEPT !.qos =
            [s \in DOMAIN @ |->
                IF IsDue(@[s]) THEN [request_count |-> @[s].request_count + 1,
                                     countdown |-> Countdown]
                ELSE @[s]]]

=============================================================================
