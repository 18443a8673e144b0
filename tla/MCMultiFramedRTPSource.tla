----------------------- MODULE MCMultiFramedRTPSource -----------------------
(***************************************************************************)
(* Values for checking MultiFramedRTPSource: a stream of a few packets     *)
(* with every kind of packet.  Sequence numbers wrap around in the middle  *)
(* of a fragmented NAL unit.  The sender changes its SSRC, and with it the *)
(* sequence numbers, in the middle of another.  One header is rejected     *)
(* inside a NAL unit.  Some packets lack data.                             *)
(***************************************************************************)
EXTENDS MultiFramedRTPSource

Stream ==
    [n \in 0..14 |-> <<"single", "start", "middle", "end", "aggregate", "start",
                       "malformed", "end", "start", "middle", "start", "middle",
                       "end", "single", "aggregate">>[n + 1]]

LackData == {2, 7, 14}

SsrcChanges == [n \in 0..14 |-> IF n < 10 THEN "first" ELSE "second"]

FirstSeqNos == [first |-> 6, second |-> 3]

ShortStream ==
    [n \in 0..5 |-> <<"single", "start", "end", "aggregate", "start", "end">>[n + 1]]

StreamWithRejected ==
    [n \in 0..5 |-> <<"single", "start", "malformed", "end", "single", "single">>[n + 1]]

OneSsrc == [n \in 0..5 |-> "first"]

=============================================================================
