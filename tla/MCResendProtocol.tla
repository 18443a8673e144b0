-------------------------- MODULE MCResendProtocol --------------------------
(***************************************************************************)
(* Instances of ResendProtocol for TLC: somewhat more than one round of a  *)
(* small ring, and the first packets of a larger one.                      *)
(***************************************************************************)
EXTENDS ResendProtocol

Sizes == <<1, 1, 2, 3, 1, 1, 1, 1, 1, 1, 1, 2, 2, 3>>
InBothRounds == {2, 3, 4, 18, 19}

FewSizes == <<1, 2, 3, 1>>
AllOfThem == 1 .. 7
=============================================================================
