---------------------------- MODULE MCKnowledge -----------------------------
(* Instances of Knowledge for TLC.                                         *)
EXTENDS Knowledge

CONSTANTS r1, r2, u1, u2, n1

TwoRequests == {r1, r2}
TwoOrganizers == {u1, u2}
OneName == {n1}
=============================================================================
