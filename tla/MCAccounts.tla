---------------------------- MODULE MCAccounts ------------------------------
(* Instances of Accounts for TLC.                                          *)
EXTENDS Accounts

CONSTANTS r1, r2, p1, p2

TwoRequests == {r1, r2}
TwoPasswords == {p1, p2}
=============================================================================
