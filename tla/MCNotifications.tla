-------------------------- MODULE MCNotifications ---------------------------
(* Instances of Notifications for TLC.                                     *)
EXTENDS Notifications

CONSTANTS u1, u2, e1

TwoThunks == {u1, u2}
OneEvent == {e1}

OneOrTwo == {1, 2}
=============================================================================
