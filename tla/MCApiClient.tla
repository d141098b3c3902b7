---------------------------- MODULE MCApiClient -----------------------------
(* Instances of ApiClient for TLC: two calls that share the refresh of     *)
(* their tab.  A refresh at start stands for the refresh of a second tab:  *)
(* it overlaps the shared one in the same way.                             *)
EXTENDS ApiClient

CONSTANTS t1, k1, k2

OneTab == {t1}
TwoCalls == {k1, k2}
OneTabSlots == OneTab \cup TwoCalls
OneTabOf == [k \in TwoCalls |-> t1]
=============================================================================
