---------------------------- MODULE MCLiveQueue -----------------------------
(* Instances of LiveQueue for TLC: one request at a time.                  *)
EXTENDS LiveQueue

CONSTANTS a, b, r1

TwoCustomers == {a, b}
OneRequest == {r1}

\* One operation of each kind: announced, not announced, announced as a live
\* update.
OneOfEachKind ==
  {"join", "callNext", "startService", "completeService", "expire"}
=============================================================================
