--------------------------- MODULE MCQueueEntries ---------------------------
(* Instances of QueueEntries for TLC.                                      *)
EXTENDS QueueEntries, TLC

Symmetry == Permutations(Requests) \cup Permutations(Customers)

\* Two operators and a customer over the entries of one customer.
OperatorOperations ==
  {"join", "callNext", "recall", "startService", "cancel",
   "crash"}

\* Joins compete for tokens and capacity; removals free customers, not tokens.
JoinOperations == {"join", "remove"}

ServeAndLeave ==
  {"join", "callNext", "startService", "completeService", "leave"}
=============================================================================
