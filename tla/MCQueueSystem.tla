---------------------------- MODULE MCQueueSystem ---------------------------
(* Instances of QueueSystem for TLC.                                       *)
EXTENDS QueueSystem, TLC

Symmetry ==
  Permutations(Requests) \cup Permutations(Customers) \cup Permutations(Managers)

AllAdminOperations == {"transition", "update", "restore", "softDelete"}

\* Any status; deletedAt, on a queue that stays active; a statistic.
SomeBodies ==
  {Only(status) : status \in QueueStatuses \cup {"none"}}
    \cup {[Only("active") EXCEPT !.deleted = TRUE],
          [Only("none") EXCEPT !.length = 1]}

\* No remove, which leaves gaps in the line.  cancel and noShow are left out,
\* which end an entry as leave and completeService do, and recall, which leaves
\* it active.
CounterOperations ==
  {"join", "leave", "callNext", "skip", "startService", "completeService",
   "expire"}
=============================================================================
