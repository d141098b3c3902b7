--------------------------- MODULE QueueProcessing --------------------------
(***************************************************************************)
(* The counter operators' side of a queue                                  *)
(* (services/queueProcessingService.js): calling, recalling, serving,      *)
(* skipping and expiring entries, and `recalculate', which every operation *)
(* that changes an entry runs afterwards.                                  *)
(*                                                                         *)
(* Many HTTP requests are in flight at once.  A request is a record: `pc'  *)
(* names the database call it awaits next and the other fields are the     *)
(* local variables of the handler that it still uses after that call.  A   *)
(* step runs one call and the synchronous code up to the next await.  A    *)
(* request that is answered, with or without an error, becomes Idle again. *)
(*                                                                         *)
(* Not modelled: the role checks, audit.record and the broadcasts at the   *)
(* end of a handler.  They follow the last write and touch neither entries *)
(* nor queue.                                                              *)
(***************************************************************************)
EXTENDS QueueStore

CONSTANTS
  Requests,               \* the requests that may be in flight together
  Operations              \* the operations that are asked for

VARIABLE request

-----------------------------------------------------------------------------
(* The transition table `allowed', as a set of edges.                      *)

\* Mutant: a recalled entry may be recalled again.
allowed_RecallAgain ==
       {"waiting"} \X {"called", "skipped", "cancelled", "expired"}
  \cup {"called"} \X {"recalled", "in_service", "skipped", "no_show",
                      "cancelled", "expired"}
  \cup {"recalled"} \X {"recalled", "in_service", "skipped", "no_show",
                        "cancelled", "expired"}
  \cup {"in_service"} \X {"completed", "no_show", "cancelled"}

allowed ==
       {"waiting"} \X {"called", "skipped", "cancelled", "expired"}
  \cup {"called"} \X {"recalled", "in_service", "skipped", "no_show",
                      "cancelled", "expired"}
  \cup {"recalled"} \X {"in_service", "skipped", "no_show", "cancelled",
                        "expired"}
  \cup {"in_service"} \X {"completed", "no_show", "cancelled"}

\* The status each handler passes to transitionEntry, from the one it read.
Outcome ==
  [skip |-> "skipped", startService |-> "in_service",
   completeService |-> "completed", noShow |-> "no_show", expire |-> "expired"]

Target(op, status) ==
  IF op = "recall"
  THEN IF status \in {"called", "recalled"} THEN "recalled" ELSE "called"
  ELSE Outcome[op]

-----------------------------------------------------------------------------
(* Requests.                                                               *)

ProgramCounters ==
  {"idle",
   "findActiveByCustomer", "countActive", "nextTokenNumber", "position",
   "create",                                             \* join
   "withdraw", "findQueue",                              \* leave, cancel
   "remove",
   "findNextWaiting", "commit", "getQueue",              \* transitionEntry
   "findActiveOrdered", "writePositions", "count", "writeStatistics"}

Kinds == {"none", "join", "withdraw", "remove", "transition"}

Request ==
  [pc : ProgramCounters, kind : Kinds,
   customer : Customers \cup {"none"},         \* join: whose ticket
   attempt : 0..2, token : Nat, place : Nat,   \* join: number and position
   id : Nat,                                   \* the entry
   seen : EntryStatuses \cup {"none"},         \* transition: entry.status read
   to : EntryStatuses \cup {"none"},           \* the status to write
   hasQueue : BOOLEAN,                         \* recalculate: queue is not null
   writes : SUBSET (Nat \X Nat),               \* positions still to be written
   counted : SUBSET {"length", "served"},
   length : Nat, served : Nat]

Idle ==
  [pc |-> "idle", kind |-> "none", customer |-> "none", attempt |-> 0,
   token |-> 0, place |-> 0, id |-> 0, seen |-> "none", to |-> "none",
   hasQueue |-> TRUE, writes |-> {}, counted |-> {}, length |-> 0, served |-> 0]

Continue(r, locals) == request' = [request EXCEPT ![r] = locals]

Respond(r) == Continue(r, Idle)
Await(r, pc) == Continue(r, [request[r] EXCEPT !.pc = pc])

\* recalculate is entered: of the caller's variables only the entry matters.
Recalculating(r, kind, id, seen, hasQueue) ==
  Continue(r, [Idle EXCEPT !.pc = "findActiveOrdered", !.kind = kind,
                           !.id = id, !.seen = seen, !.hasQueue = hasQueue])

-----------------------------------------------------------------------------
(* transitionEntry and its callers.                                        *)

CallNext(r) ==
  /\ request[r].pc = "idle" /\ "callNext" \in Operations
  /\ QueueExists /\ queue.isActive /\ queue.status = "active"
  /\ Continue(r, [request[r] EXCEPT !.pc = "findNextWaiting",
                                    !.kind = "transition"])
  /\ UNCHANGED store

FindNextWaiting(r) ==
  /\ request[r].pc = "findNextWaiting"
  /\ \/ NextWaiting = {} /\ Respond(r)
     \/ \E i \in NextWaiting :
          Continue(r, [request[r] EXCEPT !.pc = "commit", !.id = i,
                                         !.seen = "waiting", !.to = "called"])
  /\ UNCHANGED store

\* recall, skip, startService, completeService, noShow and expire read the
\* entry; assertTransition refuses what `allowed' does not list.
ProcessEntry(r, op, i) ==
  /\ request[r].pc = "idle" /\ op \in Operations
  /\ EntryExists(i)
  /\ <<entries[i].status, Target(op, entries[i].status)>> \in allowed
  /\ Continue(r, [request[r] EXCEPT !.pc = "commit", !.id = i,
                                    !.kind = "transition",
                                    !.seen = entries[i].status,
                                    !.to = Target(op, entries[i].status)])
  /\ UNCHANGED store

\* Mutant: the update without expectedStatus.
Commit_AnyStatus(r) ==
  LET i == request[r].id
  IN  /\ request[r].pc = "commit"
      /\ UpdateEntry(i, TRUE, [entries[i] EXCEPT !.status = request[r].to])
      /\ IF EntryExists(i) THEN Await(r, "getQueue") ELSE Respond(r)
      /\ UNCHANGED queue

\* The compare-and-set on the status that was read; a loser gets a conflict.
Commit(r) ==
  LET i == request[r].id
      to == request[r].to
      wins == EntryExists(i) /\ entries[i].status = request[r].seen
  IN  /\ request[r].pc = "commit"
      /\ UpdateEntry(i, entries[i].status = request[r].seen,
           [entries[i] EXCEPT !.status = to,
                              !.position = IF to = "skipped" THEN 0 ELSE @])
      /\ IF wins THEN Await(r, "getQueue") ELSE Respond(r)
      /\ UNCHANGED queue

\* Mutant: only an active queue is recalculated.
GetQueue_ActiveOnly(r) ==
  /\ request[r].pc = "getQueue"
  /\ IF QueueExists /\ queue.isActive
     THEN Recalculating(r, "transition", request[r].id, request[r].seen, TRUE)
     ELSE Respond(r)
  /\ UNCHANGED store

\* The status is already written when a deleted queue makes this throw.
GetQueue(r) ==
  /\ request[r].pc = "getQueue"
  /\ IF QueueExists
     THEN Recalculating(r, "transition", request[r].id, request[r].seen, TRUE)
     ELSE Respond(r)
  /\ UNCHANGED store

-----------------------------------------------------------------------------
(* recalculate.                                                            *)

Waiting == FindByStatus({"waiting"})

\* Mutant: positions are counted from 0.
NewPositions_FromZero ==
       {<<i, Cardinality({j \in Waiting : Before(j, i)})>> : i \in Waiting}
  \cup ((FindByStatus(ActiveStatuses) \ Waiting) \X {0})

\* What the map over findActiveOrdered wants to write: 1, 2, ... in the order
\* read for the waiting entries, 0 for the others.
NewPositions ==
       {<<i, 1 + Cardinality({j \in Waiting : Before(j, i)})>> : i \in Waiting}
  \cup ((FindByStatus(ActiveStatuses) \ Waiting) \X {0})

\* Mutant: no way on for a queue without active entries.
FindActiveOrdered_NeverEmpty(r) ==
  /\ request[r].pc = "findActiveOrdered"
  /\ Continue(r, [request[r] EXCEPT !.writes = NewPositions,
                                    !.pc = "writePositions"])
  /\ UNCHANGED store

\* Without a queue the callback throws at the first waiting entry, before
\* Promise.all has started any of the updates.
FindActiveOrdered(r) ==
  /\ request[r].pc = "findActiveOrdered"
  /\ IF ~request[r].hasQueue /\ Waiting # {}
     THEN Respond(r)
     ELSE Continue(r, [request[r] EXCEPT
                         !.writes = NewPositions,
                         !.pc = IF NewPositions = {} THEN "count"
                                                     ELSE "writePositions"])
  /\ UNCHANGED store

\* Promise.all issues the updates together: they land in any order.
WritePosition(r, write) ==
  LET left == request[r].writes \ {write}
  IN  /\ request[r].pc = "writePositions"
      /\ write \in request[r].writes
      /\ UpdateEntry(write[1], TRUE,
                     [entries[write[1]] EXCEPT !.position = write[2]])
      /\ Continue(r, [request[r] EXCEPT
                         !.writes = left,
                         !.pc = IF left = {} THEN "count" ELSE @])
      /\ UNCHANGED queue

\* The counts run together as well, each at its own moment.
Count(r, field) ==
  LET counted == request[r].counted \cup {field}
  IN  /\ request[r].pc = "count"
      /\ field \notin request[r].counted
      /\ Continue(r, [request[r] EXCEPT
                         !.counted = counted,
                         !.length = IF field = "length" THEN CountActive ELSE @,
                         !.served = IF field = "served"
                                    THEN CountByStatus({"completed"}) ELSE @,
                         !.pc = IF counted = {"length", "served"}
                                THEN "writeStatistics" ELSE @])
      /\ UNCHANGED store

\* queueTenant(null) throws instead of the update when there is no queue.
WriteStatistics(r) ==
  /\ request[r].pc = "writeStatistics"
  /\ IF request[r].hasQueue
     THEN UpdateStatistics(request[r].length, request[r].served)
     ELSE UNCHANGED queue
  /\ Respond(r)
  /\ UNCHANGED entries

-----------------------------------------------------------------------------
EntryOperations ==
  {"recall", "skip", "startService", "completeService", "noShow", "expire"}

RecalculateStep(r) ==
  \/ FindActiveOrdered(r)
  \/ \E write \in request[r].writes : WritePosition(r, write)
  \/ \E field \in {"length", "served"} : Count(r, field)
  \/ WriteStatistics(r)

TransitionStep(r) ==
  \/ FindNextWaiting(r)
  \/ Commit(r)
  \/ GetQueue(r)

ProcessingRequest(r) ==
  \/ CallNext(r)
  \/ \E op \in EntryOperations, i \in EntryIds : ProcessEntry(r, op, i)
=============================================================================
