---------------------------- MODULE QueueEntries ----------------------------
(***************************************************************************)
(* The tickets of one queue: services/queueEntryService.js (join, leave,   *)
(* cancel, remove) together with services/queueProcessingService.js.  The  *)
(* queue stays active here; QueueSystem lets managers change it.           *)
(***************************************************************************)
EXTENDS QueueProcessing

CONSTANTS
  MaximumCapacity,        \* queue.maximumCapacity
  MaxEntries              \* bound: no join starts with this many documents

ASSUME CapacityAssumption == MaximumCapacity \in Nat \ {0}
ASSUME CustomersAssumption == "none" \notin Customers
ASSUME MaxEntriesAssumption == MaxEntries \in Nat
ASSUME RequestsAssumption == IsFiniteSet(Requests)

vars == <<queue, entries, request>>

-----------------------------------------------------------------------------
(* join: five reads, an insert, and at most two retries of the insert.     *)

AcceptsEntries ==
  queue.isActive /\ queue.status \notin {"closed", "archived", "paused"}

Join(r, c) ==
  /\ request[r].pc = "idle" /\ "join" \in Operations
  /\ Len(entries) < MaxEntries
  /\ QueueExists /\ AcceptsEntries
  /\ Continue(r, [request[r] EXCEPT !.pc = "findActiveByCustomer",
                                    !.kind = "join", !.customer = c])
  /\ UNCHANGED store

CheckCustomer(r) ==
  /\ request[r].pc = "findActiveByCustomer"
  /\ IF HasActiveEntry(request[r].customer)
     THEN Respond(r)
     ELSE Await(r, "countActive")
  /\ UNCHANGED store

\* Mutant: off by one.
CheckCapacity_OffByOne(r) ==
  /\ request[r].pc = "countActive"
  /\ IF CountActive > MaximumCapacity
     THEN Respond(r)
     ELSE Await(r, "nextTokenNumber")
  /\ UNCHANGED store

CheckCapacity(r) ==
  /\ request[r].pc = "countActive"
  /\ IF CountActive >= MaximumCapacity
     THEN Respond(r)
     ELSE Await(r, "nextTokenNumber")
  /\ UNCHANGED store

\* A retry reads the number again, but keeps the position it had.
ReadToken(r) ==
  /\ request[r].pc = "nextTokenNumber"
  /\ Continue(r, [request[r] EXCEPT
                     !.token = NextTokenNumber,
                     !.pc = IF request[r].attempt = 0 THEN "position"
                                                      ELSE "create"])
  /\ UNCHANGED store

ReadPosition(r) ==
  /\ request[r].pc = "position"
  /\ Continue(r, [request[r] EXCEPT !.pc = "create",
                                    !.place = CountActive + 1])
  /\ UNCHANGED store

CreateEntry(r) ==
  /\ request[r].pc = "create"
  /\ ~TokenTaken(request[r].token)
  /\ InsertEntry(request[r].customer, request[r].token, request[r].place)
  /\ Recalculating(r, "join", Len(entries) + 1, "none", TRUE)
  /\ UNCHANGED queue

\* Mutant: one attempt too many.
TokenConflict_OneMore(r) ==
  /\ request[r].pc = "create"
  /\ TokenTaken(request[r].token)
  /\ IF request[r].attempt = 3
     THEN Respond(r)
     ELSE Continue(r, [request[r] EXCEPT !.pc = "nextTokenNumber",
                                         !.attempt = @ + 1])
  /\ UNCHANGED store

\* Error 11000: the third one is rethrown.
TokenConflict(r) ==
  /\ request[r].pc = "create"
  /\ TokenTaken(request[r].token)
  /\ IF request[r].attempt = 2
     THEN Respond(r)
     ELSE Continue(r, [request[r] EXCEPT !.pc = "nextTokenNumber",
                                         !.attempt = @ + 1])
  /\ UNCHANGED store

-----------------------------------------------------------------------------
(* leave and cancel.                                                       *)

WithdrawalStatus == [leave |-> "left", cancel |-> "cancelled"]

Withdraw(r, op, i) ==
  /\ request[r].pc = "idle" /\ op \in Operations
  /\ EntryExists(i)
  /\ entries[i].status \in ActiveStatuses
  /\ Continue(r, [request[r] EXCEPT !.pc = "withdraw", !.id = i,
                                    !.kind = "withdraw",
                                    !.to = WithdrawalStatus[op]])
  /\ UNCHANGED store

\* No expected status: whatever the entry has become is overwritten.
WriteWithdrawal(r) ==
  LET i == request[r].id
  IN  /\ request[r].pc = "withdraw"
      /\ UpdateEntry(i, TRUE, [entries[i] EXCEPT !.status = request[r].to,
                                                 !.position = 0])
      /\ Await(r, "findQueue")
      /\ UNCHANGED queue

FindQueue(r) ==
  /\ request[r].pc = "findQueue"
  /\ Recalculating(r, "withdraw", request[r].id, "none", QueueExists)
  /\ UNCHANGED store

-----------------------------------------------------------------------------
(* remove: a soft delete in any status, and nothing is recalculated.       *)

Remove(r, i) ==
  /\ request[r].pc = "idle" /\ "remove" \in Operations
  /\ EntryExists(i)
  /\ Continue(r, [request[r] EXCEPT !.pc = "remove", !.kind = "remove",
                                    !.id = i])
  /\ UNCHANGED store

WriteRemoval(r) ==
  LET i == request[r].id
  IN  /\ request[r].pc = "remove"
      /\ UpdateEntry(i, TRUE, [entries[i] EXCEPT !.deleted = TRUE])
      /\ Respond(r)
      /\ UNCHANGED queue

-----------------------------------------------------------------------------
\* The server process dies and restarts: what its requests had still to do is
\* lost, and nothing at start-up makes up for it.
Crash ==
  /\ "crash" \in Operations
  /\ \E r \in Requests : request[r].pc # "idle"
  /\ request' = [r \in Requests |-> Idle]
  /\ UNCHANGED store

-----------------------------------------------------------------------------
Init ==
  /\ queue = [status |-> "active", isActive |-> TRUE, deleted |-> FALSE,
              length |-> 0, served |-> 0]
  /\ entries = <<>>
  /\ request = [r \in Requests |-> Idle]

JoinStep(r) ==
  \/ CheckCustomer(r)
  \/ CheckCapacity(r)
  \/ ReadToken(r)
  \/ ReadPosition(r)
  \/ CreateEntry(r)
  \/ TokenConflict(r)

WithdrawStep(r) ==
  \/ WriteWithdrawal(r)
  \/ FindQueue(r)
  \/ WriteRemoval(r)

EntryRequest(r) ==
  \/ \E c \in Customers : Join(r, c)
  \/ \E op \in {"leave", "cancel"}, i \in EntryIds : Withdraw(r, op, i)
  \/ \E i \in EntryIds : Remove(r, i)

\* One step of a request in flight.
Step(r) ==
  \/ JoinStep(r)
  \/ WithdrawStep(r)
  \/ TransitionStep(r)
  \/ RecalculateStep(r)

Next ==
  \/ \E r \in Requests : EntryRequest(r) \/ ProcessingRequest(r) \/ Step(r)
  \/ Crash

Spec == Init /\ [][Next]_vars

\* The event loop and the database go on serving a request in flight; nobody
\* is obliged to send one.
Fairness == \A r \in Requests : WF_vars(Step(r))

FairSpec == Spec /\ Fairness

-----------------------------------------------------------------------------
(* Properties of every interleaving.                                       *)

TypeOK ==
  /\ StoreTypeOK
  /\ request \in [Requests -> Request]

\* Tokens are issued 1, 2, 3, ... in the order in which entries are created:
\* never twice, without gaps, and not again after an entry was soft-deleted,
\* although joins read the next number long before they insert it
\* (queueEntryService.js:32-46, QueueEntry.js:35).
TokensConsecutive == \A i \in EntryIds : entries[i].token = i

\* A waiting entry has a place in the line, never 0, although recalculations
\* write 0 from old reads of its status (queueProcessingService.js:25-37).
WaitingHasPosition ==
  \A i \in EntryIds :
    entries[i].status = "waiting" => entries[i].position >= 1

\* `transitionEntry' has written its status and still has work to do.
AfterCommit(r) ==
  /\ request[r].kind = "transition"
  /\ request[r].pc \notin {"findNextWaiting", "commit"}

\* Two operators who both read an entry in the same status never both get
\* through: "only the first update may win" (queueEntryRepository.js:26-28).
\* It needs the compare-and-set and a table `allowed' without cycles.
OneWinner ==
  \A r1, r2 \in Requests :
    (/\ AfterCommit(r1) /\ AfterCommit(r2)
     /\ request[r1].id = request[r2].id
     /\ request[r1].seen = request[r2].seen) => r1 = r2

\* The joins that have passed the capacity check and not yet inserted.
Admitted ==
  {r \in Requests :
     request[r].pc \in {"nextTokenNumber", "position", "create"}}

\* The capacity check and the insert are apart (queueEntryService.js:31, 41),
\* so the queue can be overbooked, but by no more than the number of joins
\* in flight together, less one.
OverbookingBounded ==
  CountActive + Cardinality(Admitted)
    <= MaximumCapacity + Cardinality(Requests) - 1

\* Tickets move as TicketLifecycle promises.
Lifecycle ==
  INSTANCE TicketLifecycle WITH
    tickets <- [i \in EntryIds |-> [status |-> entries[i].status,
                                    gone |-> entries[i].deleted]]
ImplementsLifecycle == Lifecycle!Spec

\* Every request is answered: the retry loop of join ends and Promise.all
\* waits for nothing that does not come (queueEntryService.js:38-46,
\* queueProcessingService.js:25-42).
EveryRequestAnswered ==
  \A r \in Requests : request[r].pc # "idle" ~> request[r].pc = "idle"

-----------------------------------------------------------------------------
(* Properties of requests handled one after the other.                     *)

AtRest == \A r \in Requests : request[r].pc = "idle"

\* Between requests the waiting entries stand at 1, 2, 3, ... in the order of
\* their tokens, and the entries that have been called at 0 (queues.md:19).
PositionsInOrder ==
  AtRest => \A i \in FindByStatus(ActiveStatuses) :
    entries[i].position =
      IF i \in Waiting
      THEN 1 + Cardinality({j \in Waiting : entries[j].token < entries[i].token})
      ELSE 0

\* Between requests the statistics of the queue document count its entries
\* (queues.md:36).
StatisticsExact ==
  AtRest => /\ queue.length = CountActive
            /\ queue.served = CountByStatus({"completed"})

\* The queue never holds more active entries than it has capacity for
\* (queues.md:17, queueEntryService.js:31).
CapacityRespected == CountActive <= MaximumCapacity

\* No customer holds two active entries (queues.md:17,
\* queueEntryService.js:30).
OneTicketPerCustomer ==
  \A i, j \in FindByStatus(ActiveStatuses) :
    entries[i].customer = entries[j].customer => i = j

\* An entry that is over keeps the status in which it ended: a change made by
\* one request is not overwritten by another that read the entry before
\* (queueEntryRepository.js:26-28, PROJECT_HEALTH_CHECK.md:28).
FinalStatusKept ==
  [][\A i \in EntryIds :
       entries[i].status \in TerminalStatuses =>
         entries'[i].status = entries[i].status]_vars

\* callNext picks the waiting entry with the smallest token (queues.md:19,
\* queueProcessingService.js:62).
CallsInOrder ==
  [][\A r \in Requests :
       FindNextWaiting(r) /\ request'[r].pc = "commit" =>
         \A j \in Waiting : entries[request'[r].id].token <= entries[j].token
    ]_vars
=============================================================================
