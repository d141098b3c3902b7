----------------------------- MODULE QueueStore -----------------------------
(***************************************************************************)
(* The documents of one queue in MongoDB, and the repository calls that    *)
(* read and write them (models/Queue.js, models/QueueEntry.js,             *)
(* repositories/queueRepository.js, repositories/queueEntryRepository.js). *)
(*                                                                         *)
(* Every operator below is one driver call.  MongoDB executes a call on a  *)
(* single collection atomically, and nothing in the code opens a           *)
(* transaction around two calls, so a service is a sequence of these       *)
(* calls with other requests in between.                                   *)
(*                                                                         *)
(* An entry's _id is its index in the sequence `entries': documents are    *)
(* soft-deleted and never removed from the collection.                     *)
(*                                                                         *)
(* estimatedWaitMinutes and estimatedServiceAt are left out: every write   *)
(* of `position' writes them too, as a function of that position.          *)
(* joinedAt, the last sort key, is left out: tokenNumber comes before it   *)
(* and is unique.                                                          *)
(***************************************************************************)
EXTENDS Integers, Sequences, FiniteSets

CONSTANT Customers        \* the users who may hold a ticket of this queue

VARIABLES
  queue,                  \* the Queue document
  entries                 \* the QueueEntry documents, in order of insertion

store == <<queue, entries>>

-----------------------------------------------------------------------------
QueueStatuses == {"draft", "active", "paused", "closed", "archived"}

ActiveStatuses == {"waiting", "called", "recalled", "in_service"}
TerminalStatuses ==
  {"completed", "skipped", "left", "cancelled", "no_show", "expired"}
EntryStatuses == ActiveStatuses \cup TerminalStatuses

Entry == [customer : Customers, token : Nat \ {0}, status : EntryStatuses,
          position : Nat, deleted : BOOLEAN]

Queue == [status : QueueStatuses, isActive : BOOLEAN, deleted : BOOLEAN,
          length : Nat, served : Nat]

StoreTypeOK ==
  /\ queue \in Queue
  /\ entries \in Seq(Entry)

-----------------------------------------------------------------------------
(* Reads.                                                                  *)

QueueExists == ~queue.deleted           \* queueRepo.findById is not null

EntryIds == DOMAIN entries
EntryExists(i) == ~entries[i].deleted   \* entryRepo.findById is not null

FindByStatus(statuses) ==
  {i \in EntryIds : EntryExists(i) /\ entries[i].status \in statuses}

CountByStatus(statuses) == Cardinality(FindByStatus(statuses))
CountActive == CountByStatus(ActiveStatuses)

\* Mutant: only waiting entries are looked for.
HasActiveEntry_WaitingOnly(c) ==
  \E i \in FindByStatus({"waiting"}) : entries[i].customer = c

HasActiveEntry(c) ==
  \E i \in FindByStatus(ActiveStatuses) : entries[i].customer = c

\* The sort { position: 1, tokenNumber: 1, joinedAt: 1 }.
Before(i, j) ==
  \/ entries[i].position < entries[j].position
  \/ /\ entries[i].position = entries[j].position
     /\ entries[i].token < entries[j].token

\* Mutant: findNextWaiting without its sort.
NextWaiting_Unsorted == FindByStatus({"waiting"})

NextWaiting ==
  {i \in FindByStatus({"waiting"}) :
     \A j \in FindByStatus({"waiting"}) \ {i} : Before(i, j)}

IssuedTokens == {0} \cup {entries[i].token : i \in EntryIds}

LargestToken == CHOOSE m \in IssuedTokens : \A t \in IssuedTokens : t <= m

\* One more than the largest token ever issued: the filter has no deletedAt.
NextTokenNumber == LargestToken + 1

-----------------------------------------------------------------------------
(* Writes.                                                                 *)

\* Mutant: the index leaves deleted documents out.
TokenTaken_LiveOnly(n) ==
  \E i \in EntryIds : EntryExists(i) /\ entries[i].token = n

\* The unique index { queueId, tokenNumber } covers deleted documents too.
TokenTaken(n) == \E i \in EntryIds : entries[i].token = n

InsertEntry(c, n, p) ==
  entries' = Append(entries, [customer |-> c, token |-> n, status |-> "waiting",
                              position |-> p, deleted |-> FALSE])

\* findOneAndUpdate: a document the filter does not match is left alone.
UpdateEntry(i, matches, document) ==
  entries' = IF EntryExists(i) /\ matches
             THEN [entries EXCEPT ![i] = document]
             ELSE entries

\* Mutant: the filter has lost its deletedAt.
UpdateStatistics_AlsoDeleted(length, served) ==
  queue' = [queue EXCEPT !.length = length, !.served = served]

UpdateStatistics(length, served) ==
  queue' = IF queue.deleted
           THEN queue
           ELSE [queue EXCEPT !.length = length, !.served = served]
=============================================================================
