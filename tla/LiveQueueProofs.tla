-------------------------- MODULE LiveQueueProofs ---------------------------
(***************************************************************************)
(* Theorems about LiveQueue: its types, for any customers and requests,    *)
(* and, with requests one at a time, that what a page shows of a queue at  *)
(* rest is what is in the database, whatever the page lost while away.     *)
(***************************************************************************)
EXTENDS LiveQueue, QueueEntriesProofs

-----------------------------------------------------------------------------
(* The invariants.                                                         *)

Joining ==
  {"findActiveByCustomer", "countActive", "nextTokenNumber", "position",
   "create"}

\* The stages of a request before its write, and after it.
Unwritten == Joining \cup {"withdraw", "remove", "findNextWaiting", "commit"}
Recalculation ==
  {"findQueue", "getQueue", "findActiveOrdered", "writePositions", "count",
   "writeStatistics"}

\* The queue is never deleted here, and who has written nothing has no entry.
LocalsLive(x) ==
  /\ x.hasQueue
  /\ x.pc \in Joining \cup {"idle"} => x.id = 0

\* A broadcast is about the queue or about an entry that exists.
MessageOK(m) ==
  /\ m \in Broadcast
  /\ m.entry \in {0} \cup EntryIds
  /\ m.entry = 0 <=> m.length # Unsaid
  /\ m.entry = 0 <=> m.status = "none"

MessagesOK(s) == s \in Seq(Broadcast) /\ \A n \in DOMAIN s : MessageOK(s[n])

\* What is in the outbox of a request says how far it is.
OutboxOK(r) ==
  /\ LocalsLive(request[r])
  /\ MessagesOK(outbox[r])
  /\ request[r].pc \in Unwritten => outbox[r] = <<>>
  /\ request[r].pc \in Recalculation => 0 \notin Subjects(outbox[r])

LiveIInv ==
  /\ IInv
  /\ LiveTypeOK
  /\ ~queue.deleted
  /\ \A r \in Requests : OutboxOK(r)
  /\ MessagesOK(channel)
  /\ connected \/ channel = <<>>

-----------------------------------------------------------------------------
(* What a step of the server does to the entries and to the outbox.        *)

SameStatuses ==
  /\ queue' = queue
  /\ EntryIds' = EntryIds
  /\ \A i \in EntryIds : entries'[i].status = entries[i].status

\* Nothing that a page shows has changed, and nothing is announced.
Silent(r) ==
  /\ SameStatuses
  /\ outbox' = outbox
  /\ \/ request[r].pc \in Unwritten /\ request'[r].pc \in Unwritten \cup {"idle"}
     \/ request[r].pc \in Recalculation /\ request'[r].pc \in Recalculation

\* One entry is written, and its document is what is announced.
Announces(r) ==
  LET i == request'[r].id
  IN  /\ request[r].pc \in Unwritten /\ request'[r].pc \in Recalculation
      /\ queue' = queue
      /\ EntryIds \subseteq EntryIds' /\ i \in EntryIds'
      /\ EntryIds' \subseteq EntryIds \cup {i}
      /\ \A j \in EntryIds \ {i} : entries'[j].status = entries[j].status
      /\ outbox' = [outbox EXCEPT ![r] = <<EntryEvent(i, entries'[i])>>]

\* The counts are written, and announced before the rest.
Counts(r) ==
  /\ request[r].pc = "writeStatistics" /\ request'[r].pc = "idle"
  /\ entries' = entries /\ ~queue'.deleted
  /\ outbox' = [outbox EXCEPT ![r] = <<LiveUpdate(queue'.length)>> \o outbox[r]]

ServerEffect(r) ==
  /\ LocalsLive(request'[r])
  /\ Silent(r) \/ Announces(r) \/ Counts(r)

\* What the invariant says to a step of r.
LEMMA LiveHypothesis ==
  ASSUME LiveIInv, NEW r \in Requests
  PROVE  /\ IInv /\ ~queue.deleted
         /\ request \in [Requests -> Request] /\ request[r] \in Request
         /\ LocalsOK(request[r]) /\ LocalsLive(request[r])
         /\ outbox \in [Requests -> Seq(Broadcast)]
         /\ outbox[r] \in Seq(Broadcast)
         /\ request[r].pc \in Unwritten => outbox[r] = <<>>
<1>1. IInv /\ LiveTypeOK /\ OutboxOK(r) /\ ~queue.deleted
  BY DEF LiveIInv
<1> QED
  BY <1>1, Hypothesis DEF LiveTypeOK, OutboxOK, IInv, TypeOK

\* A step that neither writes an entry nor the counts says nothing.
LEMMA SilentOutbox ==
  ASSUME LiveIInv, NEW r \in Requests, Announce(r),
         request[r].pc \notin {"create", "commit", "withdraw", "writeStatistics"},
         request'[r].pc = "idle" => request[r].pc \in Unwritten
  PROVE  outbox' = outbox
<1>1. outbox' = [outbox EXCEPT ![r] =
                   IF request'[r].pc = "idle" THEN <<>> ELSE outbox[r]]
  BY DEF Announce
<1> QED
  BY <1>1, LiveHypothesis

LEMMA WrittenOutbox ==
  ASSUME LiveIInv, NEW r \in Requests, Announce(r),
         request[r].pc \in {"create", "commit", "withdraw"}
  PROVE  /\ request'[r].id = 0 => outbox' = outbox
         /\ request'[r].id # 0 =>
              outbox' = [outbox EXCEPT ![r] =
                <<EntryEvent(request'[r].id, entries'[request'[r].id])>>]
<1>1. outbox' = [outbox EXCEPT ![r] = Written(r)]
  BY DEF Announce
<1>2. request[r].pc \in Unwritten
  BY DEF Unwritten, Joining
<1>3. CASE request'[r].id = 0
  <2>1. Written(r) = <<>>
    BY <1>3 DEF Written
  <2> QED
    BY <1>1, <1>2, <1>3, <2>1, LiveHypothesis
<1>4. CASE request'[r].id # 0
  BY <1>1, <1>4 DEF Written
<1> QED
  BY <1>3, <1>4

\* The locals of a request whose program counter moves, and perhaps more.
LEMMA IdleLive == LocalsLive(Idle) /\ Idle.pc = "idle" /\ Idle.id = 0
BY DEF LocalsLive, Idle

LEMMA Responded ==
  ASSUME LiveIInv, NEW r \in Requests, Respond(r)
  PROVE  request'[r] = Idle
BY LiveHypothesis DEF Respond, Continue

LEMMA SameStore ==
  ASSUME UNCHANGED store
  PROVE  SameStatuses
BY DEF store, SameStatuses, EntryIds

\* A step of a recalculation that writes no status.
LEMMA RecalculationLive ==
  ASSUME LiveIInv, NEW r \in Requests, Announce(r), SameStatuses,
         request[r].pc \in Recalculation \ {"writeStatistics"},
         request'[r].pc \in Recalculation, request'[r].hasQueue
  PROVE  ServerEffect(r)
<1>1. outbox' = outbox
  BY SilentOutbox DEF Recalculation
<1>2. LocalsLive(request'[r])
  BY DEF LocalsLive, Joining, Recalculation
<1> QED
  BY <1>1, <1>2 DEF ServerEffect, Silent

LEMMA EnteredLive ==
  ASSUME NEW kind, NEW id, NEW seen, NEW found
  PROVE  /\ Entered(kind, id, seen, found).pc = "findActiveOrdered"
         /\ Entered(kind, id, seen, found).id = id
         /\ Entered(kind, id, seen, found).hasQueue = found
<1>1. Idle = [pc |-> Idle.pc, kind |-> Idle.kind, customer |-> Idle.customer,
              attempt |-> Idle.attempt, token |-> Idle.token,
              place |-> Idle.place, id |-> Idle.id, seen |-> Idle.seen,
              to |-> Idle.to, hasQueue |-> Idle.hasQueue,
              writes |-> Idle.writes, counted |-> Idle.counted,
              length |-> Idle.length, served |-> Idle.served]
  BY IdleOK DEF Request
<1> QED
  BY <1>1 DEF Entered

\* The steps of join up to its insert (queueEntryService.js:27-46).
LEMMA JoinReads ==
  ASSUME LiveIInv, NEW r \in Requests, Announce(r),
         \/ CheckCustomer(r) \/ CheckCapacity(r) \/ ReadToken(r)
         \/ ReadPosition(r) \/ TokenConflict(r)
  PROVE  ServerEffect(r)
<1>1. /\ request[r].pc \in Joining /\ UNCHANGED store
  BY DEF CheckCustomer, CheckCapacity, ReadToken, ReadPosition, TokenConflict,
         Joining
<1>2. request[r].id = 0 /\ request[r].hasQueue
  BY <1>1, LiveHypothesis DEF LocalsLive
<1>3. \/ request'[r] = Idle
      \/ /\ request'[r].pc \in Joining
         /\ request'[r].id = request[r].id
         /\ request'[r].hasQueue = request[r].hasQueue
  <2>1. CASE CheckCustomer(r)
    BY <2>1, LiveHypothesis
    DEF CheckCustomer, Respond, Await, Continue, Request, Joining
  <2>2. CASE CheckCapacity(r)
    BY <2>2, LiveHypothesis
    DEF CheckCapacity, Respond, Await, Continue, Request, Joining
  <2>3. CASE ReadToken(r)
    BY <2>3, LiveHypothesis DEF ReadToken, Continue, Request, Joining
  <2>4. CASE ReadPosition(r)
    BY <2>4, LiveHypothesis DEF ReadPosition, Continue, Request, Joining
  <2>5. CASE TokenConflict(r)
    <3>1. CASE request[r].attempt = 2
      BY <2>5, <3>1, Responded DEF TokenConflict
    <3>2. CASE request[r].attempt # 2
      <4>1. Continue(r, [request[r] EXCEPT !.pc = "nextTokenNumber",
                                           !.attempt = request[r].attempt + 1])
        BY <2>5, <3>2 DEF TokenConflict
      <4> QED
        BY <4>1, LiveHypothesis DEF Continue, Request, Joining
    <3> QED
      BY <3>1, <3>2
  <2> QED
    BY <2>1, <2>2, <2>3, <2>4, <2>5
<1>4. /\ LocalsLive(request'[r]) /\ request'[r].id = 0
      /\ request'[r].pc \in Joining \cup {"idle"}
  BY <1>2, <1>3, IdleLive DEF LocalsLive
<1>5. outbox' = outbox
  <2>1. CASE request[r].pc = "create"
    BY <1>4, <2>1, WrittenOutbox
  <2>2. CASE request[r].pc # "create"
    BY <1>1, <2>2, SilentOutbox DEF Joining, Unwritten
  <2> QED
    BY <2>1, <2>2
<1> QED
  BY <1>1, <1>4, <1>5, SameStore DEF ServerEffect, Silent, Unwritten

\* The steps of a transition and of a removal that only find out that there
\* is nothing to announce (queueProcessingService.js:51-53, 61-64,
\* queueEntryService.js:72).
LEMMA FindNextWaitingLive ==
  ASSUME LiveIInv, NEW r \in Requests, Announce(r), FindNextWaiting(r)
  PROVE  ServerEffect(r)
<1>1. request[r].pc = "findNextWaiting" /\ UNCHANGED store
  BY DEF FindNextWaiting
<1>2. /\ LocalsLive(request'[r]) /\ request'[r].pc \in {"idle", "commit"}
  <2>1. CASE Respond(r)
    BY <2>1, Responded, IdleLive
  <2>2. ASSUME NEW i \in NextWaiting,
               Continue(r, [request[r] EXCEPT !.pc = "commit", !.id = i,
                                              !.seen = "waiting", !.to = "called"])
        PROVE  request'[r].pc = "commit" /\ LocalsLive(request'[r])
    <3>1. /\ request'[r].pc = "commit"
          /\ request'[r].hasQueue = request[r].hasQueue
      BY <2>2, LiveHypothesis DEF Continue, Request
    <3> QED
      BY <3>1, LiveHypothesis DEF LocalsLive, Joining
  <2> QED
    BY <2>1, <2>2 DEF FindNextWaiting
<1>3. request[r].pc \in Unwritten /\ request'[r].pc \in Unwritten \cup {"idle"}
  BY <1>1, <1>2 DEF Unwritten
<1>4. outbox' = outbox
  BY <1>1, <1>3, SilentOutbox
<1> QED
  BY <1>1, <1>2, <1>3, <1>4, SameStore DEF ServerEffect, Silent

LEMMA StoreFacts ==
  ASSUME LiveIInv
  PROVE  /\ entries \in Seq(Entry) /\ queue \in Queue
         /\ EntryIds = 1 .. Len(entries) /\ Len(entries) \in Nat
         /\ DOMAIN entries = EntryIds
         /\ \A i \in EntryIds : entries[i] \in Entry
<1>1. entries \in Seq(Entry) /\ queue \in Queue
  BY DEF LiveIInv, IInv, TypeOK, StoreTypeOK
<1> QED
  BY <1>1 DEF EntryIds

\* An entry is written, but not its status.
LEMMA StatusKept ==
  ASSUME LiveIInv, NEW i \in EntryIds, NEW document,
         document.status = entries[i].status, UNCHANGED queue,
         UpdateEntry(i, TRUE, document)
  PROVE  SameStatuses
<1>1. CASE entries' = entries
  BY <1>1 DEF SameStatuses, EntryIds
<1>2. CASE entries' = [entries EXCEPT ![i] = document]
  <2>1. DOMAIN entries' = DOMAIN entries
    BY <1>2
  <2>2. \A j \in EntryIds :
          entries'[j] = IF j = i THEN document ELSE entries[j]
    BY <1>2, StoreFacts
  <2> QED
    BY <2>1, <2>2 DEF SameStatuses, EntryIds
<1> QED
  BY <1>1, <1>2 DEF UpdateEntry

LEMMA WriteRemovalLive ==
  ASSUME LiveIInv, NEW r \in Requests, Announce(r), WriteRemoval(r)
  PROVE  ServerEffect(r)
<1>1. /\ request[r].pc = "remove" /\ UNCHANGED queue
      /\ request'[r] = Idle /\ request[r].pc \in Unwritten
  BY Responded DEF WriteRemoval, Unwritten
<1>2. request[r].id \in EntryIds
  BY <1>1, LiveHypothesis DEF LocalsOK
<1>3. PICK gone : gone = TRUE
  OBVIOUS
<1> DEFINE document == [entries[request[r].id] EXCEPT !.deleted = gone]
<1>4. document.status = entries[request[r].id].status
  BY <1>2, StoreFacts DEF Entry
<1>5. SameStatuses
  <2>1. UpdateEntry(request[r].id, TRUE, document)
    BY <1>3 DEF WriteRemoval
  <2> HIDE DEF document
  <2> QED
    BY <1>1, <1>2, <1>4, <2>1, StatusKept
<1>6. outbox' = outbox
  BY <1>1, SilentOutbox
<1> QED
  BY <1>1, <1>5, <1>6, IdleLive DEF ServerEffect, Silent

\* The steps of recalculate before the counts are written
\* (queueProcessingService.js:22-37, queueEntryService.js:58).
LEMMA FindQueueLive ==
  ASSUME LiveIInv, NEW r \in Requests, Announce(r), FindQueue(r)
  PROVE  ServerEffect(r)
<1>1. request[r].pc = "findQueue" /\ UNCHANGED store
  BY DEF FindQueue
<1>2. PICK found : found = QueueExists /\ found = TRUE
  BY LiveHypothesis DEF QueueExists
<1>3. Continue(r, Entered("withdraw", request[r].id, "none", found))
  BY <1>2 DEF FindQueue, Recalculating, Entered
<1>4. request'[r] = Entered("withdraw", request[r].id, "none", found)
  BY <1>3, LiveHypothesis DEF Continue
<1>5. request'[r].pc = "findActiveOrdered" /\ request'[r].hasQueue = found
  BY <1>4, EnteredLive
<1> QED
  BY <1>1, <1>2, <1>5, SameStore, RecalculationLive DEF Recalculation

LEMMA GetQueueLive ==
  ASSUME LiveIInv, NEW r \in Requests, Announce(r), GetQueue(r)
  PROVE  ServerEffect(r)
<1>1. request[r].pc = "getQueue" /\ UNCHANGED store
  BY DEF GetQueue
<1>2. PICK found : found = TRUE
  OBVIOUS
<1> DEFINE y == Entered("transition", request[r].id, request[r].seen, found)
<1>3. Continue(r, y)
  BY <1>2, LiveHypothesis DEF GetQueue, Recalculating, Entered, QueueExists
<1>4. y.pc = "findActiveOrdered" /\ y.hasQueue = found
  BY EnteredLive
<1> HIDE DEF y
<1>5. request'[r] = y
  BY <1>3, LiveHypothesis DEF Continue
<1> QED
  BY <1>1, <1>2, <1>4, <1>5, SameStore, RecalculationLive DEF Recalculation

LEMMA FindActiveOrderedLive ==
  ASSUME LiveIInv, NEW r \in Requests, Announce(r), FindActiveOrdered(r)
  PROVE  ServerEffect(r)
<1>1. request[r].pc = "findActiveOrdered" /\ UNCHANGED store
  BY DEF FindActiveOrdered
<1>2. request[r].hasQueue
  BY LiveHypothesis DEF LocalsLive
<1>3. PICK writes, pc :
        /\ pc \in {"count", "writePositions"}
        /\ Continue(r, [request[r] EXCEPT !.writes = writes, !.pc = pc])
  BY <1>2 DEF FindActiveOrdered
<1>4. request'[r].pc = pc /\ request'[r].hasQueue = request[r].hasQueue
  BY <1>3, LiveHypothesis DEF Continue, Request
<1> QED
  BY <1>1, <1>2, <1>3, <1>4, SameStore, RecalculationLive DEF Recalculation

LEMMA CountLive ==
  ASSUME LiveIInv, NEW r \in Requests, Announce(r),
         NEW field \in {"length", "served"}, Count(r, field)
  PROVE  ServerEffect(r)
<1>1. request[r].pc = "count" /\ UNCHANGED store
  BY DEF Count
<1>2. request[r].hasQueue
  BY LiveHypothesis DEF LocalsLive
<1>3. PICK counted, length, served, pc :
        /\ pc \in {"count", "writeStatistics"}
        /\ Continue(r, [request[r] EXCEPT !.counted = counted,
                          !.length = length, !.served = served, !.pc = pc])
  BY <1>1 DEF Count
<1>4. request'[r].pc = pc /\ request'[r].hasQueue = request[r].hasQueue
  BY <1>3, LiveHypothesis DEF Continue, Request
<1> QED
  BY <1>1, <1>2, <1>3, <1>4, SameStore, RecalculationLive DEF Recalculation

LEMMA WritePositionLive ==
  ASSUME LiveIInv, NEW r \in Requests, Announce(r),
         NEW write \in request[r].writes, WritePosition(r, write)
  PROVE  ServerEffect(r)
<1>1. /\ request[r].pc = "writePositions" /\ UNCHANGED queue
      /\ write[1] \in EntryIds
  BY LiveHypothesis DEF WritePosition, LocalsOK
<1>2. request[r].hasQueue
  BY LiveHypothesis DEF LocalsLive
<1>3. PICK writes, pc :
        /\ pc \in {"count", "writePositions"}
        /\ Continue(r, [request[r] EXCEPT !.writes = writes, !.pc = pc])
  BY <1>1 DEF WritePosition
<1>4. request'[r].pc = pc /\ request'[r].hasQueue = request[r].hasQueue
  BY <1>3, LiveHypothesis DEF Continue, Request
<1>5. SameStatuses
  <2> DEFINE document == [entries[write[1]] EXCEPT !.position = write[2]]
  <2>1. document.status = entries[write[1]].status
    BY <1>1, StoreFacts DEF Entry
  <2>2. UpdateEntry(write[1], TRUE, document)
    BY DEF WritePosition
  <2> HIDE DEF document
  <2> QED
    BY <1>1, <2>1, <2>2, StatusKept
<1> QED
  BY <1>1, <1>2, <1>3, <1>4, <1>5, RecalculationLive DEF Recalculation

\* The steps that write an entry (queueProcessingService.js:51,
\* queueEntryService.js:41, 57, 66): it is the one that is announced.
LEMMA WriteLive ==
  ASSUME LiveIInv, NEW r \in Requests, Announce(r),
         request[r].pc \in {"create", "commit", "withdraw"},
         request'[r].pc \in Recalculation, request'[r].hasQueue,
         UNCHANGED queue, NEW i \in EntryIds', i # 0, request'[r].id = i,
         EntryIds \subseteq EntryIds', EntryIds' \subseteq EntryIds \cup {i},
         \A j \in EntryIds \ {i} : entries'[j] = entries[j]
  PROVE  ServerEffect(r)
<1>1. outbox' = [outbox EXCEPT ![r] = <<EntryEvent(i, entries'[i])>>]
  BY WrittenOutbox
<1>2. LocalsLive(request'[r])
  BY DEF LocalsLive, Joining, Recalculation
<1>3. request[r].pc \in Unwritten
  BY DEF Unwritten, Joining
<1> QED
  BY <1>1, <1>2, <1>3 DEF ServerEffect, Announces

LEMMA OneEntryWritten ==
  ASSUME LiveIInv, NEW i \in EntryIds, NEW matches, NEW document,
         UpdateEntry(i, matches, document)
  PROVE  /\ EntryIds' = EntryIds /\ i # 0
         /\ \A j \in EntryIds \ {i} : entries'[j] = entries[j]
<1>1. i # 0
  BY StoreFacts
<1>2. CASE entries' = entries
  BY <1>1, <1>2 DEF EntryIds
<1>3. CASE entries' = [entries EXCEPT ![i] = document]
  BY <1>1, <1>3, StoreFacts DEF EntryIds
<1> QED
  BY <1>2, <1>3 DEF UpdateEntry

LEMMA WriteWithdrawalLive ==
  ASSUME LiveIInv, NEW r \in Requests, Announce(r), WriteWithdrawal(r)
  PROVE  ServerEffect(r)
<1>1. /\ request[r].pc = "withdraw" /\ UNCHANGED queue
      /\ Continue(r, [request[r] EXCEPT !.pc = "findQueue"])
      /\ request[r].id \in EntryIds /\ request[r].hasQueue
  BY LiveHypothesis DEF WriteWithdrawal, Await, LocalsOK, LocalsLive
<1>2. PICK i \in EntryIds : i = request[r].id
  BY <1>1
<1>3. /\ request'[r].pc = "findQueue" /\ request'[r].id = i
      /\ request'[r].hasQueue = request[r].hasQueue
  <2>1. request'[r] = [request[r] EXCEPT !.pc = "findQueue"]
    BY <1>1, LiveHypothesis DEF Continue
  <2> QED
    BY <1>2, <2>1, LiveHypothesis DEF Request
<1>4. /\ EntryIds' = EntryIds /\ i # 0
      /\ \A j \in EntryIds \ {i} : entries'[j] = entries[j]
  <2>1. PICK document : UpdateEntry(i, TRUE, document)
    BY <1>2 DEF WriteWithdrawal
  <2> QED
    BY <2>1, OneEntryWritten
<1> QED
  BY <1>1, <1>3, <1>4, WriteLive DEF Recalculation

LEMMA CommitLive ==
  ASSUME LiveIInv, NEW r \in Requests, Announce(r), Commit(r)
  PROVE  ServerEffect(r)
<1>1. /\ request[r].pc = "commit" /\ UNCHANGED queue
      /\ request[r].id \in EntryIds /\ request[r].hasQueue
  BY LiveHypothesis DEF Commit, LocalsOK, LocalsLive
<1>2. PICK i \in EntryIds : i = request[r].id
  BY <1>1
<1> DEFINE wins == EntryExists(i) /\ entries[i].status = request[r].seen
<1>3. CASE wins
  <2>1. Continue(r, [request[r] EXCEPT !.pc = "getQueue"])
    BY <1>2, <1>3 DEF Commit, Await
  <2>2. /\ request'[r].pc = "getQueue" /\ request'[r].id = i
        /\ request'[r].hasQueue = request[r].hasQueue
    BY <1>2, <2>1, LiveHypothesis DEF Continue, Request
  <2>3. /\ EntryIds' = EntryIds /\ i # 0
        /\ \A j \in EntryIds \ {i} : entries'[j] = entries[j]
    <3>1. PICK matches, document : UpdateEntry(i, matches, document)
      BY <1>2 DEF Commit
    <3> QED
      BY <3>1, OneEntryWritten
  <2> QED
    BY <1>1, <2>2, <2>3, WriteLive DEF Recalculation
<1>4. CASE ~wins
  <2>1. entries' = entries /\ Respond(r)
    BY <1>2, <1>4 DEF Commit, UpdateEntry
  <2>2. request'[r] = Idle /\ SameStatuses
    BY <1>1, <2>1, Responded DEF SameStatuses, EntryIds
  <2>3. outbox' = outbox
    BY <1>1, <2>2, IdleLive, WrittenOutbox
  <2> QED
    BY <1>1, <2>2, <2>3, IdleLive DEF ServerEffect, Silent, Unwritten
<1> QED
  BY <1>3, <1>4

LEMMA CreateEntryLive ==
  ASSUME LiveIInv, NEW r \in Requests, Announce(r), CreateEntry(r)
  PROVE  ServerEffect(r)
<1>1. request[r].pc = "create" /\ UNCHANGED queue
  BY DEF CreateEntry
<1>2. PICK i : i = Len(entries) + 1
  OBVIOUS
<1>3. PICK found : found = TRUE
  OBVIOUS
<1> DEFINE y == Entered("join", i, "none", found)
<1>4. Continue(r, y)
  BY <1>2, <1>3 DEF CreateEntry, Recalculating, Entered
<1>5. y.pc = "findActiveOrdered" /\ y.id = i /\ y.hasQueue = found
  BY EnteredLive
<1> HIDE DEF y
<1>6. request'[r] = y
  BY <1>4, LiveHypothesis DEF Continue
<1>7. PICK document : entries' = Append(entries, document)
  BY DEF CreateEntry, InsertEntry
<1>8. /\ EntryIds' = EntryIds \cup {i} /\ i # 0
      /\ \A j \in EntryIds : entries'[j] = entries[j]
  BY <1>2, <1>7, StoreFacts DEF EntryIds
<1> QED
  BY <1>1, <1>3, <1>5, <1>6, <1>8, WriteLive DEF Recalculation

\* The last step of recalculate (queueProcessingService.js:38-44).
LEMMA WriteStatisticsLive ==
  ASSUME LiveIInv, NEW r \in Requests, Announce(r), WriteStatistics(r)
  PROVE  ServerEffect(r)
<1>1. /\ request[r].pc = "writeStatistics" /\ entries' = entries
      /\ request'[r] = Idle
  BY Responded DEF WriteStatistics
<1>2. request[r].hasQueue
  BY LiveHypothesis DEF LocalsLive
<1>3. queue'.length = request[r].length /\ queue'.deleted = queue.deleted
  BY <1>2, LiveHypothesis, StoreFacts
  DEF WriteStatistics, UpdateStatistics, Queue
<1>4. outbox' = [outbox EXCEPT ![r] = <<LiveUpdate(request[r].length)>> \o outbox[r]]
  BY <1>1, <1>2 DEF Announce
<1> QED
  BY <1>1, <1>3, <1>4, IdleLive, LiveHypothesis DEF ServerEffect, Counts

LEMMA StepLive ==
  ASSUME LiveIInv, NEW r \in Requests, Step(r), Announce(r)
  PROVE  ServerEffect(r)
<1>1. CASE JoinStep(r)
  BY <1>1, JoinReads, CreateEntryLive DEF JoinStep
<1>2. CASE WithdrawStep(r)
  BY <1>2, WriteWithdrawalLive, FindQueueLive, WriteRemovalLive
  DEF WithdrawStep
<1>3. CASE TransitionStep(r)
  BY <1>3, FindNextWaitingLive, CommitLive, GetQueueLive DEF TransitionStep
<1>4. CASE RecalculateStep(r)
  BY <1>4, FindActiveOrderedLive, WritePositionLive, CountLive,
     WriteStatisticsLive DEF RecalculateStep
<1> QED
  BY <1>1, <1>2, <1>3, <1>4 DEF Step

\* What a request has read when it is accepted is not announced.
LEMMA RequestLive ==
  ASSUME LiveIInv, NEW r \in Requests, EntryRequest(r) \/ ProcessingRequest(r)
  PROVE  /\ UNCHANGED store /\ request[r].pc = "idle"
         /\ LocalsLive(request'[r]) /\ request'[r].pc \in Unwritten
<1>1. ASSUME NEW c \in Customers, Join(r, c)
      PROVE  /\ UNCHANGED store /\ request[r].pc = "idle"
             /\ request'[r].pc = "findActiveByCustomer"
             /\ request'[r].id = request[r].id
             /\ request'[r].hasQueue = request[r].hasQueue
  BY <1>1, LiveHypothesis DEF Join, Continue, Request
<1>2. ASSUME NEW op \in {"leave", "cancel"}, NEW i \in EntryIds,
             Withdraw(r, op, i)
      PROVE  /\ UNCHANGED store /\ request[r].pc = "idle"
             /\ request'[r].pc = "withdraw"
             /\ request'[r].hasQueue = request[r].hasQueue
  BY <1>2, LiveHypothesis DEF Withdraw, Continue, Request
<1>3. ASSUME NEW i \in EntryIds, Remove(r, i)
      PROVE  /\ UNCHANGED store /\ request[r].pc = "idle"
             /\ request'[r].pc = "remove"
             /\ request'[r].hasQueue = request[r].hasQueue
  BY <1>3, LiveHypothesis DEF Remove, Continue, Request
<1>4. ASSUME CallNext(r)
      PROVE  /\ UNCHANGED store /\ request[r].pc = "idle"
             /\ request'[r].pc = "findNextWaiting"
             /\ request'[r].hasQueue = request[r].hasQueue
  BY <1>4, LiveHypothesis DEF CallNext, Continue, Request
<1>5. ASSUME NEW op \in EntryOperations, NEW i \in EntryIds,
             ProcessEntry(r, op, i)
      PROVE  /\ UNCHANGED store /\ request[r].pc = "idle"
             /\ request'[r].pc = "commit"
             /\ request'[r].hasQueue = request[r].hasQueue
  BY <1>5, LiveHypothesis DEF ProcessEntry, Continue, Request
<1>6. request[r].hasQueue /\ (request[r].pc = "idle" => request[r].id = 0)
  BY LiveHypothesis DEF LocalsLive
<1> QED
  BY <1>1, <1>2, <1>3, <1>4, <1>5, <1>6
  DEF EntryRequest, ProcessingRequest, LocalsLive, Unwritten, Joining

-----------------------------------------------------------------------------
(* The messages, and the types.                                            *)

LEMMA MessagesKept ==
  ASSUME EntryIds \subseteq EntryIds', NEW s, MessagesOK(s)
  PROVE  MessagesOK(s)'
BY DEF MessagesOK, MessageOK

LEMMA NoMessages == MessagesOK(<<>>) /\ Subjects(<<>>) = {}
<1>1. <<>> \in Seq(Broadcast) /\ DOMAIN <<>> = {}
  OBVIOUS
<1> QED
  BY <1>1 DEF MessagesOK, Subjects

LEMMA OneMessage ==
  ASSUME NEW m \in Broadcast
  PROVE  /\ <<m>> \in Seq(Broadcast) /\ DOMAIN <<m>> = {1} /\ <<m>>[1] = m
         /\ Subjects(<<m>>) = {m.entry}
<1>1. <<m>> \in Seq(Broadcast) /\ DOMAIN <<m>> = {1} /\ <<m>>[1] = m
  OBVIOUS
<1> QED
  BY <1>1 DEF Subjects

\* What is announced of an entry, and of the counts.
LEMMA EntryEventOK ==
  ASSUME NEW i \in Nat \ {0}, NEW document \in Entry
  PROVE  /\ EntryEvent(i, document) \in Broadcast
         /\ EntryEvent(i, document).entry = i
         /\ EntryEvent(i, document).status = document.status
         /\ EntryEvent(i, document).status # "none"
         /\ EntryEvent(i, document).length = Unsaid
<1>1. document.status \in EntryStatuses /\ document.position \in Nat
  BY DEF Entry
<1>2. "none" \notin EntryStatuses
  BY DEF EntryStatuses, ActiveStatuses, TerminalStatuses
<1> QED
  BY <1>1, <1>2 DEF EntryEvent, Broadcast, Unsaid

LEMMA LiveUpdateOK ==
  ASSUME NEW n \in Nat
  PROVE  /\ MessageOK(LiveUpdate(n))
         /\ LiveUpdate(n).entry = 0
         /\ LiveUpdate(n).length = n
BY DEF LiveUpdate, MessageOK, Broadcast, Unsaid

\* A message is put in front.
LEMMA FrontMessage ==
  ASSUME NEW m, MessageOK(m), NEW s, MessagesOK(s)
  PROVE  /\ MessagesOK(<<m>> \o s)
         /\ DOMAIN (<<m>> \o s) = 1 .. Len(s) + 1
         /\ (<<m>> \o s)[1] = m
         /\ \A n \in DOMAIN s : (<<m>> \o s)[n + 1] = s[n]
         /\ \A n \in DOMAIN (<<m>> \o s) : n # 1 =>
              n - 1 \in DOMAIN s /\ (<<m>> \o s)[n] = s[n - 1]
<1>1. /\ s \in Seq(Broadcast) /\ Len(s) \in Nat /\ DOMAIN s = 1 .. Len(s)
      /\ <<m>> \in Seq(Broadcast) /\ Len(<<m>>) = 1 /\ <<m>>[1] = m
      /\ m \in Broadcast
  BY DEF MessagesOK, MessageOK
<1> DEFINE t == <<m>> \o s
<1>2. /\ t \in Seq(Broadcast) /\ Len(t) = Len(s) + 1
      /\ \A n \in 1 .. Len(s) + 1 : t[n] = IF n = 1 THEN m ELSE s[n - 1]
  BY <1>1
<1> HIDE DEF t
<1>3. DOMAIN t = 1 .. Len(s) + 1 /\ t[1] = m
  BY <1>1, <1>2
<1>4. \A n \in DOMAIN s : t[n + 1] = s[n]
  BY <1>1, <1>2
<1>5. \A n \in DOMAIN t : n # 1 => n - 1 \in DOMAIN s /\ t[n] = s[n - 1]
  BY <1>1, <1>2, <1>3
<1>6. MessagesOK(t)
  BY <1>2, <1>3, <1>5 DEF MessagesOK
<1> QED
  BY <1>3, <1>4, <1>5, <1>6 DEF t

\* A message is taken from the front.
LEMMA TailMessages ==
  ASSUME NEW s, MessagesOK(s), s # <<>>
  PROVE  /\ MessageOK(Head(s)) /\ MessagesOK(Tail(s))
         /\ Len(s) \in Nat \ {0} /\ DOMAIN s = 1 .. Len(s)
         /\ Head(s) = s[1] /\ 1 \in DOMAIN s
         /\ DOMAIN Tail(s) = 1 .. Len(s) - 1
         /\ \A n \in DOMAIN Tail(s) : n + 1 \in DOMAIN s /\ Tail(s)[n] = s[n + 1]
         /\ Subjects(s) = Subjects(Tail(s)) \cup {Head(s).entry}
<1>1. /\ s \in Seq(Broadcast) /\ Len(s) \in Nat \ {0} /\ DOMAIN s = 1 .. Len(s)
      /\ Head(s) = s[1]
  BY DEF MessagesOK
<1>2. /\ Tail(s) \in Seq(Broadcast) /\ Len(Tail(s)) = Len(s) - 1
      /\ \A n \in 1 .. Len(s) - 1 : Tail(s)[n] = s[n + 1]
  BY <1>1
<1>3. DOMAIN Tail(s) = 1 .. Len(s) - 1
  BY <1>2
<1>4. \A n \in DOMAIN Tail(s) : n + 1 \in DOMAIN s /\ Tail(s)[n] = s[n + 1]
  BY <1>1, <1>2, <1>3
<1>5. \A n \in DOMAIN s : n # 1 => n - 1 \in DOMAIN Tail(s) /\ s[n] = Tail(s)[n - 1]
  BY <1>1, <1>2, <1>3
<1>6. MessagesOK(Tail(s))
  BY <1>2, <1>4 DEF MessagesOK
<1>7. Subjects(s) = Subjects(Tail(s)) \cup {Head(s).entry}
  <2> HIDE DEF Subjects
  <2>1. 1 \in DOMAIN s
    BY <1>1
  <2> QED
    BY <1>1, <1>4, <1>5, <2>1 DEF Subjects
<1> QED
  BY <1>1, <1>3, <1>4, <1>6, <1>7 DEF MessagesOK

\* A message is put at the end.
LEMMA AppendMessage ==
  ASSUME NEW m, MessageOK(m), NEW s, MessagesOK(s)
  PROVE  /\ MessagesOK(Append(s, m))
         /\ Len(s) \in Nat /\ DOMAIN s = 1 .. Len(s)
         /\ DOMAIN Append(s, m) = 1 .. Len(s) + 1
         /\ Append(s, m)[Len(s) + 1] = m
         /\ \A n \in DOMAIN s : Append(s, m)[n] = s[n]
         /\ Subjects(Append(s, m)) = Subjects(s) \cup {m.entry}
<1>1. /\ s \in Seq(Broadcast) /\ Len(s) \in Nat /\ DOMAIN s = 1 .. Len(s)
      /\ m \in Broadcast
  BY DEF MessagesOK, MessageOK
<1> DEFINE t == Append(s, m)
<1>2. /\ t \in Seq(Broadcast) /\ Len(t) = Len(s) + 1
      /\ \A n \in 1 .. Len(s) : t[n] = s[n]
      /\ t[Len(s) + 1] = m
  BY <1>1
<1> HIDE DEF t
<1>3. DOMAIN t = 1 .. Len(s) + 1
  BY <1>2
<1>4. \A n \in DOMAIN t : (n \in DOMAIN s /\ t[n] = s[n]) \/ n = Len(s) + 1
  BY <1>1, <1>2, <1>3
<1>5. MessagesOK(t)
  BY <1>2, <1>3, <1>4 DEF MessagesOK
<1>6. Len(s) + 1 \in DOMAIN t /\ DOMAIN s \subseteq DOMAIN t
  BY <1>1, <1>3
<1>7. Subjects(t) = Subjects(s) \cup {m.entry}
  BY <1>1, <1>2, <1>4, <1>6 DEF Subjects
<1> QED
  BY <1>1, <1>2, <1>3, <1>5, <1>7 DEF t

-----------------------------------------------------------------------------
(* The types, and how far every request is: for any requests.              *)

LEMMA OutboxParts ==
  ASSUME NEW q, NEW x, x = request'[q], NEW s, s = outbox'[q],
         LocalsLive(x), MessagesOK(s)', x.pc \in Unwritten => s = <<>>,
         x.pc \in Recalculation => 0 \notin Subjects(s)
  PROVE  OutboxOK(q)'
BY DEF OutboxOK, LocalsLive, Subjects

\* What is in the outbox after a step of the server.
LEMMA ServerOutbox ==
  ASSUME LiveIInv, IInv', EntryIds \subseteq EntryIds', NEW r \in Requests,
         ServerEffect(r)
  PROVE  \E s :
           /\ outbox' = [outbox EXCEPT ![r] = s]
           /\ MessagesOK(s)'
           /\ request'[r].pc \in Unwritten => s = <<>>
           /\ request'[r].pc \in Recalculation => 0 \notin Subjects(s)
<1>1. /\ MessagesOK(outbox[r])
      /\ request[r].pc \in Unwritten => outbox[r] = <<>>
      /\ request[r].pc \in Recalculation => 0 \notin Subjects(outbox[r])
      /\ outbox \in [Requests -> Seq(Broadcast)]
  BY LiveHypothesis DEF LiveIInv, OutboxOK
<1>2. PICK old : old = outbox[r]
  OBVIOUS
<1>3. CASE Silent(r)
  <2>1. outbox' = [outbox EXCEPT ![r] = old]
    BY <1>1, <1>2, <1>3 DEF Silent
  <2>2. MessagesOK(old)'
    BY <1>1, <1>2, MessagesKept
  <2>3. /\ request'[r].pc \in Unwritten => request[r].pc \in Unwritten
        /\ request'[r].pc \in Recalculation => request[r].pc \in Recalculation
    BY <1>3 DEF Silent, Unwritten, Joining, Recalculation
  <2> QED
    BY <1>1, <1>2, <2>1, <2>2, <2>3
<1>4. CASE Announces(r)
  <2>1. PICK i : i = request'[r].id
    OBVIOUS
  <2>2. PICK m : m = EntryEvent(i, entries'[i])
    OBVIOUS
  <2>3. /\ i \in EntryIds' /\ outbox' = [outbox EXCEPT ![r] = <<m>>]
        /\ request'[r].pc \in Recalculation
    BY <1>4, <2>1, <2>2 DEF Announces
  <2>4. entries'[i] \in Entry /\ i \in Nat \ {0}
    <3>1. entries' \in Seq(Entry) /\ EntryIds' = 1 .. Len(entries')
      BY DEF IInv, TypeOK, StoreTypeOK, EntryIds
    <3> QED
      BY <2>3, <3>1
  <2>5. /\ m \in Broadcast /\ m.entry = i
        /\ m.status # "none" /\ m.length = Unsaid
    BY <2>2, <2>4, EntryEventOK
  <2>6. MessagesOK(<<m>>)' /\ Subjects(<<m>>) = {i}
    BY <2>3, <2>4, <2>5, OneMessage DEF MessagesOK, MessageOK
  <2>7. request'[r].pc \notin Unwritten
    BY <2>3 DEF Unwritten, Joining, Recalculation
  <2> QED
    BY <2>3, <2>4, <2>6, <2>7
<1>5. CASE Counts(r)
  <2>1. PICK n : n = queue'.length
    OBVIOUS
  <2>2. n \in Nat
    BY <2>1 DEF IInv, TypeOK, StoreTypeOK, Queue
  <2>3. MessagesOK(<<LiveUpdate(n)>> \o old)
    BY <1>1, <1>2, <2>2, LiveUpdateOK, FrontMessage
  <2>4. PICK s : s = <<LiveUpdate(n)>> \o old
    OBVIOUS
  <2>5. MessagesOK(s)'
    BY <2>3, <2>4, MessagesKept
  <2>6. /\ outbox' = [outbox EXCEPT ![r] = s]
        /\ request'[r].pc = "idle"
    BY <1>2, <1>5, <2>1, <2>4 DEF Counts
  <2>7. request'[r].pc \notin Unwritten \cup Recalculation
    BY <2>6 DEF Unwritten, Joining, Recalculation
  <2> QED
    BY <2>5, <2>6, <2>7
<1> QED
  BY <1>3, <1>4, <1>5 DEF ServerEffect

\* A step that only changes what the server has to say.
LEMMA OutboxStep ==
  ASSUME LiveIInv, IInv', EntryIds \subseteq EntryIds', ~queue'.deleted,
         NEW r \in Requests, NEW s, outbox' = [outbox EXCEPT ![r] = s],
         MessagesOK(s)', LocalsLive(request'[r]),
         request'[r].pc \in Unwritten => s = <<>>,
         request'[r].pc \in Recalculation => 0 \notin Subjects(s),
         \A q \in Requests \ {r} : request'[q] = request[q],
         UNCHANGED page
  PROVE  /\ \A q \in Requests : OutboxOK(q)'
         /\ outbox' \in [Requests -> Seq(Broadcast)]
         /\ DOMAIN live' \subseteq EntryIds'
         /\ \A i \in DOMAIN live' :
              live'[i] \in [status : EntryStatuses, position : Nat]
         /\ liveLength' \in Nat
         /\ reloads' \in 0 .. MaxReloads /\ refreshing' \in BOOLEAN
<1>1. outbox \in [Requests -> Seq(Broadcast)]
  BY LiveHypothesis
<1>2. s \in Seq(Broadcast)
  BY DEF MessagesOK
<1>3. outbox' \in [Requests -> Seq(Broadcast)] /\ outbox'[r] = s
  BY <1>1, <1>2
<1>4. ASSUME NEW q \in Requests PROVE OutboxOK(q)'
  <2>1. CASE q = r
    <3>1. PICK x : x = request'[r]
      OBVIOUS
    <3>2. LocalsLive(x)
      BY <3>1 DEF LocalsLive
    <3> QED
      BY <1>3, <2>1, <3>1, <3>2, OutboxParts
  <2>2. CASE q # r
    <3>1. PICK x, t : x = request[q] /\ t = outbox[q]
      OBVIOUS
    <3>2. x = request'[q] /\ t = outbox'[q]
      BY <1>1, <2>2, <3>1
    <3>3. /\ LocalsLive(x) /\ MessagesOK(t)
          /\ x.pc \in Unwritten => t = <<>>
          /\ x.pc \in Recalculation => 0 \notin Subjects(t)
      BY <3>1 DEF LiveIInv, OutboxOK
    <3>4. MessagesOK(t)'
      BY <3>3, MessagesKept
    <3> QED
      BY <3>2, <3>3, <3>4, OutboxParts
  <2> QED
    BY <2>1, <2>2
<1>5. /\ DOMAIN live' \subseteq EntryIds'
      /\ \A i \in DOMAIN live' :
           live'[i] \in [status : EntryStatuses, position : Nat]
      /\ liveLength' \in Nat
      /\ reloads' \in 0 .. MaxReloads /\ refreshing' \in BOOLEAN
  BY DEF LiveIInv, LiveTypeOK, page
<1> QED
  BY <1>3, <1>4, <1>5

\* Documents are never taken out of the collection.
LEMMA EntriesGrow ==
  ASSUME LiveIInv, IInv', Onward
  PROVE  EntryIds \subseteq EntryIds'
<1>1. EntryIds' = 1 .. Len(entries') /\ Len(entries') \in Nat
  BY DEF IInv, TypeOK, StoreTypeOK, EntryIds
<1> QED
  BY <1>1, StoreFacts DEF Onward

\* A step that leaves the page and the channel alone.
LEMMA QuietPage ==
  ASSUME LiveIInv, IInv', EntryIds \subseteq EntryIds', ~queue'.deleted,
         NEW r \in Requests, NEW s, outbox' = [outbox EXCEPT ![r] = s],
         MessagesOK(s)', LocalsLive(request'[r]),
         request'[r].pc \in Unwritten => s = <<>>,
         request'[r].pc \in Recalculation => 0 \notin Subjects(s),
         \A q \in Requests \ {r} : request'[q] = request[q],
         UNCHANGED <<connected, channel, page, missed>>
  PROVE  LiveIInv'
<1>1. /\ \A q \in Requests : OutboxOK(q)'
      /\ outbox' \in [Requests -> Seq(Broadcast)]
      /\ DOMAIN live' \subseteq EntryIds'
      /\ \A i \in DOMAIN live' :
           live'[i] \in [status : EntryStatuses, position : Nat]
      /\ liveLength' \in Nat
      /\ reloads' \in 0 .. MaxReloads /\ refreshing' \in BOOLEAN
  BY OutboxStep
<1>2. PICK messages : messages = channel /\ messages = channel'
  OBVIOUS
<1>3. MessagesOK(messages) /\ MessagesOK(messages)'
  BY <1>2, MessagesKept DEF LiveIInv
<1>4. MessagesOK(channel)'
  BY <1>2, <1>3 DEF MessagesOK, MessageOK
<1>5. /\ connected' \in BOOLEAN /\ missed' \subseteq {0} \cup EntryIds'
      /\ connected' \/ channel' = <<>>
  BY DEF LiveIInv, LiveTypeOK
<1>6. LiveTypeOK'
  BY <1>1, <1>4, <1>5 DEF LiveTypeOK, IInv, MessagesOK
<1> QED
  BY <1>1, <1>4, <1>5, <1>6 DEF LiveIInv

LEMMA LiveStepInv ==
  ASSUME LiveIInv, NEW r \in Requests, LiveStep(r)
  PROVE  IInv' /\ LiveIInv' /\ EntryIds \subseteq EntryIds'
<1>1. Step(r) /\ Announce(r) /\ UNCHANGED <<connected, channel, page, missed>>
  BY DEF LiveStep
<1>2. IInv /\ IInv'
  BY <1>1, NextIInv, LiveHypothesis DEF Next
<1>3. StepEffect(r) /\ ServerEffect(r)
  BY <1>1, <1>2, RequestEffect, StepLive
<1>4. EntryIds \subseteq EntryIds'
  BY <1>2, <1>3, EntriesGrow DEF StepEffect
<1>5. ~queue'.deleted
  BY <1>3, LiveHypothesis
  DEF ServerEffect, Silent, SameStatuses, Announces, Counts
<1>6. PICK s :
        /\ outbox' = [outbox EXCEPT ![r] = s]
        /\ MessagesOK(s)'
        /\ request'[r].pc \in Unwritten => s = <<>>
        /\ request'[r].pc \in Recalculation => 0 \notin Subjects(s)
  BY <1>2, <1>3, <1>4, ServerOutbox
<1> QED
  BY <1>1, <1>2, <1>3, <1>4, <1>5, <1>6, QuietPage
  DEF StepEffect, ServerEffect

LEMMA LiveRequestInv ==
  ASSUME LiveIInv, NEW r \in Requests, LiveRequest(r)
  PROVE  LiveIInv'
<1>1. /\ EntryRequest(r) \/ ProcessingRequest(r)
      /\ outbox' = outbox /\ outbox[r] = <<>>
      /\ UNCHANGED <<connected, channel, page, missed>>
  BY DEF LiveRequest
<1>2. IInv /\ IInv'
  BY <1>1, NextIInv, LiveHypothesis DEF Next
<1>3. /\ UNCHANGED store
      /\ LocalsLive(request'[r]) /\ request'[r].pc \in Unwritten
  BY <1>1, RequestLive
<1>4. /\ EntryIds \subseteq EntryIds' /\ ~queue'.deleted
      /\ \A q \in Requests \ {r} : request'[q] = request[q]
  <2>1. StepEffect(r)
    BY <1>1, <1>2, RequestEffect
  <2> QED
    BY <1>3, <2>1, LiveHypothesis DEF store, EntryIds, StepEffect
<1>5. PICK s : s = <<>>
  OBVIOUS
<1>6. outbox' = [outbox EXCEPT ![r] = s]
  BY <1>1, <1>5, LiveHypothesis
<1>7. MessagesOK(s)' /\ Subjects(s) = {}
  BY <1>4, <1>5, NoMessages, MessagesKept
<1> QED
  BY <1>1, <1>2, <1>3, <1>4, <1>5, <1>6, <1>7, QuietPage

LEMMA SameServer ==
  ASSUME LiveIInv, UNCHANGED <<queue, entries, request>>
  PROVE  IInv' /\ EntryIds' = EntryIds
<1>1. UNCHANGED vars
  BY DEF vars
<1>2. IInv'
  BY <1>1, NextIInv DEF LiveIInv
<1> QED
  BY <1>2 DEF EntryIds

\* A step of the page or of the network.
LEMMA PageStep ==
  ASSUME LiveIInv, UNCHANGED <<queue, entries, request, outbox>>,
         NEW messages, channel' = messages, MessagesOK(messages),
         connected' \in BOOLEAN, connected' \/ messages = <<>>,
         DOMAIN live' \subseteq EntryIds,
         \A i \in DOMAIN live' :
           live'[i] \in [status : EntryStatuses, position : Nat],
         liveLength' \in Nat, reloads' \in 0 .. MaxReloads,
         refreshing' \in BOOLEAN, missed' \subseteq {0} \cup EntryIds
  PROVE  LiveIInv'
<1>1. IInv' /\ EntryIds' = EntryIds
  BY SameServer
<1>2. MessagesOK(channel)' /\ channel' \in Seq(Broadcast)
  BY <1>1 DEF MessagesOK, MessageOK
<1>3. outbox' \in [Requests -> Seq(Broadcast)]
  BY DEF LiveIInv, LiveTypeOK
<1>4. LiveTypeOK'
  BY <1>1, <1>2, <1>3 DEF LiveTypeOK, IInv
<1>5. ASSUME NEW q \in Requests PROVE OutboxOK(q)'
  <2>1. PICK x, t : x = request[q] /\ t = outbox[q]
    OBVIOUS
  <2>2. x = request'[q] /\ t = outbox'[q]
    BY <2>1
  <2>3. /\ LocalsLive(x) /\ MessagesOK(t)
        /\ x.pc \in Unwritten => t = <<>>
        /\ x.pc \in Recalculation => 0 \notin Subjects(t)
    BY <2>1 DEF LiveIInv, OutboxOK
  <2>4. MessagesOK(t)'
    BY <1>1, <2>3, MessagesKept
  <2> QED
    BY <2>2, <2>3, <2>4, OutboxParts
<1> QED
  BY <1>1, <1>2, <1>4, <1>5 DEF LiveIInv

\* What the invariant says to a step of the page.
LEMMA PageHypothesis ==
  ASSUME LiveIInv
  PROVE  /\ MessagesOK(channel)
         /\ connected \in BOOLEAN
         /\ connected \/ channel = <<>>
         /\ DOMAIN live \subseteq EntryIds
         /\ \A i \in DOMAIN live :
              live[i] \in [status : EntryStatuses, position : Nat]
         /\ liveLength \in Nat
         /\ reloads \in 0 .. MaxReloads /\ refreshing \in BOOLEAN
         /\ missed \subseteq {0} \cup EntryIds
BY DEF LiveIInv, LiveTypeOK

\* realtimeSlice.js:31, 37, 49.
LEMMA ReceiveInv ==
  ASSUME LiveIInv, Receive
  PROVE  LiveIInv'
<1>1. PICK m : m = Head(channel)
  OBVIOUS
<1>2. PICK messages : messages = Tail(channel)
  OBVIOUS
<1>3. /\ channel # <<>> /\ reloads < MaxReloads /\ channel' = messages
      /\ live' = IF m.entry # 0 /\ m.status # "expired"
                 THEN Cache(m) ELSE live
      /\ liveLength' = ShowLength(m)
      /\ missed' = missed \ {m.entry}
      /\ reloads' = reloads + 1 /\ refreshing' = TRUE
      /\ UNCHANGED <<queue, entries, request, outbox, connected>>
  BY <1>1, <1>2 DEF Receive
<1>4. MessageOK(m) /\ MessagesOK(messages)
  BY <1>1, <1>2, <1>3, PageHypothesis, TailMessages
<1>5. m \in Broadcast /\ m.entry \in {0} \cup EntryIds
  BY <1>4 DEF MessageOK
<1>6. liveLength' \in Nat
  BY <1>3, <1>5, PageHypothesis DEF ShowLength, Broadcast, Unsaid
<1>7. reloads' \in 0 .. MaxReloads
  BY <1>3, PageHypothesis, ReloadsAssumption
<1>8. /\ DOMAIN live' \subseteq EntryIds
      /\ \A i \in DOMAIN live' :
           live'[i] \in [status : EntryStatuses, position : Nat]
  <2>1. CASE m.entry # 0 /\ m.status # "expired"
    <3>1. m.status \in EntryStatuses /\ m.position \in Nat
      BY <1>4, <1>5, <2>1 DEF MessageOK, Broadcast
    <3>2. PICK c \in [status : EntryStatuses, position : Nat] :
            c = [status |-> m.status, position |-> m.position]
      BY <3>1
    <3>3. live' = [i \in DOMAIN live \cup {m.entry} |->
                     IF i = m.entry THEN c ELSE live[i]]
      BY <1>3, <2>1, <3>2 DEF Cache
    <3> QED
      BY <1>5, <2>1, <3>3, PageHypothesis
  <2>2. CASE ~(m.entry # 0 /\ m.status # "expired")
    <3>1. live' = live
      BY <1>3, <2>2
    <3> QED
      BY <3>1, PageHypothesis
  <2> QED
    BY <2>1, <2>2
<1>9. /\ connected' \in BOOLEAN
      /\ connected' \/ messages = <<>>
      /\ refreshing' \in BOOLEAN /\ missed' \subseteq {0} \cup EntryIds
  <2>1. connected
    BY <1>3, PageHypothesis
  <2> QED
    BY <1>3, <2>1, PageHypothesis
<1> QED
  BY <1>3, <1>4, <1>6, <1>7, <1>8, <1>9, PageStep

\* realtimeSlice.js:53.
LEMMA ReloadSettlesInv ==
  ASSUME LiveIInv, NEW succeeds \in BOOLEAN, ReloadSettles(succeeds)
  PROVE  LiveIInv'
<1>1. /\ reloads > 0 /\ reloads' = reloads - 1 /\ refreshing' \in BOOLEAN
      /\ UNCHANGED <<queue, entries, request, outbox, connected, channel, live,
                     liveLength, missed>>
  BY DEF ReloadSettles
<1>2. PICK messages : messages = channel
  OBVIOUS
<1>3. reloads' \in 0 .. MaxReloads
  BY <1>1, PageHypothesis, ReloadsAssumption
<1> QED
  BY <1>1, <1>2, <1>3, PageHypothesis, PageStep

\* The faults.
LEMMA DisconnectInv ==
  ASSUME LiveIInv, Disconnect
  PROVE  LiveIInv'
<1>1. PICK messages : messages = <<>>
  OBVIOUS
<1>2. /\ connected' \in BOOLEAN /\ channel' = messages
      /\ missed' = missed \cup Subjects(channel)
      /\ UNCHANGED <<queue, entries, request, outbox, page>>
  BY <1>1 DEF Disconnect
<1>3. Subjects(channel) \subseteq {0} \cup EntryIds
  BY PageHypothesis DEF MessagesOK, MessageOK, Subjects
<1>4. MessagesOK(messages)
  BY <1>1, NoMessages
<1>5. /\ live' = live /\ liveLength' = liveLength
      /\ reloads' = reloads /\ refreshing' = refreshing
  BY <1>2 DEF page
<1> QED
  BY <1>1, <1>2, <1>3, <1>4, <1>5, PageHypothesis, PageStep

LEMMA ReconnectInv ==
  ASSUME LiveIInv, Reconnect
  PROVE  LiveIInv'
<1>1. /\ connected' \in BOOLEAN /\ connected'
      /\ UNCHANGED <<queue, entries, request, outbox, channel, missed>>
      /\ live' = live /\ liveLength' = liveLength
      /\ reloads' = reloads /\ refreshing' = refreshing
  BY DEF Reconnect, page
<1>2. PICK messages : messages = channel
  OBVIOUS
<1> QED
  BY <1>1, <1>2, PageHypothesis, PageStep

\* queueProcessingService.js:44, 55-57.
LEMMA PublishInv ==
  ASSUME LiveIInv, NEW r \in Requests, Publish(r)
  PROVE  LiveIInv'
<1>1. PICK m : m = Head(outbox[r])
  OBVIOUS
<1>2. PICK s : s = Tail(outbox[r])
  OBVIOUS
<1>3. /\ request[r].pc = "idle" /\ outbox[r] # <<>>
      /\ outbox' = [outbox EXCEPT ![r] = s]
      /\ \/ channel' = Append(channel, m) /\ connected /\ missed' = missed
         \/ channel' = channel /\ missed' = missed
         \/ missed' = missed \cup {m.entry} /\ channel' = channel
      /\ UNCHANGED <<queue, entries, request, connected, page>>
  BY <1>1, <1>2 DEF Publish
<1>4. MessageOK(m) /\ MessagesOK(s)
  <2>1. MessagesOK(outbox[r])
    BY DEF LiveIInv, OutboxOK
  <2> QED
    BY <1>1, <1>2, <1>3, <2>1, TailMessages
<1>5. IInv' /\ EntryIds' = EntryIds /\ ~queue'.deleted
  BY <1>3, SameServer DEF LiveIInv
<1>6. MessagesOK(s)'
  BY <1>4, <1>5, MessagesKept
<1>7. LocalsLive(request'[r]) /\ request'[r].pc \notin Unwritten \cup Recalculation
  BY <1>3, LiveHypothesis DEF Unwritten, Joining, Recalculation
<1>8. /\ \A q \in Requests : OutboxOK(q)'
      /\ outbox' \in [Requests -> Seq(Broadcast)]
      /\ DOMAIN live' \subseteq EntryIds'
      /\ \A i \in DOMAIN live' :
           live'[i] \in [status : EntryStatuses, position : Nat]
      /\ liveLength' \in Nat
      /\ reloads' \in 0 .. MaxReloads /\ refreshing' \in BOOLEAN
  BY <1>3, <1>5, <1>6, <1>7, OutboxStep
<1>9. PICK messages :
        /\ messages = channel' /\ MessagesOK(messages)
        /\ connected \/ messages = <<>>
  <2>1. MessagesOK(Append(channel, m))
    BY <1>4, PageHypothesis, AppendMessage
  <2> QED
    BY <1>3, <2>1, PageHypothesis
<1>10. MessagesOK(channel)' /\ channel' \in Seq(Broadcast)
  BY <1>5, <1>9 DEF MessagesOK, MessageOK
<1>11. /\ connected' \in BOOLEAN
       /\ connected' \/ channel' = <<>>
       /\ missed' \subseteq {0} \cup EntryIds'
  BY <1>3, <1>4, <1>5, <1>9, PageHypothesis DEF MessageOK
<1>12. LiveTypeOK'
  BY <1>5, <1>8, <1>10, <1>11 DEF LiveTypeOK, IInv
<1> QED
  BY <1>5, <1>8, <1>10, <1>11, <1>12 DEF LiveIInv

LEMMA InitLive == LiveInit => LiveIInv
<1> SUFFICES ASSUME LiveInit PROVE LiveIInv
  OBVIOUS
<1>1. IInv /\ ~queue.deleted
  BY InitIInv DEF LiveInit, Init
<1>2. /\ \A r \in Requests : request[r] = Idle /\ outbox[r] = <<>>
      /\ outbox = [r \in Requests |-> <<>>]
  BY DEF LiveInit, Init
<1>3. MessagesOK(<<>>) /\ Subjects(<<>>) = {} /\ <<>> \in Seq(Broadcast)
  BY NoMessages DEF MessagesOK
<1>4. PICK none : none = <<>>
  OBVIOUS
<1>5. \A r \in Requests : OutboxOK(r)
  BY <1>2, <1>3, <1>4, IdleLive DEF OutboxOK
<1>6. LiveTypeOK
  <2>1. outbox \in [Requests -> Seq(Broadcast)]
    BY <1>2, <1>3, <1>4
  <2>2. DOMAIN live = {}
    BY DEF LiveInit
  <2>3. connected \in BOOLEAN /\ refreshing \in BOOLEAN
    BY DEF LiveInit
  <2>4. reloads \in 0 .. MaxReloads /\ liveLength \in Nat /\ missed = {}
    BY ReloadsAssumption DEF LiveInit
  <2>5. channel \in Seq(Broadcast)
    BY <1>3 DEF LiveInit
  <2> QED
    BY <1>1, <2>1, <2>2, <2>3, <2>4, <2>5 DEF LiveTypeOK, IInv
<1> QED
  BY <1>1, <1>3, <1>5, <1>6 DEF LiveIInv, LiveInit

LEMMA StutterLive == LiveIInv /\ UNCHANGED liveVars => LiveIInv'
<1> SUFFICES ASSUME LiveIInv, UNCHANGED liveVars PROVE LiveIInv'
  OBVIOUS
<1>1. PICK messages : messages = channel
  OBVIOUS
<1>2. /\ UNCHANGED <<queue, entries, request, outbox>>
      /\ channel' = messages /\ connected' = connected /\ missed' = missed
      /\ live' = live /\ liveLength' = liveLength
      /\ reloads' = reloads /\ refreshing' = refreshing
  BY <1>1 DEF liveVars, page
<1> QED
  BY <1>1, <1>2, PageHypothesis, PageStep

LEMMA NextLive == LiveIInv /\ [LiveNext]_liveVars => LiveIInv'
BY LiveRequestInv, LiveStepInv, PublishInv, ReceiveInv, ReloadSettlesInv,
   DisconnectInv, ReconnectInv, StutterLive DEF LiveNext, Browser

LEMMA LiveInvariance == LiveSpec => []LiveIInv
  BY InitLive, NextLive, PTL DEF LiveSpec

\* Whatever is in the outbox of a request, on its way or in the cache of the
\* page is well-formed and about entries that exist, for any number of requests
\* at a time (queueProcessingService.js:38-44, 55-57, realtimeSlice.js:31-53).
THEOREM LiveTypeCorrect == LiveSpec => []LiveTypeOK
<1>1. LiveIInv => LiveTypeOK
  BY DEF LiveIInv
<1> QED
  BY <1>1, LiveInvariance, PTL

-----------------------------------------------------------------------------
(* What the page shows, of requests one at a time.                         *)

\* The message m says of i what is in the database.
Tells(m, i) ==
  /\ m.entry = i
  /\ IF i = 0 THEN m.length = queue.length ELSE m.status = entries[i].status

\* So does the last of the messages about i.
LastTells(messages, i) ==
  \E n \in DOMAIN messages :
    /\ Tells(messages[n], i)
    /\ \A k \in DOMAIN messages : k > n => messages[k].entry # i

Shows(i) ==
  IF i = 0 THEN liveLength = queue.length
           ELSE i \in DOMAIN live /\ live[i].status = entries[i].status

\* The page has to show the length and the statuses of which it hears.
Due(i) == i = 0 \/ entries[i].status \in Announced

OnThePage(i) ==
  \/ LastTells(channel, i)
  \/ /\ i \notin Subjects(channel)
     /\ i \in missed \/ Shows(i)

ToldOrShown(i) ==
  \/ \E r \in Requests : i \in Subjects(outbox[r])
  \/ OnThePage(i)

\* What is still to be broadcast is true.
TruthOK(messages) ==
  \A n \in DOMAIN messages : Tells(messages[n], messages[n].entry)

ShownInv ==
  /\ \A r \in Requests : TruthOK(outbox[r])
  /\ \A i \in {0} \cup EntryIds : Due(i) => ToldOrShown(i)

\* Of i, the database says what it said.
Same(i) == IF i = 0 THEN queue'.length = queue.length
                    ELSE entries'[i].status = entries[i].status

LEMMA SameTold ==
  ASSUME NEW i, Same(i)
  PROVE  /\ Due(i)' => Due(i)
         /\ \A m : Tells(m, i) => Tells(m, i)'
         /\ \A messages : LastTells(messages, i) => LastTells(messages, i)'
<1>1. /\ Due(i)' => Due(i)
      /\ \A m : Tells(m, i) => Tells(m, i)'
  BY DEF Same, Due, Tells
<1> QED
  BY <1>1 DEF LastTells

LEMMA SamePage ==
  ASSUME NEW i, Same(i), UNCHANGED <<channel, live, liveLength, missed>>,
         OnThePage(i)
  PROVE  OnThePage(i)'
<1>1. PICK messages : messages = channel /\ messages = channel'
  OBVIOUS
<1>2. CASE LastTells(channel, i)
  <2>1. LastTells(messages, i)'
    BY <1>1, <1>2, SameTold
  <2> QED
    BY <1>1, <2>1 DEF OnThePage, LastTells, Tells
<1>3. CASE i \notin Subjects(channel) /\ (i \in missed \/ Shows(i))
  <2>1. Shows(i) => Shows(i)'
    BY DEF Shows, Same
  <2>2. i \notin Subjects(channel')
    BY <1>3
  <2> QED
    BY <1>3, <2>1, <2>2 DEF OnThePage, Subjects
<1> QED
  BY <1>2, <1>3 DEF OnThePage

LEMMA ShownParts ==
  ASSUME NEW r, Requests = {r}, NEW s, s = outbox'[r], TruthOK(s)',
         \A i \in {0} \cup EntryIds' :
           Due(i)' => i \in Subjects(s) \/ OnThePage(i)'
  PROVE  ShownInv'
<1>1. TruthOK(outbox[r])'
  BY DEF TruthOK, Tells
<1>2. \A i \in {0} \cup EntryIds' : Due(i)' => ToldOrShown(i)'
  BY DEF ToldOrShown, Subjects
<1> QED
  BY <1>1, <1>2 DEF ShownInv

\* A step of the server.
LEMMA LiveStepShown ==
  ASSUME LiveIInv, ShownInv, NEW r, Requests = {r}, LiveStep(r)
  PROVE  ShownInv'
<1>1. /\ Step(r) /\ Announce(r) /\ r \in Requests
      /\ UNCHANGED <<channel, live, liveLength, missed>>
  BY DEF LiveStep, page
<1>2. /\ IInv' /\ EntryIds \subseteq EntryIds'
      /\ ServerEffect(r)
  BY <1>1, LiveStepInv, StepLive
<1>3. PICK s : s = outbox[r]
  OBVIOUS
<1>4. /\ MessagesOK(s) /\ TruthOK(s)
      /\ outbox \in [Requests -> Seq(Broadcast)]
      /\ request[r].pc \in Unwritten => s = <<>>
      /\ \A i \in {0} \cup EntryIds :
           Due(i) => i \in Subjects(s) \/ OnThePage(i)
  BY <1>1, <1>3, LiveHypothesis DEF LiveIInv, OutboxOK, ShownInv, ToldOrShown
<1>5. \A n \in DOMAIN s : s[n].entry \in {0} \cup EntryIds
  BY <1>4 DEF MessagesOK, MessageOK
<1>6. CASE Silent(r)
  <2>1. /\ EntryIds' = EntryIds /\ outbox'[r] = s
        /\ \A i \in {0} \cup EntryIds : Same(i)
    BY <1>3, <1>6 DEF Silent, SameStatuses, Same
  <2>2. TruthOK(s)'
    BY <1>4, <1>5, <2>1, SameTold DEF TruthOK
  <2>3. ASSUME NEW i \in {0} \cup EntryIds', Due(i)'
        PROVE  i \in Subjects(s) \/ OnThePage(i)'
    <3>1. Same(i) /\ Due(i)
      BY <2>1, <2>3, SameTold
    <3> QED
      BY <1>1, <1>4, <2>1, <3>1, SamePage
  <2> QED
    BY <2>1, <2>2, <2>3, ShownParts
<1>7. CASE Announces(r)
  <2>1. PICK i : i = request'[r].id
    OBVIOUS
  <2>2. PICK m : m = EntryEvent(i, entries'[i])
    OBVIOUS
  <2>3. PICK t : t = <<m>>
    OBVIOUS
  <2>4. /\ i \in EntryIds' /\ outbox'[r] = t /\ s = <<>>
        /\ EntryIds' \subseteq EntryIds \cup {i}
        /\ \A j \in {0} \cup (EntryIds \ {i}) : Same(j)
    BY <1>1, <1>4, <1>7, <2>1, <2>2, <2>3, StoreFacts DEF Announces, Same
  <2>5. /\ i # 0 /\ m.entry = i /\ m.status = entries'[i].status
        /\ DOMAIN t = {1} /\ t[1] = m /\ Subjects(t) = {i}
    <3>1. entries'[i] \in Entry /\ i \in Nat \ {0}
      <4>1. entries' \in Seq(Entry) /\ EntryIds' = 1 .. Len(entries')
        BY <1>2 DEF IInv, TypeOK, StoreTypeOK, EntryIds
      <4> QED
        BY <2>4, <4>1
    <3>2. m \in Broadcast /\ m.entry = i /\ m.status = entries'[i].status
      BY <2>2, <3>1, EntryEventOK
    <3> QED
      BY <2>3, <3>1, <3>2, OneMessage
  <2>6. TruthOK(t)'
    BY <2>5 DEF TruthOK, Tells
  <2>7. ASSUME NEW j \in {0} \cup EntryIds', Due(j)', j # i
        PROVE  OnThePage(j)'
    <3>1. j \in {0} \cup EntryIds /\ Same(j)
      BY <2>4, <2>7
    <3>2. Due(j) /\ j \notin Subjects(s)
      BY <2>4, <2>7, <3>1, NoMessages, SameTold
    <3> QED
      BY <1>1, <1>4, <3>1, <3>2, SamePage
  <2> QED
    BY <2>4, <2>5, <2>6, <2>7, ShownParts
<1>8. CASE Counts(r)
  <2>1. PICK n \in Nat : n = queue'.length
    BY <1>2 DEF IInv, TypeOK, StoreTypeOK, Queue
  <2>2. PICK m : m = LiveUpdate(n)
    OBVIOUS
  <2>3. PICK t : t = <<m>> \o s
    OBVIOUS
  <2>4. /\ outbox'[r] = t /\ entries' = entries
        /\ \A j \in EntryIds : Same(j)
    BY <1>1, <1>3, <1>4, <1>8, <2>1, <2>2, <2>3, StoreFacts DEF Counts, Same
  <2>5. MessageOK(m) /\ m.entry = 0 /\ m.length = n
    BY <2>1, <2>2, LiveUpdateOK
  <2>6. /\ MessagesOK(t) /\ DOMAIN t = 1 .. Len(s) + 1 /\ t[1] = m
        /\ \A k \in DOMAIN s : t[k + 1] = s[k]
        /\ \A k \in DOMAIN t : k # 1 => k - 1 \in DOMAIN s /\ t[k] = s[k - 1]
        /\ Len(s) \in Nat /\ DOMAIN s = 1 .. Len(s)
    BY <1>4, <2>3, <2>5, FrontMessage DEF MessagesOK
  <2>7. 0 \notin Subjects(s)
    BY <1>1, <1>3, <1>8 DEF LiveIInv, OutboxOK, Counts, Recalculation
  <2>8. \A k \in DOMAIN s : s[k].entry \in EntryIds
    BY <1>5, <2>7 DEF Subjects
  <2>9. TruthOK(t)'
    <3>1. Tells(m, 0)'
      BY <2>1, <2>5 DEF Tells
    <3>2. \A k \in DOMAIN s : Tells(s[k], s[k].entry)'
      BY <1>4, <2>4, <2>8, SameTold DEF TruthOK
    <3> QED
      BY <2>5, <2>6, <3>1, <3>2 DEF TruthOK
  <2>10. Subjects(s) \subseteq Subjects(t) /\ 0 \in Subjects(t)
    <3>1. \A k \in DOMAIN s : k + 1 \in DOMAIN t
      BY <2>6
    <3>2. 1 \in DOMAIN t
      BY <2>6
    <3> QED
      BY <2>5, <2>6, <3>1, <3>2 DEF Subjects
  <2>11. ASSUME NEW i \in {0} \cup EntryIds', Due(i)', i # 0
         PROVE  i \in Subjects(t) \/ OnThePage(i)'
    <3>1. i \in EntryIds /\ Same(i)
      BY <2>4, <2>11 DEF EntryIds
    <3>2. Due(i)
      BY <2>11, <3>1, SameTold
    <3> QED
      BY <1>1, <1>4, <2>10, <3>1, <3>2, SamePage
  <2> QED
    BY <2>4, <2>9, <2>10, <2>11, ShownParts
<1> QED
  BY <1>2, <1>6, <1>7, <1>8 DEF ServerEffect

\* What ShownInv says to a step that writes nothing.
LEMMA ShownHypothesis ==
  ASSUME LiveIInv, ShownInv, NEW r, Requests = {r}, UNCHANGED <<queue, entries>>
  PROVE  /\ EntryIds' = EntryIds
         /\ \A i : Same(i)
         /\ MessagesOK(outbox[r]) /\ TruthOK(outbox[r])
         /\ \A s : s = outbox[r] => TruthOK(s)'
         /\ \A i \in {0} \cup EntryIds :
              Due(i) => i \in Subjects(outbox[r]) \/ OnThePage(i)
<1>1. EntryIds' = EntryIds /\ \A i : Same(i)
  BY DEF EntryIds, Same
<1>2. MessagesOK(outbox[r]) /\ TruthOK(outbox[r])
  BY DEF LiveIInv, OutboxOK, ShownInv
<1>3. \A i \in {0} \cup EntryIds :
        Due(i) => i \in Subjects(outbox[r]) \/ OnThePage(i)
  BY DEF ShownInv, ToldOrShown
<1>4. ASSUME NEW s, s = outbox[r] PROVE TruthOK(s)'
  BY <1>1, <1>2, <1>4, SameTold DEF TruthOK
<1> QED
  BY <1>1, <1>2, <1>3, <1>4

\* A step that changes neither what is stored nor what is said and shown.
LEMMA NothingShown ==
  ASSUME LiveIInv, ShownInv, NEW r, Requests = {r},
         UNCHANGED <<queue, entries, outbox, channel, live, liveLength, missed>>
  PROVE  ShownInv'
<1>1. PICK s : s = outbox[r] /\ s = outbox'[r]
  OBVIOUS
<1>2. TruthOK(s)'
  BY <1>1, ShownHypothesis
<1>3. ASSUME NEW i \in {0} \cup EntryIds', Due(i)'
      PROVE  i \in Subjects(s) \/ OnThePage(i)'
  <2>1. i \in {0} \cup EntryIds /\ Same(i) /\ Due(i)
    BY <1>3, ShownHypothesis, SameTold
  <2> QED
    BY <1>1, <2>1, ShownHypothesis, SamePage
<1> QED
  BY <1>1, <1>2, <1>3, ShownParts

\* The last message about i, when one is put behind it or taken from before it.
LEMMA AppendLast ==
  ASSUME NEW m, MessageOK(m), NEW s, MessagesOK(s), NEW i
  PROVE  /\ Tells(m, i) => LastTells(Append(s, m), i)
         /\ LastTells(s, i) /\ m.entry # i => LastTells(Append(s, m), i)
<1> DEFINE t == Append(s, m)
<1>1. /\ Len(s) \in Nat /\ DOMAIN s = 1 .. Len(s)
      /\ DOMAIN t = 1 .. Len(s) + 1
      /\ t[Len(s) + 1] = m
      /\ \A n \in DOMAIN s : t[n] = s[n]
  BY AppendMessage
<1> HIDE DEF t
<1>2. ASSUME Tells(m, i) PROVE LastTells(t, i)
  <2>1. /\ Len(s) + 1 \in DOMAIN t /\ Tells(t[Len(s) + 1], i)
        /\ \A k \in DOMAIN t : ~(k > Len(s) + 1)
    BY <1>1, <1>2
  <2> QED
    BY <2>1 DEF LastTells
<1>3. ASSUME LastTells(s, i), m.entry # i PROVE LastTells(t, i)
  <2>1. PICK n \in DOMAIN s :
          /\ Tells(s[n], i)
          /\ \A k \in DOMAIN s : k > n => s[k].entry # i
    BY <1>3 DEF LastTells
  <2>2. n \in DOMAIN t /\ Tells(t[n], i)
    BY <1>1, <2>1
  <2>3. ASSUME NEW k \in DOMAIN t, k > n PROVE t[k].entry # i
    <3>1. CASE k = Len(s) + 1
      BY <1>1, <1>3, <3>1
    <3>2. CASE k # Len(s) + 1
      <4>1. k \in DOMAIN s
        BY <1>1, <3>2
      <4> QED
        BY <1>1, <2>1, <2>3, <4>1
    <3> QED
      BY <3>1, <3>2
  <2> QED
    BY <2>2, <2>3 DEF LastTells
<1> QED
  BY <1>2, <1>3 DEF t

LEMMA TailLast ==
  ASSUME NEW s, MessagesOK(s), s # <<>>, NEW i, LastTells(s, i)
  PROVE  \/ Tells(Head(s), i) /\ i \notin Subjects(Tail(s))
         \/ LastTells(Tail(s), i)
<1> DEFINE t == Tail(s)
<1>1. /\ Len(s) \in Nat \ {0} /\ DOMAIN s = 1 .. Len(s) /\ Head(s) = s[1]
      /\ DOMAIN t = 1 .. Len(s) - 1
      /\ \A n \in DOMAIN t : n + 1 \in DOMAIN s /\ t[n] = s[n + 1]
  BY TailMessages
<1> HIDE DEF t
<1>2. PICK n \in DOMAIN s :
        /\ Tells(s[n], i)
        /\ \A k \in DOMAIN s : k > n => s[k].entry # i
  BY DEF LastTells
<1>3. CASE n = 1
  <2>1. \A k \in DOMAIN t : t[k].entry # i
    BY <1>1, <1>2, <1>3
  <2> QED
    BY <1>1, <1>2, <1>3, <2>1 DEF Subjects, t
<1>4. CASE n # 1
  <2>1. n - 1 \in DOMAIN t /\ t[n - 1] = s[n]
    BY <1>1, <1>4
  <2>2. \A k \in DOMAIN t : k > n - 1 => t[k].entry # i
    BY <1>1, <1>2
  <2> QED
    BY <1>2, <2>1, <2>2 DEF LastTells, t
<1> QED
  BY <1>3, <1>4

LEMMA PublishShown ==
  ASSUME LiveIInv, ShownInv, NEW r, Requests = {r}, Publish(r)
  PROVE  ShownInv'
<1>1. PICK s : s = outbox[r]
  OBVIOUS
<1>2. PICK m : m = Head(s)
  OBVIOUS
<1>3. PICK t : t = Tail(s)
  OBVIOUS
<1>4. PICK messages : messages = channel
  OBVIOUS
<1>5. PICK sent : sent = channel'
  OBVIOUS
<1>6. /\ s # <<>> /\ outbox'[r] = t
      /\ UNCHANGED <<queue, entries, live, liveLength>>
      /\ \/ sent = Append(messages, m) /\ missed' = missed /\ Heard(m)
         \/ sent = messages /\ missed' = missed /\ ~Heard(m)
         \/ /\ missed' = missed \cup {m.entry}
            /\ sent = messages /\ messages = <<>>
  BY <1>1, <1>2, <1>3, <1>4, <1>5, PageHypothesis, LiveHypothesis
  DEF Publish, page
<1>7. /\ MessagesOK(s) /\ TruthOK(s) /\ TruthOK(s)'
      /\ EntryIds' = EntryIds
      /\ \A i \in {0} \cup EntryIds :
           Due(i) => i \in Subjects(s) \/ OnThePage(i)
      /\ \A i : Same(i)
      /\ MessagesOK(messages)
  BY <1>1, <1>4, <1>6, ShownHypothesis, PageHypothesis
<1>8. /\ MessageOK(m) /\ m = s[1] /\ 1 \in DOMAIN s
      /\ \A n \in DOMAIN t : n + 1 \in DOMAIN s /\ t[n] = s[n + 1]
      /\ Subjects(s) = Subjects(t) \cup {m.entry}
  BY <1>2, <1>3, <1>6, <1>7, TailMessages
<1>9. TruthOK(t)'
  BY <1>7, <1>8 DEF TruthOK
<1>10. Tells(m, m.entry)
  BY <1>7, <1>8 DEF TruthOK
<1>11. ASSUME NEW i \in {0} \cup EntryIds', Due(i)'
       PROVE  i \in Subjects(t) \/ OnThePage(i)'
  <2>1. i \in {0} \cup EntryIds /\ Same(i) /\ Due(i)
    BY <1>7, <1>11, SameTold
  <2>2. CASE i = m.entry
    <3>1. Heard(m)
      BY <1>8, <1>10, <2>1, <2>2 DEF Heard, Tells, MessageOK, Due, Announced
    <3>2. CASE sent = Append(messages, m)
      <4>1. LastTells(sent, i)
        BY <1>7, <1>8, <1>10, <2>2, <3>2, AppendLast
      <4>2. LastTells(sent, i)'
        BY <2>1, <4>1, SameTold
      <4> QED
        BY <1>5, <4>2 DEF OnThePage, LastTells, Tells
    <3>3. CASE /\ missed' = missed \cup {m.entry}
               /\ sent = messages /\ messages = <<>>
      <4>1. Subjects(sent) = {} /\ i \in missed'
        BY <2>2, <3>3, NoMessages
      <4> QED
        BY <1>5, <4>1 DEF OnThePage, Subjects
    <3> QED
      BY <1>6, <3>1, <3>2, <3>3
  <2>3. CASE i # m.entry
    <3>1. CASE i \in Subjects(s)
      BY <1>8, <2>3, <3>1
    <3>2. CASE LastTells(messages, i)
      <4>1. LastTells(sent, i)
        <5>1. CASE sent = Append(messages, m)
          BY <1>7, <1>8, <2>3, <3>2, <5>1, AppendLast
        <5>2. CASE sent = messages
          BY <3>2, <5>2
        <5> QED
          BY <1>6, <5>1, <5>2
      <4>2. LastTells(sent, i)'
        BY <2>1, <4>1, SameTold
      <4> QED
        BY <1>5, <4>2 DEF OnThePage, LastTells, Tells
    <3>3. CASE i \notin Subjects(messages) /\ (i \in missed \/ Shows(i))
      <4>1. i \notin Subjects(sent)
        <5>1. Subjects(Append(messages, m)) = Subjects(messages) \cup {m.entry}
          BY <1>7, <1>8, AppendMessage
        <5> QED
          BY <1>6, <2>3, <3>3, <5>1
      <4>2. i \in missed' \/ Shows(i)'
        BY <1>6, <3>3 DEF Shows
      <4> QED
        BY <1>5, <4>1, <4>2 DEF OnThePage, Subjects
    <3> QED
      BY <1>4, <1>7, <2>1, <3>1, <3>2, <3>3 DEF OnThePage
  <2> QED
    BY <2>2, <2>3
<1> QED
  BY <1>6, <1>9, <1>11, ShownParts

LEMMA ReceiveShown ==
  ASSUME LiveIInv, ShownInv, NEW r, Requests = {r}, Receive
  PROVE  ShownInv'
<1>1. PICK s : s = outbox[r]
  OBVIOUS
<1>2. PICK messages : messages = channel
  OBVIOUS
<1>3. PICK m : m = Head(messages)
  OBVIOUS
<1>4. PICK rest : rest = Tail(messages)
  OBVIOUS
<1>5. /\ messages # <<>> /\ channel' = rest
      /\ live' = IF m.entry # 0 /\ m.status # "expired"
                 THEN Cache(m) ELSE live
      /\ liveLength' = ShowLength(m)
      /\ missed' = missed \ {m.entry}
      /\ UNCHANGED <<queue, entries, outbox>>
  BY <1>2, <1>3, <1>4 DEF Receive
<1>6. /\ TruthOK(s)' /\ outbox'[r] = s
      /\ EntryIds' = EntryIds
      /\ \A i \in {0} \cup EntryIds :
           Due(i) => i \in Subjects(s) \/ OnThePage(i)
      /\ \A i : Same(i)
      /\ MessagesOK(messages)
  BY <1>1, <1>2, <1>5, ShownHypothesis, PageHypothesis
<1>7. /\ MessageOK(m)
      /\ Subjects(messages) = Subjects(rest) \cup {m.entry}
  BY <1>3, <1>4, <1>5, <1>6, TailMessages
<1>8. ASSUME NEW i \in {0} \cup EntryIds', Due(i)', OnThePage(i)
      PROVE  OnThePage(i)'
  <2>1. i \in {0} \cup EntryIds /\ Same(i) /\ Due(i)
    BY <1>6, <1>8, SameTold
  <2>2. CASE LastTells(rest, i)
    <3>1. LastTells(rest, i)'
      BY <2>1, <2>2, SameTold
    <3> QED
      BY <1>5, <3>1 DEF OnThePage, LastTells, Tells
  <2>3. CASE Tells(m, i) /\ i \notin Subjects(rest)
    <3>1. CASE i = 0
      <4>1. liveLength' = queue.length
        BY <1>5, <1>7, <2>3, <3>1 DEF Tells, MessageOK, ShowLength
      <4> QED
        BY <1>5, <2>3, <3>1, <4>1 DEF OnThePage, Shows, Subjects
    <3>2. CASE i # 0
      <4>1. m.entry = i /\ m.status = entries[i].status /\ m.status # "expired"
        BY <2>1, <2>3, <3>2 DEF Tells, Due, Announced
      <4>2. PICK c : c = [status |-> m.status, position |-> m.position]
        OBVIOUS
      <4>3. live' = [j \in DOMAIN live \cup {i} |-> IF j = i THEN c ELSE live[j]]
        BY <1>5, <3>2, <4>1, <4>2 DEF Cache
      <4>4. i \in DOMAIN live' /\ live'[i].status = entries[i].status
        BY <4>1, <4>2, <4>3
      <4> QED
        BY <1>5, <2>3, <3>2, <4>4 DEF OnThePage, Shows, Subjects
    <3> QED
      BY <3>1, <3>2
  <2>4. CASE i \notin Subjects(messages) /\ (i \in missed \/ Shows(i))
    <3>1. i # m.entry /\ i \notin Subjects(rest)
      BY <1>7, <2>4
    <3>2. i \in missed => i \in missed'
      BY <1>5, <3>1
    <3>3. ASSUME Shows(i) PROVE Shows(i)'
      <4>1. CASE i = 0
        <5>1. m.length = Unsaid
          BY <1>7, <3>1, <4>1 DEF MessageOK
        <5> QED
          BY <1>5, <3>3, <4>1, <5>1 DEF Shows, ShowLength
      <4>2. CASE i # 0
        <5>1. i \in DOMAIN live' /\ live'[i] = live[i]
          BY <1>5, <3>1, <3>3, <4>2 DEF Shows, Cache
        <5> QED
          BY <1>5, <3>3, <4>2, <5>1 DEF Shows
      <4> QED
        BY <4>1, <4>2
    <3> QED
      BY <1>5, <2>4, <3>1, <3>2, <3>3 DEF OnThePage, Subjects
  <2>5. LastTells(messages, i) =>
          (Tells(m, i) /\ i \notin Subjects(rest)) \/ LastTells(rest, i)
    BY <1>3, <1>4, <1>5, <1>6, TailLast
  <2> QED
    BY <1>2, <1>8, <2>2, <2>3, <2>4, <2>5 DEF OnThePage
<1> QED
  BY <1>6, <1>8, SameTold, ShownParts

LEMMA DisconnectShown ==
  ASSUME LiveIInv, ShownInv, NEW r, Requests = {r}, Disconnect
  PROVE  ShownInv'
<1>1. PICK s : s = outbox[r]
  OBVIOUS
<1>2. PICK messages : messages = channel
  OBVIOUS
<1>3. /\ channel' = <<>> /\ missed' = missed \cup Subjects(messages)
      /\ UNCHANGED <<queue, entries, outbox, live, liveLength>>
  BY <1>2 DEF Disconnect, page
<1>4. /\ TruthOK(s)' /\ outbox'[r] = s
      /\ EntryIds' = EntryIds
      /\ \A i \in {0} \cup EntryIds :
           Due(i) => i \in Subjects(s) \/ OnThePage(i)
      /\ \A i : Same(i)
  BY <1>1, <1>3, ShownHypothesis
<1>5. Subjects(channel') = {}
  BY <1>3, NoMessages
<1>6. ASSUME NEW i, OnThePage(i) PROVE OnThePage(i)'
  <2>1. LastTells(messages, i) => i \in Subjects(messages)
    BY DEF LastTells, Tells, Subjects
  <2>2. i \in missed' \/ Shows(i)'
    BY <1>2, <1>3, <1>6, <2>1 DEF OnThePage, Shows
  <2> QED
    BY <1>5, <2>2 DEF OnThePage, Subjects
<1> QED
  BY <1>4, <1>6, SameTold, ShownParts

LEMMA InitShown ==
  ASSUME LiveInit, NEW r, Requests = {r}
  PROVE  ShownInv
<1>1. /\ outbox[r] = <<>> /\ EntryIds = {} /\ Shows(0)
      /\ channel = <<>>
  BY DEF LiveInit, Init, EntryIds, Shows
<1>2. Subjects(<<>>) = {} /\ TruthOK(<<>>)
  BY NoMessages DEF TruthOK
<1> QED
  BY <1>1, <1>2 DEF ShownInv, ToldOrShown, OnThePage

LEMMA NextShown ==
  ASSUME LiveIInv, ShownInv, NEW r, Requests = {r}, [LiveNext]_liveVars
  PROVE  ShownInv'
<1>1. CASE LiveRequest(r)
  <2>1. UNCHANGED store
    BY <1>1, RequestLive DEF LiveRequest
  <2> QED
    BY <1>1, <2>1, NothingShown DEF LiveRequest, store, page
<1>2. CASE LiveStep(r)
  BY <1>2, LiveStepShown
<1>3. CASE Publish(r)
  BY <1>3, PublishShown
<1>4. CASE Receive
  BY <1>4, ReceiveShown
<1>5. ASSUME NEW succeeds \in BOOLEAN, ReloadSettles(succeeds) PROVE ShownInv'
  BY <1>5, NothingShown DEF ReloadSettles
<1>6. CASE Disconnect
  BY <1>6, DisconnectShown
<1>7. CASE Reconnect
  BY <1>7, NothingShown DEF Reconnect, page
<1>8. CASE UNCHANGED liveVars
  BY <1>8, NothingShown DEF liveVars, page
<1> QED
  BY <1>1, <1>2, <1>3, <1>4, <1>5, <1>6, <1>7, <1>8 DEF LiveNext, Browser

-----------------------------------------------------------------------------
(* The theorems.                                                           *)

\* When nothing is under way, nothing is said but what is shown or missed.
LEMMA QuietShown ==
  ASSUME ShownInv, Quiet, NEW i \in {0} \cup EntryIds, Due(i), i \notin missed
  PROVE  Shows(i)
<1>1. channel = <<>> /\ \A r \in Requests : outbox[r] = <<>>
  BY DEF Quiet
<1>2. Subjects(<<>>) = {} /\ ~LastTells(<<>>, i)
  BY NoMessages DEF LastTells
<1> QED
  BY <1>1, <1>2 DEF ShownInv, ToldOrShown, OnThePage

LEMMA OneRequestShown ==
  ASSUME Cardinality(Requests) = 1
  PROVE  LiveSpec => []ShownInv
<1>1. PICK r : Requests = {r}
  BY RequestsAssumption, FS_Singleton
<1>2. LiveInit => ShownInv
  BY <1>1, InitShown
<1>3. LiveIInv /\ ShownInv /\ [LiveNext]_liveVars => ShownInv'
  BY <1>1, NextShown
<1> QED
  BY <1>2, <1>3, LiveInvariance, PTL DEF LiveSpec

\* Of requests handled one after the other, the page ends up with the status
\* an entry has, if it hears of that status and did not miss the last broadcast
\* of that entry; however often it was disconnected
\* (queueProcessingService.js:55-57, queueEntryService.js:49, 60, 69,
\* realtimeSlice.js:31).
THEOREM OneRequestStatusShown ==
  ASSUME Cardinality(Requests) = 1
  PROVE  LiveSpec => []QuietStatusShown
<1>1. LiveIInv /\ ShownInv => QuietStatusShown
  <2> SUFFICES ASSUME LiveIInv, ShownInv, Quiet, NEW i \in EntryIds,
                      entries[i].status \in Announced, i \notin missed
               PROVE  i \in DOMAIN live /\ live[i].status = entries[i].status
    BY DEF QuietStatusShown
  <2> QED
    BY QuietShown, StoreFacts DEF Due, Shows
<1> QED
  BY <1>1, LiveInvariance, OneRequestShown, PTL

\* So does the length of the queue (queueProcessingService.js:38-44).
THEOREM OneRequestLengthShown ==
  ASSUME Cardinality(Requests) = 1
  PROVE  LiveSpec => []QuietLengthShown
<1>1. ShownInv => QuietLengthShown
  BY QuietShown DEF QuietLengthShown, Due, Shows
<1> QED
  BY <1>1, OneRequestShown, PTL

=============================================================================
