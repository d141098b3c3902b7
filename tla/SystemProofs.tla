---------------------------- MODULE SystemProofs ----------------------------
(***************************************************************************)
(* Theorems about QueueSystem: customers, operators and managers at work   *)
(* on one queue, any number of each and all at the same time.  Customers'  *)
(* and operators' requests take the same steps as in QueueEntries, so what *)
(* is proved there is used here; managers change the queue document only.  *)
(* First, how far a queue can be overbooked without them; at the end, what *)
(* holds when the requests, but not the managers, come one at a time.      *)
(***************************************************************************)
EXTENDS QueueSystem, QueueEntriesProofs

-----------------------------------------------------------------------------
(* How far a queue can be overbooked, for any number of requests in flight *)
(* and any capacity (queueEntryService.js:31-41).                          *)

Active == FindByStatus(ActiveStatuses)

AdmittedPcs == {"nextTokenNumber", "position", "create"}

\* The steps that put nobody in the queue and admit nobody.
Quiet(r) ==
  /\ EntryIds' = EntryIds
  /\ \A i \in EntryIds : entries[i].deleted => entries'[i].deleted
  /\ request'[r].pc \in AdmittedPcs => request[r].pc \in AdmittedPcs

-----------------------------------------------------------------------------
(* Which steps are quiet.                                                  *)

\* An update never brings a removed entry back (queueEntryRepository.js:30).
LEMMA UpdateKeeps ==
  ASSUME StoreTypeOK, NEW i, NEW matches, NEW document,
         UpdateEntry(i, matches, document)
  PROVE  /\ EntryIds' = EntryIds
         /\ \A j \in EntryIds : entries[j].deleted => entries'[j].deleted
<1>1. CASE EntryExists(i) /\ matches
  <2>1. entries' = [entries EXCEPT ![i] = document] /\ ~entries[i].deleted
    BY <1>1 DEF UpdateEntry, EntryExists
  <2>2. entries \in [1 .. Len(entries) -> Entry] /\ EntryIds = 1 .. Len(entries)
    BY LenProperties DEF StoreTypeOK, EntryIds
  <2>3. EntryIds' = EntryIds
    BY <2>1, <2>2 DEF EntryIds
  <2>4. \A j \in EntryIds : j # i => entries'[j] = entries[j]
    BY <2>1, <2>2
  <2> QED
    BY <2>1, <2>3, <2>4
<1>2. CASE ~(EntryExists(i) /\ matches)
  <2>1. entries' = entries
    BY <1>2 DEF UpdateEntry
  <2> QED
    BY <2>1 DEF EntryIds
<1> QED
  BY <1>1, <1>2

LEMMA EntryRequestQuiet ==
  ASSUME IInv, NEW r \in Requests, EntryRequest(r)
  PROVE  Quiet(r)
<1>1. request \in [Requests -> Request]
  BY DEF IInv, TypeOK
<1>2. ASSUME NEW c \in Customers, Join(r, c) PROVE Quiet(r)
  <2>1. request'[r].pc = "findActiveByCustomer"
    BY <1>1, <1>2 DEF Join, Continue, Request
  <2> QED
    BY <1>2, <2>1 DEF Join, store, Quiet, EntryIds, AdmittedPcs
<1>3. ASSUME NEW op \in {"leave", "cancel"}, NEW i \in EntryIds,
             Withdraw(r, op, i)
      PROVE  Quiet(r)
  <2>1. request'[r].pc = "withdraw"
    BY <1>1, <1>3 DEF Withdraw, Continue, Request
  <2> QED
    BY <1>3, <2>1 DEF Withdraw, store, Quiet, EntryIds, AdmittedPcs
<1>4. ASSUME NEW i \in EntryIds, Remove(r, i)
      PROVE  Quiet(r)
  <2>1. request'[r].pc = "remove"
    BY <1>1, <1>4 DEF Remove, Continue, Request
  <2> QED
    BY <1>4, <2>1 DEF Remove, store, Quiet, EntryIds, AdmittedPcs
<1> QED
  BY <1>2, <1>3, <1>4 DEF EntryRequest

LEMMA ProcessingRequestQuiet ==
  ASSUME IInv, NEW r \in Requests, ProcessingRequest(r)
  PROVE  Quiet(r)
<1>1. request \in [Requests -> Request]
  BY DEF IInv, TypeOK
<1>2. CASE CallNext(r)
  <2>1. request'[r].pc = "findNextWaiting"
    BY <1>1, <1>2 DEF CallNext, Continue, Request
  <2> QED
    BY <1>2, <2>1 DEF CallNext, store, Quiet, EntryIds, AdmittedPcs
<1>3. ASSUME NEW op \in EntryOperations, NEW i \in EntryIds,
             ProcessEntry(r, op, i)
      PROVE  Quiet(r)
  <2>1. request'[r].pc = "commit"
    BY <1>1, <1>3 DEF ProcessEntry, Continue, Request
  <2> QED
    BY <1>3, <2>1 DEF ProcessEntry, store, Quiet, EntryIds, AdmittedPcs
<1> QED
  BY <1>2, <1>3 DEF ProcessingRequest

\* The steps that write an entry, other than its creation.
LEMMA WithdrawStepQuiet ==
  ASSUME IInv, NEW r \in Requests, WithdrawStep(r)
  PROVE  Quiet(r)
<1>1. request \in [Requests -> Request] /\ StoreTypeOK
  BY DEF IInv, TypeOK
<1>2. CASE WriteWithdrawal(r)
  <2>1. request'[r].pc = "findQueue"
    BY <1>1, <1>2 DEF WriteWithdrawal, Await, Continue, Request
  <2> QED
    BY <1>1, <1>2, <2>1, UpdateKeeps DEF WriteWithdrawal, Quiet, AdmittedPcs
<1>3. CASE FindQueue(r)
  <2>1. request'[r].pc = "findActiveOrdered"
    BY <1>1, <1>3 DEF FindQueue, Recalculating, Continue, Idle
  <2> QED
    BY <1>3, <2>1 DEF FindQueue, store, Quiet, EntryIds, AdmittedPcs
<1>4. CASE WriteRemoval(r)
  <2>1. request'[r].pc = "idle"
    BY <1>1, <1>4 DEF WriteRemoval, Respond, Continue, Idle
  <2> QED
    BY <1>1, <1>4, <2>1, UpdateKeeps DEF WriteRemoval, Quiet, AdmittedPcs
<1> QED
  BY <1>2, <1>3, <1>4 DEF WithdrawStep

LEMMA TransitionStepQuiet ==
  ASSUME IInv, NEW r \in Requests, TransitionStep(r)
  PROVE  Quiet(r)
<1>1. request \in [Requests -> Request] /\ StoreTypeOK
  BY DEF IInv, TypeOK
<1>2. CASE FindNextWaiting(r)
  <2>1. request'[r].pc \in {"idle", "commit"}
    <3>1. CASE Respond(r)
      BY <1>1, <3>1 DEF Respond, Idle, Continue
    <3>2. ASSUME NEW i \in NextWaiting,
                 Continue(r, [request[r] EXCEPT
                                !.pc = "commit", !.id = i,
                                !.seen = "waiting", !.to = "called"])
          PROVE  request'[r].pc = "commit"
      BY <1>1, <3>2 DEF Continue, Request
    <3> QED
      BY <1>2, <3>1, <3>2 DEF FindNextWaiting
  <2> QED
    BY <1>2, <2>1 DEF FindNextWaiting, store, Quiet, EntryIds, AdmittedPcs
<1>3. CASE Commit(r)
  <2>1. request'[r].pc \in {"idle", "getQueue"}
    BY <1>1, <1>3 DEF Commit, Respond, Await, Idle, Continue, Request
  <2> QED
    BY <1>1, <1>3, <2>1, UpdateKeeps DEF Commit, Quiet, AdmittedPcs
<1>4. CASE GetQueue(r)
  <2>1. request'[r].pc \in {"idle", "findActiveOrdered"}
    <3>1. CASE Respond(r)
      BY <1>1, <3>1 DEF Respond, Idle, Continue
    <3>2. CASE ~Respond(r)
      <4>1. PICK found \in BOOLEAN :
              Continue(r, Entered("transition", request[r].id,
                                  request[r].seen, found))
        BY <1>4, <3>2 DEF GetQueue, Recalculating, Entered
      <4> QED
        BY <1>1, <4>1 DEF Entered, Idle, Continue
    <3> QED
      BY <3>1, <3>2
  <2> QED
    BY <1>4, <2>1 DEF GetQueue, store, Quiet, EntryIds, AdmittedPcs
<1> QED
  BY <1>2, <1>3, <1>4 DEF TransitionStep

LEMMA RecalculateStepQuiet ==
  ASSUME IInv, NEW r \in Requests, RecalculateStep(r)
  PROVE  Quiet(r)
<1>1. request \in [Requests -> Request] /\ StoreTypeOK
  BY DEF IInv, TypeOK
<1>2. CASE FindActiveOrdered(r)
  <2>1. request'[r].pc \in {"idle", "count", "writePositions"}
    <3>1. CASE Respond(r)
      BY <1>1, <3>1 DEF Respond, Idle, Continue
    <3>2. CASE ~Respond(r)
      <4> DEFINE pc == IF NewPositions = {} THEN "count" ELSE "writePositions"
      <4>1. pc \in {"count", "writePositions"}
        OBVIOUS
      <4>2. Continue(r, [request[r] EXCEPT !.writes = NewPositions, !.pc = pc])
        BY <1>2, <3>2 DEF FindActiveOrdered
      <4> HIDE DEF pc
      <4> QED
        BY <1>1, <4>1, <4>2 DEF Continue, Request
    <3> QED
      BY <3>1, <3>2
  <2> QED
    BY <1>2, <2>1 DEF FindActiveOrdered, store, Quiet, EntryIds, AdmittedPcs
<1>3. ASSUME NEW write \in request[r].writes, WritePosition(r, write)
      PROVE  Quiet(r)
  <2>1. request'[r].pc \in {"count", "writePositions"}
    BY <1>1, <1>3 DEF WritePosition, Continue, Request
  <2> QED
    BY <1>1, <1>3, <2>1, UpdateKeeps DEF WritePosition, Quiet, AdmittedPcs
<1>4. ASSUME NEW field \in {"length", "served"}, Count(r, field) PROVE Quiet(r)
  <2>1. request'[r].pc \in {"count", "writeStatistics"}
    BY <1>1, <1>4 DEF Count, Continue, Request
  <2> QED
    BY <1>4, <2>1 DEF Count, store, Quiet, EntryIds, AdmittedPcs
<1>5. CASE WriteStatistics(r)
  <2>1. request'[r].pc = "idle"
    BY <1>1, <1>5 DEF WriteStatistics, Respond, Continue, Idle
  <2> QED
    BY <1>5, <2>1 DEF WriteStatistics, Quiet, EntryIds, AdmittedPcs
<1> QED
  BY <1>2, <1>3, <1>4, <1>5 DEF RecalculateStep

\* Of the steps of join, CheckCapacity alone admits a join, when there is
\* room, and CreateEntry alone adds an active entry.
LEMMA JoinStepQuiet ==
  ASSUME IInv, NEW r \in Requests, JoinStep(r)
  PROVE  \/ Quiet(r)
         \/ CountActive < MaximumCapacity /\ UNCHANGED entries
         \/ CreateEntry(r)
<1>1. request \in [Requests -> Request]
  BY DEF IInv, TypeOK
<1>2. CASE CheckCustomer(r)
  <2>1. request'[r].pc \in {"idle", "countActive"}
    BY <1>1, <1>2 DEF CheckCustomer, Respond, Await, Idle, Continue, Request
  <2> QED
    BY <1>2, <2>1 DEF CheckCustomer, store, Quiet, EntryIds, AdmittedPcs
<1>3. CASE CheckCapacity(r)
  <2>1. CASE CountActive >= MaximumCapacity
    <3>1. request'[r].pc = "idle"
      BY <1>1, <1>3, <2>1 DEF CheckCapacity, Respond, Idle, Continue
    <3> QED
      BY <1>3, <3>1 DEF CheckCapacity, store, Quiet, EntryIds, AdmittedPcs
  <2>2. CASE ~(CountActive >= MaximumCapacity)
    <3>1. CountActive \in Nat /\ MaximumCapacity \in Nat
      BY CountType, CapacityAssumption DEF IInv, TypeOK, CountActive
    <3> QED
      BY <1>3, <2>2, <3>1 DEF CheckCapacity, store
  <2> QED
    BY <2>1, <2>2
<1>4. CASE ReadToken(r) \/ ReadPosition(r)
  BY <1>4 DEF ReadToken, ReadPosition, store, Quiet, EntryIds, AdmittedPcs
<1>5. CASE TokenConflict(r)
  BY <1>5 DEF TokenConflict, store, Quiet, EntryIds, AdmittedPcs
<1> QED
  BY <1>2, <1>3, <1>4, <1>5 DEF JoinStep

-----------------------------------------------------------------------------
(* Counting.                                                               *)

LEMMA CountingFacts ==
  ASSUME IInv
  PROVE  /\ IsFiniteSet(Active) /\ IsFiniteSet(Admitted)
         /\ CountActive = Cardinality(Active)
         /\ Cardinality(Active) \in Nat /\ Cardinality(Admitted) \in Nat
         /\ Cardinality(Requests) \in Nat
         /\ Cardinality(Admitted) <= Cardinality(Requests)
<1>1. IsFiniteSet(Active) /\ CountActive = Cardinality(Active)
  BY CountType DEF IInv, TypeOK, Active, CountActive, CountByStatus
<1>2. Admitted \in SUBSET Requests
  BY DEF Admitted
<1>3. /\ IsFiniteSet(Admitted)
      /\ Cardinality(Admitted) <= Cardinality(Requests)
  BY <1>2, RequestsAssumption, FS_Subset
<1> QED
  BY <1>1, <1>3, RequestsAssumption, FS_CardinalityType

\* No status becomes active again.
LEMMA ActiveBefore ==
  ASSUME IInv, IInv', Onward, NEW i \in EntryIds, i \in EntryIds',
         entries'[i].status \in ActiveStatuses
  PROVE  entries[i].status \in ActiveStatuses
<1>1. /\ entries[i].status \in EntryStatuses
      /\ Stage(entries[i].status) \in 0 .. 4
  BY EntryType DEF IInv, TypeOK
<1>2. Stage(entries[i].status) <= Stage(entries'[i].status)
  BY DEF Onward
<1>3. \A s \in ActiveStatuses : Stage(s) \in 0 .. 3
  BY DEF ActiveStatuses, Stage, Lifecycle!Stage
<1>4. \A s \in TerminalStatuses : Stage(s) = 4
  BY StageFacts
<1> QED
  BY <1>1, <1>2, <1>3, <1>4 DEF EntryStatuses

\* A quiet step gives nobody a ticket.
LEMMA QuietActive ==
  ASSUME IInv, IInv', NEW r \in Requests, StepEffect(r), Quiet(r)
  PROVE  Active' \subseteq Active
<1>1. ASSUME NEW i \in Active' PROVE i \in Active
  <2>1. /\ i \in EntryIds /\ ~entries'[i].deleted
        /\ entries'[i].status \in ActiveStatuses
    BY <1>1 DEF Active, FindByStatus, EntryExists, Quiet
  <2>2. ~entries[i].deleted
    BY <2>1 DEF Quiet
  <2>3. entries[i].status \in ActiveStatuses
    BY <2>1, ActiveBefore DEF StepEffect, Quiet
  <2> QED
    BY <2>1, <2>2, <2>3 DEF Active, FindByStatus, EntryExists
<1> QED
  BY <1>1

LEMMA QuietKeeps ==
  ASSUME IInv, IInv', OverbookingBounded, NEW r \in Requests,
         StepEffect(r), Quiet(r)
  PROVE  OverbookingBounded'
<1>1. Active' \subseteq Active
  BY QuietActive
<1>2. Admitted' \subseteq Admitted
  BY DEF Admitted, Quiet, StepEffect, AdmittedPcs
<1>3. /\ Cardinality(Active') <= Cardinality(Active)
      /\ Cardinality(Admitted') <= Cardinality(Admitted)
  BY <1>1, <1>2, CountingFacts, FS_Subset
<1>4. CountActive' = Cardinality(Active')
  BY CountType DEF IInv, TypeOK, Active, CountActive, CountByStatus
<1>5. Cardinality(Active') \in Nat /\ Cardinality(Admitted') \in Nat
  BY <1>1, <1>2, CountingFacts, FS_Subset, FS_CardinalityType
<1> QED
  BY <1>3, <1>4, <1>5, CountingFacts, CapacityAssumption DEF OverbookingBounded

\* A join is admitted while there is room.
LEMMA AdmissionKeeps ==
  ASSUME IInv', CountActive < MaximumCapacity, UNCHANGED entries
  PROVE  OverbookingBounded'
<1>1. CountActive' = CountActive
  BY DEF CountActive, CountByStatus, FindByStatus, EntryExists, EntryIds
<1>2. Admitted' \in SUBSET Requests
  BY DEF Admitted
<1>3. /\ IsFiniteSet(Admitted')
      /\ Cardinality(Admitted') <= Cardinality(Requests)
  BY <1>2, RequestsAssumption, FS_Subset
<1>4. /\ Cardinality(Admitted') \in Nat
      /\ Cardinality(Requests) \in Nat
  BY <1>3, RequestsAssumption, FS_CardinalityType
<1>5. CountActive \in Nat
  <2>1. entries \in Seq(Entry) /\ queue' \in Queue
    BY DEF IInv, TypeOK, StoreTypeOK
  <2>2. IsFiniteSet(EntryIds)
    BY <2>1, LenProperties, FS_Interval DEF EntryIds
  <2>3. FindByStatus(ActiveStatuses) \in SUBSET EntryIds
    BY DEF FindByStatus
  <2> QED
    BY <2>2, <2>3, FS_Subset, FS_CardinalityType DEF CountActive, CountByStatus
<1> QED
  BY <1>1, <1>3, <1>4, <1>5, CapacityAssumption DEF OverbookingBounded

\* An admitted join becomes an active entry: one for one.
LEMMA CreationKeeps ==
  ASSUME IInv, OverbookingBounded, NEW r \in Requests,
         StepEffect(r), CreateEntry(r)
  PROVE  OverbookingBounded'
<1> DEFINE last == Len(entries) + 1
<1>1. /\ StoreTypeOK /\ request \in [Requests -> Request]
      /\ EntryIds = 1 .. Len(entries) /\ Len(entries) \in Nat
  BY Hypothesis DEF IInv, TypeOK
<1>2. /\ \A j \in EntryIds : entries'[j] = entries[j]
      /\ EntryIds' = EntryIds \cup {last}
  <2>1. entries' = Append(entries, entries'[last]) /\ entries \in Seq(Entry)
    BY <1>1 DEF CreateEntry, InsertEntry, StoreTypeOK
  <2> QED
    BY <1>1, <2>1 DEF EntryIds
<1>3. Active' \subseteq Active \cup {last}
  BY <1>2 DEF Active, FindByStatus, EntryExists
<1>4. r \in Admitted /\ r \notin Admitted'
  <2>1. request'[r].pc = "findActiveOrdered"
    <3>1. PICK found \in BOOLEAN :
            Continue(r, Entered("join", last, "none", found))
      BY DEF CreateEntry, Recalculating, Entered
    <3> QED
      BY <1>1, <3>1 DEF Entered, Idle, Continue
  <2> QED
    BY <2>1 DEF CreateEntry, Admitted
<1>5. Admitted' = Admitted \ {r}
  BY <1>4 DEF Admitted, StepEffect
<1>6. Cardinality(Admitted') = Cardinality(Admitted) - 1
  BY <1>4, <1>5, CountingFacts, FS_RemoveElement
<1>7. /\ Cardinality(Active') \in Nat
      /\ Cardinality(Active') <= Cardinality(Active) + 1
  <2>1. /\ IsFiniteSet(Active \cup {last})
        /\ Cardinality(Active \cup {last}) <= Cardinality(Active) + 1
        /\ Cardinality(Active \cup {last}) \in Nat
    <3>1. IsFiniteSet(Active) /\ Cardinality(Active) \in Nat
      BY CountingFacts
    <3>2. /\ IsFiniteSet(Active \cup {last})
          /\ \/ Cardinality(Active \cup {last}) = Cardinality(Active)
             \/ Cardinality(Active \cup {last}) = Cardinality(Active) + 1
      BY <3>1, FS_AddElement
    <3> QED
      BY <3>1, <3>2
  <2>2. /\ IsFiniteSet(Active')
        /\ Cardinality(Active') <= Cardinality(Active \cup {last})
    BY <1>3, <2>1, FS_Subset
  <2>3. Cardinality(Active') \in Nat
    BY <2>2, FS_CardinalityType
  <2> QED
    BY <2>1, <2>2, <2>3, CountingFacts
<1>8. CountActive' = Cardinality(Active')
  BY DEF Active, CountActive, CountByStatus
<1> QED
  BY <1>6, <1>7, <1>8, CountingFacts, CapacityAssumption DEF OverbookingBounded

-----------------------------------------------------------------------------
LEMMA InitOverbooking == Init => OverbookingBounded
<1> SUFFICES ASSUME Init PROVE OverbookingBounded
  OBVIOUS
<1>1. FindByStatus(ActiveStatuses) = {}
  BY DEF Init, FindByStatus, EntryIds
<1>2. Admitted = {}
  BY DEF Init, Admitted, Idle
<1>3. Cardinality(Requests) \in Nat
  BY RequestsAssumption, FS_CardinalityType
<1> QED
  BY <1>1, <1>2, <1>3, FS_EmptySet, CapacityAssumption
  DEF OverbookingBounded, CountActive, CountByStatus

LEMMA NextOverbooking ==
  IInv /\ IInv' /\ OverbookingBounded /\ [Next]_vars => OverbookingBounded'
<1> SUFFICES ASSUME IInv, IInv', OverbookingBounded, [Next]_vars
             PROVE  OverbookingBounded'
  OBVIOUS
<1>1. ASSUME NEW r \in Requests,
             EntryRequest(r) \/ ProcessingRequest(r) \/ Step(r)
      PROVE  OverbookingBounded'
  <2>1. StepEffect(r)
    BY <1>1, RequestEffect
  <2>2. \/ Quiet(r)
        \/ CountActive < MaximumCapacity /\ UNCHANGED entries
        \/ CreateEntry(r)
    BY <1>1, EntryRequestQuiet, ProcessingRequestQuiet, WithdrawStepQuiet,
       TransitionStepQuiet, RecalculateStepQuiet, JoinStepQuiet DEF Step
  <2> QED
    BY <2>1, <2>2, QuietKeeps, AdmissionKeeps, CreationKeeps
<1>2. CASE Crash
  <2>1. Admitted' = {}
    BY <1>2 DEF Crash, Admitted, Idle
  <2>2. CountActive' = CountActive
    BY <1>2 DEF Crash, store, CountActive, CountByStatus, FindByStatus,
                EntryExists, EntryIds
  <2> QED
    BY <2>1, <2>2, CountingFacts, FS_EmptySet, CapacityAssumption
    DEF OverbookingBounded
<1>3. CASE UNCHANGED vars
  BY <1>3 DEF vars, OverbookingBounded, CountActive, CountByStatus,
              FindByStatus, EntryExists, EntryIds, Admitted
<1> QED
  BY <1>1, <1>2, <1>3 DEF Next

\* With n requests in flight the queue holds at most n - 1 entries more than
\* its capacity: every admitted join was let in while there was room, and
\* from then on counts as if it were in (queueEntryService.js:31-41).
THEOREM OverbookingIsBounded == Spec => []OverbookingBounded
  BY InitOverbooking, NextOverbooking, Invariance, PTL DEF Spec

-----------------------------------------------------------------------------
(* The inductive invariant.                                                *)

RequestMoves(r) == EntryRequest(r) \/ ProcessingRequest(r) \/ Step(r)

SystemIInv ==
  /\ IInv
  /\ OverbookingBounded
  /\ AdminTypeOK
  /\ given \in BOOLEAN

-----------------------------------------------------------------------------
(* What the steps do to the queue document.                                *)

\* Of a request's calls only the last one of `recalculate' writes the queue.
LEMMA RequestWritesStatistics ==
  ASSUME NEW r \in Requests, RequestMoves(r)
  PROVE  \/ UNCHANGED queue
         \/ \E length, served : UpdateStatistics(length, served)
<1>1. CASE EntryRequest(r)
  BY <1>1 DEF EntryRequest, Join, Withdraw, Remove, store
<1>2. CASE ProcessingRequest(r)
  BY <1>2 DEF ProcessingRequest, CallNext, ProcessEntry, store
<1>3. CASE JoinStep(r)
  BY <1>3 DEF JoinStep, CheckCustomer, CheckCapacity, ReadToken, ReadPosition,
              CreateEntry, TokenConflict, store
<1>4. CASE WithdrawStep(r)
  BY <1>4 DEF WithdrawStep, WriteWithdrawal, FindQueue, WriteRemoval, store
<1>5. CASE TransitionStep(r)
  BY <1>5 DEF TransitionStep, FindNextWaiting, Commit, GetQueue, store
<1>6. CASE RecalculateStep(r)
  BY <1>6 DEF RecalculateStep, FindActiveOrdered, WritePosition, Count,
              WriteStatistics, store
<1> QED
  BY <1>1, <1>2, <1>3, <1>4, <1>5, <1>6 DEF RequestMoves, Step

\* ... and nothing into a deleted document (queueRepository.js:25).
LEMMA RequestSparesDeleted ==
  ASSUME NEW r \in Requests, RequestMoves(r), queue.deleted
  PROVE  queue' = queue
<1>1. ASSUME NEW length, NEW served, UpdateStatistics(length, served)
      PROVE  queue' = queue
  BY <1>1 DEF UpdateStatistics
<1> QED
  BY <1>1, RequestWritesStatistics

\* A manager's step leaves the entries alone, keeps the document and what
\* managers are about to write well-formed, and leaves a deleted document as it
\* is.
AdminEffect ==
  /\ UNCHANGED entries
  /\ queue' \in Queue
  /\ queue.deleted => queue' = queue
  /\ AdminTypeOK'

LEMMA ReadEffect ==
  ASSUME SystemIInv, NEW m \in Managers, NEW body \in Body,
         NEW isActive \in BOOLEAN, Writing(m, body, isActive), UNCHANGED store
  PROVE  AdminEffect
<1> DEFINE x == [pc |-> "write", body |-> body, isActive |-> isActive]
<1>1. x \in AdminRequest
  BY DEF AdminRequest
<1>2. admin \in [Managers -> AdminRequest] /\ admin' = [admin EXCEPT ![m] = x]
  BY DEF Writing, SystemIInv, AdminTypeOK
<1> HIDE DEF x
<1>3. AdminTypeOK'
  BY <1>1, <1>2 DEF AdminTypeOK
<1> QED
  BY <1>3 DEF AdminEffect, SystemIInv, IInv, TypeOK, StoreTypeOK, store

LEMMA OnlyType ==
  ASSUME NEW status \in QueueStatuses \cup {"none"}
  PROVE  Only(status) \in Body
BY DEF Only, Body

\* A queue with the fields of a body is one again.
LEMMA WithType ==
  ASSUME NEW document \in Queue, NEW body \in Body, NEW isActive \in BOOLEAN
  PROVE  With(document, body, isActive) \in Queue
<1>1. Or(body.length, document.length) \in Nat
  BY DEF Or, Body, Queue
<1>2. Or(body.served, document.served) \in Nat
  BY DEF Or, Body, Queue
<1>3. (IF body.status = "none" THEN document.status ELSE body.status)
        \in QueueStatuses
  BY DEF Body, Queue
<1>4. body.deleted \in BOOLEAN
  BY DEF Body
<1> QED
  BY <1>1, <1>2, <1>3, <1>4 DEF With, Queue

LEMMA WriteEffect ==
  ASSUME SystemIInv, NEW m \in Managers, WriteQueue(m)
  PROVE  AdminEffect
<1>1. /\ admin \in [Managers -> AdminRequest]
      /\ admin' = [admin EXCEPT ![m] = AdminIdle]
      /\ queue \in Queue
  BY DEF WriteQueue, SystemIInv, AdminTypeOK, IInv, TypeOK, StoreTypeOK
<1>2. AdminIdle \in AdminRequest
  BY OnlyType DEF AdminIdle, AdminRequest
<1>3. AdminTypeOK'
  BY <1>1, <1>2 DEF AdminTypeOK
<1>4. admin[m].body \in Body /\ admin[m].isActive \in BOOLEAN
  BY <1>1 DEF AdminRequest
<1>5. queue' \in Queue /\ (queue.deleted => queue' = queue)
  BY <1>1, <1>4, WithType DEF WriteQueue
<1> QED
  BY <1>3, <1>5 DEF AdminEffect, WriteQueue

LEMMA AdminStepEffect ==
  ASSUME SystemIInv, AdminNext
  PROVE  AdminEffect
<1>1. ASSUME NEW m \in Managers, NEW status \in QueueStatuses,
             Transition(m, status)
      PROVE  AdminEffect
  <2>1. Writing(m, Only(status), status = "active") /\ UNCHANGED store
    BY <1>1 DEF Transition, Asked
  <2>2. (status = "active") \in BOOLEAN
    OBVIOUS
  <2> QED
    BY <2>1, <2>2, OnlyType, ReadEffect
<1>2. ASSUME NEW m \in Managers, NEW body \in Bodies, Update(m, body)
      PROVE  AdminEffect
  <2>1. PICK isActive :
          isActive = IF body.status = "none" THEN queue.isActive
                                             ELSE body.status = "active"
    OBVIOUS
  <2>2. isActive \in BOOLEAN
    BY <2>1 DEF SystemIInv, IInv, TypeOK, StoreTypeOK, Queue
  <2>3. Writing(m, body, isActive) /\ UNCHANGED store
    BY <1>2, <2>1 DEF Update, Asked
  <2> QED
    BY <2>2, <2>3, BodiesAssumption, ReadEffect
<1>3. ASSUME NEW m \in Managers, Restore(m)
      PROVE  AdminEffect
  <2>1. Writing(m, Only("closed"), FALSE) /\ UNCHANGED store
    BY <1>3 DEF Restore, Asked
  <2>2. Only("closed") \in Body
    BY OnlyType DEF QueueStatuses
  <2> QED
    BY <2>1, <2>2, ReadEffect
<1>4. ASSUME NEW m \in Managers, SoftDelete(m)
      PROVE  AdminEffect
  <2>1. PICK body : body = [Only("none") EXCEPT !.deleted = TRUE]
    OBVIOUS
  <2>2. body \in Body
    BY <2>1 DEF Only, Body
  <2>3. Writing(m, body, FALSE) /\ UNCHANGED store
    BY <1>4, <2>1 DEF SoftDelete, Asked
  <2> QED
    BY <2>2, <2>3, ReadEffect
<1> QED
  BY <1>1, <1>2, <1>3, <1>4, WriteEffect DEF AdminNext

-----------------------------------------------------------------------------
(* The invariant.                                                          *)

\* Nothing but its type is known of the queue document in the invariant of
\* QueueEntries: managers do not disturb it.
LEMMA QueueIsFree ==
  ASSUME IInv, OverbookingBounded, queue' \in Queue,
         UNCHANGED <<entries, request>>
  PROVE  IInv' /\ OverbookingBounded'
<1>1. IInv'
  BY DEF IInv, TypeOK, StoreTypeOK, TokensConsecutive, WaitingHasPosition,
         EntryIds, OneWinner, AfterCommit, LocalsOK, Committed
<1>2. OverbookingBounded'
  BY DEF OverbookingBounded, CountActive, CountByStatus, FindByStatus,
         EntryExists, EntryIds, Admitted
<1> QED
  BY <1>1, <1>2

\* A queue is created with any fields (queueService.js:15-19).
LEMMA InitSystem == SystemInit => SystemIInv
<1> SUFFICES ASSUME SystemInit PROVE SystemIInv
  OBVIOUS
<1>1. PICK body \in Bodies, isActive \in BOOLEAN :
        queue = Created(body, isActive)
  BY DEF SystemInit
<1>2. queue \in Queue
  <2>1. PICK document :
          document = [status |-> "active", isActive |-> isActive,
                      deleted |-> FALSE, length |-> 0, served |-> 0]
    OBVIOUS
  <2>2. document \in Queue
    BY <2>1 DEF Queue, QueueStatuses
  <2>3. queue = With(document, body, isActive)
    BY <1>1, <2>1 DEF Created
  <2> QED
    BY <2>2, <2>3, BodiesAssumption, WithType
<1>3. entries = <<>> /\ EntryIds = {} /\ request = [r \in Requests |-> Idle]
  BY DEF SystemInit, EntryIds
<1>4. IInv
  <2>1. TypeOK
    BY <1>2, <1>3, IdleOK DEF TypeOK, StoreTypeOK
  <2>2. TokensConsecutive /\ WaitingHasPosition
    BY <1>3 DEF TokensConsecutive, WaitingHasPosition
  <2>3. OneWinner
    BY <1>3 DEF OneWinner, AfterCommit, Idle
  <2>4. \A r \in Requests : LocalsOK(request[r])
    BY <1>3, IdleOK
  <2> QED
    BY <2>1, <2>2, <2>3, <2>4 DEF IInv
<1>5. OverbookingBounded
  <2>1. FindByStatus(ActiveStatuses) = {} /\ Admitted = {}
    BY <1>3 DEF FindByStatus, Admitted, Idle
  <2>2. Cardinality(Requests) \in Nat
    BY RequestsAssumption, FS_CardinalityType
  <2> QED
    BY <2>1, <2>2, FS_EmptySet, CapacityAssumption
    DEF OverbookingBounded, CountActive, CountByStatus
<1>6. AdminTypeOK /\ given \in BOOLEAN
  <2>1. AdminIdle \in AdminRequest
    BY OnlyType DEF AdminIdle, AdminRequest
  <2> QED
    BY <2>1 DEF SystemInit, AdminInit, AdminTypeOK, NamesStatistics
<1> QED
  BY <1>4, <1>5, <1>6 DEF SystemIInv

LEMMA NextSystem == SystemIInv /\ [SystemNext]_systemVars => SystemIInv'
<1> SUFFICES ASSUME SystemIInv, [SystemNext]_systemVars PROVE SystemIInv'
  OBVIOUS
<1>1. ASSUME NEW r \in Requests, Serve(r)
      PROVE  SystemIInv'
  <2>1. [Next]_vars
    BY <1>1 DEF Serve, Next
  <2>2. IInv' /\ OverbookingBounded'
    BY <2>1, NextIInv, NextOverbooking DEF SystemIInv
  <2>3. AdminTypeOK' /\ given' \in BOOLEAN
    BY <1>1 DEF Serve, SystemIInv, AdminTypeOK
  <2> QED
    BY <2>2, <2>3 DEF SystemIInv
<1>2. CASE Manage
  <2>1. AdminEffect
    BY <1>2, AdminStepEffect DEF Manage
  <2>2. IInv' /\ OverbookingBounded'
    BY <1>2, <2>1, QueueIsFree DEF AdminEffect, SystemIInv, Manage
  <2>3. given' \in BOOLEAN
    BY <1>2 DEF Manage, SystemIInv
  <2> QED
    BY <2>1, <2>2, <2>3 DEF AdminEffect, SystemIInv
<1>3. CASE UNCHANGED systemVars
  <2>1. UNCHANGED <<queue, entries, request, admin, given>>
    BY <1>3 DEF systemVars
  <2>2. IInv' /\ OverbookingBounded'
    BY <2>1, QueueIsFree DEF SystemIInv, IInv, TypeOK, StoreTypeOK
  <2> QED
    BY <2>1, <2>2 DEF SystemIInv, AdminTypeOK
<1> QED
  BY <1>1, <1>2, <1>3 DEF SystemNext

LEMMA SystemInvariance == SystemSpec => []SystemIInv
  BY InitSystem, NextSystem, PTL DEF SystemSpec

-----------------------------------------------------------------------------
(* The theorems.                                                           *)

\* Managers or not, every reachable state is well-typed.
THEOREM SystemTypeCorrect == SystemSpec => []SystemTypeOK
<1>1. SystemIInv => SystemTypeOK
  BY DEF SystemIInv, IInv, SystemTypeOK
<1> QED
  BY <1>1, SystemInvariance, PTL

\* Of two joins the capacity check of one may miss the insert of the other,
\* but a single request in flight never overbooks the queue, whatever
\* managers do meanwhile (queueEntryService.js:31, 41).
THEOREM OneRequestKeepsCapacity ==
  ASSUME Cardinality(Requests) = 1
  PROVE  SystemSpec => []CapacityRespected
<1>1. SystemIInv => CapacityRespected
  <2> SUFFICES ASSUME SystemIInv PROVE CapacityRespected
    OBVIOUS
  <2>1. /\ CountActive \in Nat
        /\ Cardinality(Admitted) \in Nat
    BY CountType, CountingFacts DEF SystemIInv, IInv, TypeOK, CountActive
  <2> QED
    BY <2>1, CapacityAssumption
    DEF SystemIInv, OverbookingBounded, CapacityRespected
<1> QED
  BY <1>1, SystemInvariance, PTL

\* Nothing undoes a deletion: no late recalculation and no manager who read
\* the queue before it was deleted (queueRepository.js:22, 25).
THEOREM DeletionIsFinal == SystemSpec => DeletedIsFinal
<1>1. SystemIInv /\ [SystemNext]_systemVars
        => [queue.deleted => queue' = queue]_systemVars
  <2> SUFFICES ASSUME SystemIInv, SystemNext, queue.deleted
               PROVE  queue' = queue
    BY DEF systemVars
  <2>1. ASSUME NEW r \in Requests, Serve(r) PROVE queue' = queue
    BY <2>1, RequestSparesDeleted DEF Serve, RequestMoves
  <2>2. ASSUME Manage PROVE queue' = queue
    BY <2>2, AdminStepEffect DEF Manage, AdminEffect
  <2> QED
    BY <2>1, <2>2 DEF SystemNext
<1> QED
  BY <1>1, SystemInvariance, PTL DEF SystemSpec, DeletedIsFinal

-----------------------------------------------------------------------------
(* One request after the other: the line of the waiting.                   *)

\* The place of an entry in the line, in the order of the tokens.
Place(i) ==
  IF i \in Waiting THEN 1 + Cardinality({j \in Waiting : j < i}) ELSE 0

Ranked == \A i \in Active : entries[i].position = Place(i)

\* The line may have gaps, and two may have the same position.
Sorted ==
  \A i, j \in Waiting : i < j => entries[i].position <= entries[j].position

BehindAll(place) == \A i \in Waiting : entries[i].position <= place

\* What is still to be written makes the positions right.
Pending(writes) ==
  /\ \A write \in writes : write[1] \in Active /\ write[2] = Place(write[1])
  /\ \A i \in Active :
       entries[i].position = Place(i) \/ <<i, Place(i)>> \in writes

Served == CountByStatus({"completed"})

Counted(x) ==
  /\ "length" \in x.counted => x.length = CountActive
  /\ "served" \in x.counted => x.served = Served

Exact == queue.length = CountActive /\ queue.served = Served

\* Before a request has written.
Untouched ==
  {"idle", "findActiveByCustomer", "countActive", "nextTokenNumber",
   "position", "create", "withdraw", "findNextWaiting", "commit"}

\* How far the request x is with the line; g says that the statistics were given.
\* A queue that is deleted is left as it is, but who has been told to call the
\* next finds the line in order.
LineOK(x, g) ==
  /\ x.pc # "remove"
  /\ ~x.hasQueue => queue.deleted
  /\ x.pc \in {"idle", "findActiveByCustomer", "countActive"} => x.attempt = 0
  /\ x.pc \in {"findActiveOrdered", "writePositions"} => x.counted = {}
  /\ x.pc = "findNextWaiting" => Sorted
  /\ ~queue.deleted =>
       /\ x.pc \in Untouched => Ranked /\ (~g => Exact)
       /\ x.pc = "create" \/ (x.pc = "nextTokenNumber" /\ x.attempt # 0)
            => BehindAll(x.place)
       /\ x.pc \in {"getQueue", "findQueue", "findActiveOrdered"} => Sorted
       /\ x.pc = "writePositions" => Pending(x.writes)
       /\ x.pc \in {"count", "writeStatistics"} => Ranked /\ Counted(x)
       /\ x.pc = "writeStatistics" => x.counted = {"length", "served"}

(* The line is a matter of the entries alone.                              *)

LEMMA LineOfEntries ==
  ASSUME UNCHANGED entries
  PROVE  /\ Waiting' = Waiting /\ Active' = Active
         /\ Ranked' = Ranked /\ Sorted' = Sorted
         /\ CountActive' = CountActive /\ Served' = Served
<1>1. /\ Waiting' = Waiting /\ Active' = Active
      /\ FindByStatus({"completed"})' = FindByStatus({"completed"})
  BY DEF Waiting, Active, FindByStatus, EntryExists, EntryIds
<1>2. CountActive' = CountActive /\ Served' = Served
  BY <1>1 DEF CountActive, Served, CountByStatus, Active
<1>3. Ranked' = Ranked /\ Sorted' = Sorted
  BY <1>1 DEF Ranked, Sorted, Place
<1> QED
  BY <1>1, <1>2, <1>3

LEMMA PendingOfEntries ==
  ASSUME UNCHANGED entries, NEW writes, NEW place, NEW x
  PROVE  /\ Pending(writes)' = Pending(writes)
         /\ BehindAll(place)' = BehindAll(place)
         /\ Counted(x)' = Counted(x)
<1>1. /\ Waiting' = Waiting /\ Active' = Active
      /\ CountActive' = CountActive /\ Served' = Served
  BY LineOfEntries
<1> QED
  BY <1>1 DEF Pending, BehindAll, Counted, Place

\* A finite line: the places are numbers, and go up with the tokens.
LEMMA Places ==
  ASSUME IInv
  PROVE  /\ Waiting \subseteq Active /\ Active \subseteq EntryIds
         /\ EntryIds \subseteq Nat
         /\ IsFiniteSet(Waiting)
         /\ \A i : /\ Place(i) \in Nat
                   /\ Place(i) <= Cardinality(Active) + 1
         /\ \A i, j \in Waiting : i < j => Place(i) <= Place(j)
<1> DEFINE Ahead(i) == {j \in Waiting : j < i}
<1>1. /\ Waiting \subseteq Active /\ Active \subseteq EntryIds
      /\ EntryIds \subseteq Nat
  <2>1. EntryIds \subseteq Nat
    BY EntryType DEF IInv, TypeOK
  <2> QED
    BY <2>1 DEF Waiting, Active, FindByStatus, ActiveStatuses
<1>2. /\ IsFiniteSet(Active) /\ Cardinality(Active) \in Nat
      /\ IsFiniteSet(Waiting)
  BY <1>1, CountingFacts, FS_Subset
<1>3. \A i : /\ IsFiniteSet(Ahead(i)) /\ Cardinality(Ahead(i)) \in Nat
             /\ Cardinality(Ahead(i)) <= Cardinality(Active)
  <2>1. \A i : Ahead(i) \in SUBSET Active
    BY <1>1
  <2> HIDE DEF Ahead
  <2> QED
    BY <1>2, <2>1, FS_Subset, FS_CardinalityType
<1>4. ASSUME NEW i \in Waiting, NEW j \in Waiting, i < j
      PROVE  Cardinality(Ahead(i)) <= Cardinality(Ahead(j))
  <2>1. Ahead(i) \in SUBSET Ahead(j)
    <3>1. \A k \in Waiting : k < i => k < j
      BY <1>1, <1>4
    <3> QED
      BY <3>1
  <2> HIDE DEF Ahead
  <2> QED
    BY <1>3, <2>1, FS_Subset
<1>5. \A i : Place(i) = IF i \in Waiting THEN 1 + Cardinality(Ahead(i)) ELSE 0
  BY DEF Place
<1> HIDE DEF Ahead
<1>6. \A i : Place(i) \in Nat /\ Place(i) <= Cardinality(Active) + 1
  BY <1>2, <1>3, <1>5
<1>7. \A i, j \in Waiting : i < j => Place(i) <= Place(j)
  BY <1>3, <1>4, <1>5
<1> QED
  BY <1>1, <1>2, <1>6, <1>7

LEMMA RankedIsSorted ==
  ASSUME IInv, Ranked
  PROVE  Sorted /\ BehindAll(CountActive + 1)
BY Places, CountingFacts DEF Ranked, Sorted, BehindAll

\* Where the line is in order, sorting by position is sorting by token.
LEMMA SortedOrder ==
  ASSUME IInv, Sorted
  PROVE  /\ \A i, j \in Waiting : Before(j, i) <=> j < i
         /\ NewPositions = {<<i, Place(i)>> : i \in Active}
<1>1. /\ Waiting \subseteq Active /\ Active \subseteq EntryIds
      /\ EntryIds \subseteq Nat
  BY Places
<1>2. \A i \in EntryIds : entries[i].position \in Nat /\ entries[i].token = i
  BY EntryType DEF IInv, TypeOK, TokensConsecutive
<1>3. ASSUME NEW i \in Waiting, NEW j \in Waiting
      PROVE  Before(j, i) <=> j < i
  <2>1. /\ i \in Nat /\ j \in Nat
        /\ entries[i].position \in Nat /\ entries[i].token = i
        /\ entries[j].position \in Nat /\ entries[j].token = j
    BY <1>1, <1>2
  <2>2. /\ i < j => entries[i].position <= entries[j].position
        /\ j < i => entries[j].position <= entries[i].position
    BY DEF Sorted
  <2> QED
    BY <2>1, <2>2 DEF Before
<1>4. \A i \in Waiting :
        {j \in Waiting : Before(j, i)} = {j \in Waiting : j < i}
  BY <1>3
<1>5. \A i \in Waiting :
        1 + Cardinality({j \in Waiting : Before(j, i)}) = Place(i)
  BY <1>4 DEF Place
<1>6. \A i \in Active \ Waiting : Place(i) = 0
  BY DEF Place
<1>7. NewPositions =
        {<<i, Place(i)>> : i \in Waiting} \cup ((Active \ Waiting) \X {0})
  BY <1>5 DEF NewPositions, Active
<1>8. ((Active \ Waiting) \X {0}) = {<<i, Place(i)>> : i \in Active \ Waiting}
  BY <1>6
<1> QED
  BY <1>1, <1>3, <1>7, <1>8

(* A document is replaced.                                                 *)

Replaced(i, d) ==
  /\ i \in EntryIds /\ EntryIds' = EntryIds
  /\ entries'[i] = d
  /\ \A j \in EntryIds \ {i} : entries'[j] = entries[j]
  /\ ~entries[i].deleted /\ ~d.deleted

LEMMA Replacement ==
  ASSUME IInv, NEW i \in EntryIds, NEW d \in Entry, EntryExists(i), ~d.deleted,
         entries' = [entries EXCEPT ![i] = d]
  PROVE  Replaced(i, d)
<1>1. /\ entries \in Seq(Entry) /\ EntryIds = 1 .. Len(entries)
      /\ Len(entries) \in Nat
  BY EntryType DEF IInv, TypeOK, StoreTypeOK
<1>2. /\ entries' \in Seq(Entry) /\ Len(entries') = Len(entries)
      /\ \A j \in EntryIds : j # i => entries'[j] = entries[j]
      /\ entries'[i] = d
  BY <1>1, ExceptSeq
<1>3. EntryIds' = EntryIds
  BY <1>1, <1>2 DEF EntryIds
<1> QED
  BY <1>2, <1>3 DEF Replaced, EntryExists

\* Whoever leaves the line leaves the others in order.
LEMMA OutOfLine ==
  ASSUME Sorted, NEW i, NEW d, Replaced(i, d), d.status # "waiting"
  PROVE  Sorted'
<1>1. Waiting' \subseteq Waiting \ {i}
  BY DEF Replaced, Waiting, FindByStatus, EntryExists
<1>2. Waiting \subseteq EntryIds
  BY DEF Waiting, FindByStatus
<1>3. \A j \in Waiting' : entries'[j].position = entries[j].position
  BY <1>1, <1>2 DEF Replaced
<1> QED
  BY <1>1, <1>3 DEF Sorted

\* A new position leaves the line itself alone.
LEMMA SameLine ==
  ASSUME NEW i, NEW d, Replaced(i, d), d.status = entries[i].status
  PROVE  /\ Waiting' = Waiting /\ Active' = Active
         /\ CountActive' = CountActive /\ Served' = Served
<1>1. \A S : FindByStatus(S)' = FindByStatus(S)
  <2> SUFFICES ASSUME NEW S PROVE FindByStatus(S)' = FindByStatus(S)
    OBVIOUS
  <2>1. \A j \in EntryIds :
          /\ EntryExists(j)' <=> EntryExists(j)
          /\ entries'[j].status = entries[j].status
    BY DEF Replaced, EntryExists
  <2> QED
    BY <2>1 DEF FindByStatus, Replaced
<1> QED
  BY <1>1 DEF Waiting, Active, CountActive, Served, CountByStatus

\* A new entry goes to the end of the line.
LEMMA EndOfLine ==
  ASSUME IInv, IInv', Sorted, NEW place \in Nat, BehindAll(place),
         NEW d, entries' = Append(entries, d), d.position = place
  PROVE  Sorted'
<1> DEFINE last == Len(entries) + 1
<1>1. /\ entries \in Seq(Entry) /\ EntryIds = 1 .. Len(entries)
      /\ Len(entries) \in Nat
  BY EntryType DEF IInv, TypeOK, StoreTypeOK
<1>2. /\ EntryIds' = EntryIds \cup {last}
      /\ entries'[last] = d /\ last > Len(entries)
      /\ \A j \in EntryIds : entries'[j] = entries[j]
  BY <1>1 DEF EntryIds
<1>3. Waiting' \subseteq Waiting \cup {last} /\ Waiting \subseteq EntryIds
  BY <1>2 DEF Waiting, FindByStatus, EntryExists
<1>4. \A j \in Waiting : j < last /\ entries'[j] = entries[j]
  BY <1>1, <1>2, <1>3
<1>5. ASSUME NEW i \in Waiting', NEW j \in Waiting', i < j
      PROVE  entries'[i].position <= entries'[j].position
  <2>1. i # last
    <3>1. j = last \/ j < last
      BY <1>3, <1>4
    <3>2. j \in Nat
      BY <1>1, <1>2, <1>3
    <3> QED
      BY <1>1, <1>5, <3>1, <3>2
  <2>2. i \in Waiting /\ entries'[i] = entries[i]
    BY <1>3, <1>4, <2>1
  <2>3. CASE j = last
    BY <1>2, <2>2, <2>3 DEF BehindAll
  <2>4. CASE j # last
    <3>1. j \in Waiting /\ entries'[j] = entries[j]
      BY <1>3, <1>4, <2>4
    <3> QED
      BY <1>5, <2>2, <3>1 DEF Sorted
  <2> QED
    BY <2>3, <2>4
<1> QED
  BY <1>5 DEF Sorted

(* What the steps of a request do to the line.                             *)

LEMMA LineType ==
  ASSUME SystemIInv, NEW r \in Requests
  PROVE  /\ request \in [Requests -> Request] /\ request[r] \in Request
         /\ LocalsOK(request[r]) /\ queue \in Queue /\ IInv
BY Hypothesis DEF SystemIInv, IInv, TypeOK

\* Steps that read.
LEMMA StillInLine ==
  ASSUME NEW x, NEW y, NEW g, LineOK(x, g), UNCHANGED store,
         x.pc \in Untouched, y.pc \in Untouched, y.pc # "findNextWaiting",
         y.hasQueue = x.hasQueue,
         y.pc = "countActive" => x.pc = "findActiveByCustomer",
         y.pc \in {"idle", "findActiveByCustomer", "countActive"}
           => y.attempt = 0,
         y.pc = "create" \/ (y.pc = "nextTokenNumber" /\ y.attempt # 0)
           => BehindAll(y.place) \/ queue.deleted
  PROVE  LineOK(y, g)'
<1>1. Ranked' = Ranked /\ CountActive' = CountActive /\ Served' = Served
  BY LineOfEntries DEF store
<1>2. BehindAll(y.place)' = BehindAll(y.place)
  BY PendingOfEntries DEF store
<1>3. queue' = queue
  BY DEF store
<1> QED
  BY <1>1, <1>2, <1>3 DEF LineOK, Untouched, Exact

LEMMA JoinLine ==
  ASSUME SystemIInv, NEW g, NEW r \in Requests, LineOK(request[r], g),
         NEW c \in Customers, Join(r, c)
  PROVE  LineOK(request[r], g)'
<1>1. /\ request[r].pc = "idle" /\ UNCHANGED store
      /\ request'[r].pc = "findActiveByCustomer"
      /\ request'[r].hasQueue = request[r].hasQueue
      /\ request'[r].attempt = request[r].attempt
  BY LineType DEF Join, Continue, Request
<1>2. request[r].attempt = 0
  BY <1>1 DEF LineOK
<1>3. PICK y : y = request'[r]
  OBVIOUS
<1>4. LineOK(y, g)'
  BY <1>1, <1>2, <1>3, StillInLine DEF Untouched
<1> QED
  BY <1>3, <1>4 DEF LineOK

LEMMA RespondLine ==
  ASSUME SystemIInv, NEW g, NEW r \in Requests, LineOK(request[r], g),
         request[r].pc \in Untouched, Respond(r), UNCHANGED store
  PROVE  LineOK(request[r], g)'
<1>1. request'[r] = Idle
  BY LineType DEF Respond, Continue
<1>2. /\ Idle.pc = "idle" /\ Idle.attempt = 0 /\ Idle.hasQueue
      /\ Idle.counted = {}
  BY DEF Idle
<1>3. Ranked' = Ranked /\ CountActive' = CountActive /\ Served' = Served
  BY LineOfEntries DEF store
<1> QED
  BY <1>1, <1>2, <1>3 DEF LineOK, Untouched, Exact, store

LEMMA CheckCustomerLine ==
  ASSUME SystemIInv, NEW g, NEW r \in Requests, LineOK(request[r], g),
         CheckCustomer(r)
  PROVE  LineOK(request[r], g)'
<1>1. request[r].pc = "findActiveByCustomer" /\ UNCHANGED store
  BY DEF CheckCustomer
<1>2. CASE Respond(r)
  BY <1>1, <1>2, RespondLine DEF Untouched
<1>3. CASE Await(r, "countActive")
  <2>1. /\ request'[r].pc = "countActive"
        /\ request'[r].hasQueue = request[r].hasQueue
        /\ request'[r].attempt = request[r].attempt
    BY <1>3, LineType DEF Await, Continue, Request
  <2>2. request[r].attempt = 0
    BY <1>1 DEF LineOK
  <2>3. PICK y : y = request'[r]
    OBVIOUS
  <2>4. LineOK(y, g)'
    BY <1>1, <2>1, <2>2, <2>3, StillInLine DEF Untouched
  <2> QED
    BY <2>3, <2>4 DEF LineOK
<1> QED
  BY <1>2, <1>3 DEF CheckCustomer

LEMMA CheckCapacityLine ==
  ASSUME SystemIInv, NEW g, NEW r \in Requests, LineOK(request[r], g),
         CheckCapacity(r)
  PROVE  LineOK(request[r], g)'
<1>1. request[r].pc = "countActive" /\ UNCHANGED store
  BY DEF CheckCapacity
<1>2. CASE Respond(r)
  BY <1>1, <1>2, RespondLine DEF Untouched
<1>3. CASE Await(r, "nextTokenNumber")
  <2>1. /\ request'[r].pc = "nextTokenNumber"
        /\ request'[r].hasQueue = request[r].hasQueue
        /\ request'[r].attempt = request[r].attempt
    BY <1>3, LineType DEF Await, Continue, Request
  <2>2. request[r].attempt = 0
    BY <1>1 DEF LineOK
  <2>3. PICK y : y = request'[r]
    OBVIOUS
  <2>4. LineOK(y, g)'
    BY <1>1, <2>1, <2>2, <2>3, StillInLine DEF Untouched
  <2> QED
    BY <2>3, <2>4 DEF LineOK
<1> QED
  BY <1>2, <1>3 DEF CheckCapacity

LEMMA ReadTokenLine ==
  ASSUME SystemIInv, NEW g, NEW r \in Requests, LineOK(request[r], g),
         ReadToken(r)
  PROVE  LineOK(request[r], g)'
<1>1. request[r].pc = "nextTokenNumber" /\ UNCHANGED store
  BY DEF ReadToken
<1>2. /\ request'[r].pc = IF request[r].attempt = 0 THEN "position" ELSE "create"
      /\ request'[r].hasQueue = request[r].hasQueue
      /\ request'[r].attempt = request[r].attempt
      /\ request'[r].place = request[r].place
  BY LineType DEF ReadToken, Continue, Request
<1>3. request[r].attempt # 0 => BehindAll(request[r].place) \/ queue.deleted
  BY <1>1 DEF LineOK
<1>4. PICK y : y = request'[r]
  OBVIOUS
<1>5. LineOK(y, g)'
  BY <1>1, <1>2, <1>3, <1>4, StillInLine DEF Untouched
<1> QED
  BY <1>4, <1>5 DEF LineOK

LEMMA ReadPositionLine ==
  ASSUME SystemIInv, NEW g, NEW r \in Requests, LineOK(request[r], g),
         ReadPosition(r)
  PROVE  LineOK(request[r], g)'
<1>1. request[r].pc = "position" /\ UNCHANGED store
  BY DEF ReadPosition
<1>2. /\ request'[r].pc = "create"
      /\ request'[r].hasQueue = request[r].hasQueue
      /\ request'[r].place = CountActive + 1
  BY LineType DEF ReadPosition, Continue, Request
<1>3. BehindAll(CountActive + 1) \/ queue.deleted
  BY <1>1, LineType, RankedIsSorted DEF LineOK, Untouched
<1>4. PICK y : y = request'[r]
  OBVIOUS
<1>5. LineOK(y, g)'
  BY <1>1, <1>2, <1>3, <1>4, StillInLine DEF Untouched
<1> QED
  BY <1>4, <1>5 DEF LineOK

LEMMA TokenConflictLine ==
  ASSUME SystemIInv, NEW g, NEW r \in Requests, LineOK(request[r], g),
         TokenConflict(r)
  PROVE  LineOK(request[r], g)'
<1>1. request[r].pc = "create" /\ UNCHANGED store
  BY DEF TokenConflict
<1>2. CASE Respond(r)
  BY <1>1, <1>2, RespondLine DEF Untouched
<1>3. CASE ~Respond(r)
  <2>1. /\ request'[r].pc = "nextTokenNumber"
        /\ request'[r].hasQueue = request[r].hasQueue
        /\ request'[r].place = request[r].place
    <3>1. Continue(r, [request[r] EXCEPT !.pc = "nextTokenNumber",
                                         !.attempt = request[r].attempt + 1])
      BY <1>3 DEF TokenConflict
    <3> QED
      BY <3>1, LineType DEF Continue, Request
  <2>2. BehindAll(request[r].place) \/ queue.deleted
    BY <1>1 DEF LineOK
  <2>3. PICK y : y = request'[r]
    OBVIOUS
  <2>4. LineOK(y, g)'
    BY <1>1, <2>1, <2>2, <2>3, StillInLine DEF Untouched
  <2> QED
    BY <2>3, <2>4 DEF LineOK
<1> QED
  BY <1>2, <1>3

LEMMA WithdrawLine ==
  ASSUME SystemIInv, NEW g, NEW r \in Requests, LineOK(request[r], g),
         NEW op \in {"leave", "cancel"}, NEW i \in EntryIds, Withdraw(r, op, i)
  PROVE  LineOK(request[r], g)'
<1>1. /\ request[r].pc = "idle" /\ UNCHANGED store
      /\ request'[r].pc = "withdraw"
      /\ request'[r].hasQueue = request[r].hasQueue
  BY LineType DEF Withdraw, Continue, Request
<1>2. PICK y : y = request'[r]
  OBVIOUS
<1>3. LineOK(y, g)'
  BY <1>1, <1>2, StillInLine DEF Untouched
<1> QED
  BY <1>2, <1>3 DEF LineOK

LEMMA ProcessEntryLine ==
  ASSUME SystemIInv, NEW g, NEW r \in Requests, LineOK(request[r], g),
         NEW op \in EntryOperations, NEW i \in EntryIds, ProcessEntry(r, op, i)
  PROVE  LineOK(request[r], g)'
<1>1. /\ request[r].pc = "idle" /\ UNCHANGED store
      /\ request'[r].pc = "commit"
      /\ request'[r].hasQueue = request[r].hasQueue
  BY LineType DEF ProcessEntry, Continue, Request
<1>2. PICK y : y = request'[r]
  OBVIOUS
<1>3. LineOK(y, g)'
  BY <1>1, <1>2, StillInLine DEF Untouched
<1> QED
  BY <1>2, <1>3 DEF LineOK

\* Who asks for the next finds the line in order, because the queue was not
\* deleted when it asked.
LEMMA CallLineStep ==
  ASSUME SystemIInv, NEW g, NEW r \in Requests, LineOK(request[r], g),
         CallNext(r)
  PROVE  LineOK(request[r], g)'
<1>1. /\ request[r].pc = "idle" /\ UNCHANGED store /\ ~queue.deleted
      /\ request'[r].pc = "findNextWaiting"
      /\ request'[r].hasQueue = request[r].hasQueue
  BY LineType DEF CallNext, Continue, Request, QueueExists
<1>2. Ranked /\ Sorted /\ (~g => Exact)
  BY <1>1, LineType, RankedIsSorted DEF LineOK, Untouched
<1>3. /\ Ranked' = Ranked /\ Sorted' = Sorted
      /\ CountActive' = CountActive /\ Served' = Served
  BY <1>1, LineOfEntries DEF store
<1> QED
  BY <1>1, <1>2, <1>3 DEF LineOK, Untouched, Exact, store

LEMMA FindNextWaitingLine ==
  ASSUME SystemIInv, NEW g, NEW r \in Requests, LineOK(request[r], g),
         FindNextWaiting(r)
  PROVE  LineOK(request[r], g)'
<1>1. request[r].pc = "findNextWaiting" /\ UNCHANGED store
  BY DEF FindNextWaiting
<1>2. CASE Respond(r)
  BY <1>1, <1>2, RespondLine DEF Untouched
<1>3. ASSUME NEW i \in NextWaiting,
             Continue(r, [request[r] EXCEPT !.pc = "commit", !.id = i,
                                            !.seen = "waiting", !.to = "called"])
      PROVE  LineOK(request[r], g)'
  <2>1. /\ request'[r].pc = "commit"
        /\ request'[r].hasQueue = request[r].hasQueue
    BY <1>3, LineType DEF Continue, Request
  <2>2. PICK y : y = request'[r]
    OBVIOUS
  <2>3. LineOK(y, g)'
    BY <1>1, <2>1, <2>2, StillInLine DEF Untouched
  <2> QED
    BY <2>2, <2>3 DEF LineOK
<1> QED
  BY <1>2, <1>3 DEF FindNextWaiting

\* A recalculation starts without counts.
LEMMA EnteredFresh ==
  ASSUME NEW kind, NEW id, NEW seen, NEW found
  PROVE  /\ Entered(kind, id, seen, found).pc = "findActiveOrdered"
         /\ Entered(kind, id, seen, found).counted = {}
         /\ Entered(kind, id, seen, found).hasQueue = found
<1>1. Idle = [pc |-> Idle.pc, kind |-> Idle.kind, customer |-> Idle.customer,
              attempt |-> Idle.attempt, token |-> Idle.token,
              place |-> Idle.place, id |-> Idle.id, seen |-> Idle.seen,
              to |-> Idle.to, hasQueue |-> Idle.hasQueue,
              writes |-> Idle.writes, counted |-> Idle.counted,
              length |-> Idle.length, served |-> Idle.served]
  BY IdleOK DEF Request
<1>2. Idle.counted = {}
  BY DEF Idle
<1> QED
  BY <1>1, <1>2 DEF Entered

\* Steps that write. All that is known of a request afterwards is that it has
\* to look after a line that may have gaps.
LEMMA GapsInLine ==
  ASSUME NEW y, NEW old, NEW g, LineOK(old, g), queue' = queue,
         y.pc \in {"getQueue", "findQueue", "findActiveOrdered"},
         y.pc = "findActiveOrdered" => y.counted = {},
         y.hasQueue \/ queue.deleted,
         ~queue.deleted => Sorted'
  PROVE  LineOK(y, g)'
BY DEF LineOK, Untouched

LEMMA CreateEntryLine ==
  ASSUME SystemIInv, SystemIInv', NEW g, NEW r \in Requests,
         LineOK(request[r], g),
         CreateEntry(r)
  PROVE  LineOK(request[r], g)'
<1>1. request[r].pc = "create" /\ queue' = queue
  BY DEF CreateEntry
<1>2. PICK found \in BOOLEAN :
         found /\ Continue(r, Entered("join", Len(entries) + 1, "none", found))
  BY DEF CreateEntry, Recalculating, Entered
<1> DEFINE y == Entered("join", Len(entries) + 1, "none", found)
<1>3. y.pc = "findActiveOrdered" /\ y.counted = {} /\ y.hasQueue
  <2>1. /\ y.pc = "findActiveOrdered" /\ y.counted = {}
        /\ y.hasQueue = found
    BY EnteredFresh
  <2> QED
    BY <1>2, <2>1
<1> HIDE DEF y
<1>4. request'[r] = y
  BY <1>2, LineType DEF Continue, y
<1>5. PICK place \in Nat : place = request[r].place
  BY LineType DEF Request
<1>6. PICK d : entries' = Append(entries, d) /\ d.position = place
  BY <1>5 DEF CreateEntry, InsertEntry
<1>7. ASSUME ~queue.deleted PROVE Sorted'
  <2>1. Sorted /\ BehindAll(place)
    BY <1>1, <1>5, <1>7, LineType, RankedIsSorted DEF LineOK, Untouched
  <2>2. IInv /\ IInv'
    BY DEF SystemIInv
  <2> QED
    BY <1>6, <2>1, <2>2, EndOfLine
<1>8. PICK z : z = y
  OBVIOUS
<1>9. LineOK(z, g)'
  BY <1>1, <1>3, <1>7, <1>8, GapsInLine
<1> QED
  BY <1>4, <1>8, <1>9 DEF LineOK

LEMMA FindQueueLine ==
  ASSUME SystemIInv, NEW g, NEW r \in Requests, LineOK(request[r], g),
         FindQueue(r)
  PROVE  LineOK(request[r], g)'
<1>1. request[r].pc = "findQueue" /\ UNCHANGED store
  BY DEF FindQueue
<1>2. PICK found : found = ~queue.deleted
  OBVIOUS
<1> DEFINE y == Entered("withdraw", request[r].id, "none", found)
<1>3. Continue(r, y)
  BY <1>2 DEF FindQueue, Recalculating, Entered, QueueExists
<1>4. y.pc = "findActiveOrdered" /\ y.counted = {} /\ y.hasQueue = found
  BY EnteredFresh
<1> HIDE DEF y
<1>5. request'[r] = y
  BY <1>3, LineType DEF Continue
<1>6. ~queue.deleted => Sorted'
  <2>1. Sorted' = Sorted
    BY <1>1, LineOfEntries DEF store
  <2> QED
    BY <1>1, <2>1 DEF LineOK
<1>7. PICK z : z = y
  OBVIOUS
<1>8. LineOK(z, g)'
  BY <1>1, <1>2, <1>4, <1>6, <1>7, GapsInLine DEF store
<1> QED
  BY <1>5, <1>7, <1>8 DEF LineOK

LEMMA GetQueueLine ==
  ASSUME SystemIInv, NEW g, NEW r \in Requests, LineOK(request[r], g),
         GetQueue(r)
  PROVE  LineOK(request[r], g)'
<1>1. request[r].pc = "getQueue" /\ UNCHANGED store
  BY DEF GetQueue
<1>2. CASE QueueExists
  <2>1. PICK found \in BOOLEAN :
          found /\ Continue(r, Entered("transition", request[r].id,
                                       request[r].seen, found))
    BY <1>2 DEF GetQueue, Recalculating, Entered
  <2> DEFINE y == Entered("transition", request[r].id, request[r].seen, found)
  <2>2. y.pc = "findActiveOrdered" /\ y.counted = {} /\ y.hasQueue = found
    BY EnteredFresh
  <2> HIDE DEF y
  <2>3. request'[r] = y
    BY <2>1, LineType DEF Continue, y
  <2>4. ~queue.deleted => Sorted'
    <3>1. Sorted' = Sorted
      BY <1>1, LineOfEntries DEF store
    <3> QED
      BY <1>1, <3>1 DEF LineOK
  <2>5. PICK z : z = y
    OBVIOUS
  <2>6. LineOK(z, g)'
    BY <1>1, <2>1, <2>2, <2>4, <2>5, GapsInLine DEF store
  <2> QED
    BY <2>3, <2>5, <2>6 DEF LineOK
<1>3. CASE ~QueueExists
  <2>1. request'[r] = Idle /\ queue'.deleted
    BY <1>1, <1>3, LineType DEF GetQueue, Respond, Continue, QueueExists, store
  <2>2. Idle.pc = "idle" /\ Idle.attempt = 0 /\ Idle.hasQueue
    BY DEF Idle
  <2> QED
    BY <2>1, <2>2 DEF LineOK
<1> QED
  BY <1>2, <1>3

LEMMA CommitLine ==
  ASSUME SystemIInv, NEW g, NEW r \in Requests, LineOK(request[r], g),
         Commit(r)
  PROVE  LineOK(request[r], g)'
<1> DEFINE i == request[r].id
           to == request[r].to
           position == IF to = "skipped" THEN 0 ELSE entries[i].position
           d == [entries[i] EXCEPT !.status = to, !.position = position]
<1>1. request[r].pc = "commit" /\ UNCHANGED queue
  BY DEF Commit
<1>2. i \in EntryIds /\ <<request[r].seen, to>> \in allowed
  BY <1>1, LineType DEF LocalsOK
<1>3. CASE EntryExists(i) /\ entries[i].status = request[r].seen
  <2>1. /\ entries' = [entries EXCEPT ![i] = d]
        /\ Await(r, "getQueue")
    BY <1>3 DEF Commit, UpdateEntry
  <2>2. entries[i] \in Entry /\ entries[i].position \in Nat
    BY <1>2, LineType, EntryType DEF IInv, TypeOK
  <2>3. to \in EntryStatuses /\ to # "waiting"
    BY <1>2, StageFacts
  <2>4. position \in Nat
    BY <2>2
  <2> HIDE DEF to, position
  <2>5. /\ d \in Entry /\ d.status = to /\ d.deleted = entries[i].deleted
    BY <2>2, <2>3, <2>4 DEF Entry
  <2> HIDE DEF d
  <2>6. Replaced(i, d)
    BY <1>2, <1>3, <2>1, <2>5, LineType, Replacement DEF EntryExists
  <2>7. ~queue.deleted => Sorted'
    BY <1>1, <2>3, <2>5, <2>6, LineType, RankedIsSorted, OutOfLine
    DEF LineOK, Untouched
  <2>8. /\ request'[r].pc = "getQueue"
        /\ request'[r].hasQueue = request[r].hasQueue
    BY <2>1, LineType DEF Await, Continue, Request
  <2>9. request[r].hasQueue \/ queue.deleted
    BY DEF LineOK
  <2>10. PICK z : z = request'[r]
    OBVIOUS
  <2>11. LineOK(z, g)'
    BY <1>1, <2>7, <2>8, <2>9, <2>10, GapsInLine
  <2> QED
    BY <2>10, <2>11 DEF LineOK
<1>4. CASE ~(EntryExists(i) /\ entries[i].status = request[r].seen)
  BY <1>1, <1>4, RespondLine DEF Commit, UpdateEntry, Untouched, store
<1> QED
  BY <1>3, <1>4

LEMMA WriteWithdrawalLine ==
  ASSUME SystemIInv, NEW g, NEW r \in Requests, LineOK(request[r], g),
         WriteWithdrawal(r)
  PROVE  LineOK(request[r], g)'
<1> DEFINE i == request[r].id
           to == request[r].to
           d == [entries[i] EXCEPT !.status = to, !.position = 0]
<1>1. /\ request[r].pc = "withdraw" /\ UNCHANGED queue
      /\ UpdateEntry(i, TRUE, d)
  BY DEF WriteWithdrawal
<1>2. i \in EntryIds /\ to \in {"left", "cancelled"}
  BY <1>1, LineType DEF LocalsOK
<1>3. ~queue.deleted => Sorted
  BY <1>1, LineType, RankedIsSorted DEF LineOK, Untouched
<1>4. ~queue.deleted => Sorted'
  <2>1. CASE EntryExists(i)
    <3>1. entries' = [entries EXCEPT ![i] = d]
      BY <1>1, <2>1 DEF UpdateEntry
    <3>2. entries[i] \in Entry
      BY <1>2, LineType, EntryType DEF IInv, TypeOK
    <3>3. to \in EntryStatuses /\ to # "waiting"
      BY <1>2 DEF EntryStatuses, TerminalStatuses
    <3> HIDE DEF to
    <3>4. d \in Entry /\ d.status = to /\ d.deleted = entries[i].deleted
      BY <3>2, <3>3 DEF Entry
    <3> HIDE DEF d
    <3>5. Replaced(i, d)
      BY <1>2, <2>1, <3>1, <3>4, LineType, Replacement DEF EntryExists
    <3> QED
      BY <1>3, <3>3, <3>4, <3>5, OutOfLine
  <2>2. CASE ~EntryExists(i)
    <3>1. Sorted' = Sorted
      BY <1>1, <2>2, LineOfEntries DEF UpdateEntry
    <3> QED
      BY <1>3, <3>1
  <2> QED
    BY <2>1, <2>2
<1>5. /\ request'[r].pc = "findQueue"
      /\ request'[r].hasQueue = request[r].hasQueue
  BY LineType DEF WriteWithdrawal, Await, Continue, Request
<1>6. request[r].hasQueue \/ queue.deleted
  BY DEF LineOK
<1>7. PICK z : z = request'[r]
  OBVIOUS
<1>8. LineOK(z, g)'
  BY <1>1, <1>4, <1>5, <1>6, <1>7, GapsInLine
<1> QED
  BY <1>7, <1>8 DEF LineOK

LEMMA FindActiveOrderedLine ==
  ASSUME SystemIInv, NEW g, NEW r \in Requests, LineOK(request[r], g),
         FindActiveOrdered(r)
  PROVE  LineOK(request[r], g)'
<1>1. request[r].pc = "findActiveOrdered" /\ UNCHANGED store
  BY DEF FindActiveOrdered
<1>2. /\ request[r].counted = {}
      /\ request[r].hasQueue \/ queue.deleted
      /\ queue' = queue
  BY <1>1 DEF LineOK, store
<1>3. CASE ~request[r].hasQueue /\ Waiting # {}
  <2>1. request'[r] = Idle /\ queue'.deleted
    BY <1>1, <1>2, <1>3, LineType DEF FindActiveOrdered, Respond, Continue
  <2>2. Idle.pc = "idle" /\ Idle.attempt = 0 /\ Idle.hasQueue
    BY DEF Idle
  <2> QED
    BY <2>1, <2>2 DEF LineOK
<1>4. CASE ~(~request[r].hasQueue /\ Waiting # {})
  <2> DEFINE pc == IF NewPositions = {} THEN "count" ELSE "writePositions"
  <2>1. Continue(r, [request[r] EXCEPT !.writes = NewPositions, !.pc = pc])
    BY <1>4 DEF FindActiveOrdered
  <2>2. PICK p : p = pc
    OBVIOUS
  <2> HIDE DEF pc
  <2>3. PICK y : y = request'[r]
    OBVIOUS
  <2>4. /\ y.pc = p /\ y.writes = NewPositions
        /\ y.hasQueue = request[r].hasQueue /\ y.counted = {}
    <3>1. PICK new : new = NewPositions
      OBVIOUS
    <3>2. request' = [request EXCEPT
                        ![r] = [request[r] EXCEPT !.writes = new, !.pc = p]]
      BY <2>1, <2>2, <3>1 DEF Continue
    <3>3. /\ y.pc = p /\ y.writes = new
          /\ y.hasQueue = request[r].hasQueue
          /\ y.counted = request[r].counted
      BY <2>3, <3>2, LineType DEF Request
    <3> QED
      BY <1>2, <3>1, <3>3
  <2>5. ASSUME ~queue.deleted PROVE Pending(y.writes)
    <3>1. Sorted
      BY <1>1, <2>5 DEF LineOK
    <3>2. NewPositions = {<<i, Place(i)>> : i \in Active}
      BY <3>1, LineType, SortedOrder
    <3> QED
      BY <2>4, <3>2 DEF Pending
  <2>6. CASE p = "count"
    <3>1. NewPositions = {}
      BY <2>2, <2>6 DEF pc
    <3>2. ~queue.deleted => Ranked
      BY <2>4, <2>5, <3>1 DEF Pending, Ranked
    <3>3. Counted(y)' /\ Ranked' = Ranked
      BY <1>1, <2>4, LineOfEntries DEF Counted, store
    <3>4. LineOK(y, g)'
      BY <1>2, <2>4, <2>6, <3>2, <3>3 DEF LineOK, Untouched
    <3> QED
      BY <2>3, <3>4 DEF LineOK
  <2>7. CASE p = "writePositions"
    <3>1. PICK w : w = y.writes
      OBVIOUS
    <3>2. Pending(w)' = Pending(w)
      BY <1>1, PendingOfEntries DEF store
    <3>3. ~queue.deleted => Pending(w)'
      BY <2>5, <3>1, <3>2
    <3>4. LineOK(y, g)'
      BY <1>2, <2>4, <2>7, <3>1, <3>3 DEF LineOK, Untouched, Pending
    <3> QED
      BY <2>3, <3>4 DEF LineOK
  <2> QED
    BY <2>2, <2>6, <2>7 DEF pc
<1> QED
  BY <1>3, <1>4

\* Each position that is written brings the line nearer to its order.
LEMMA WritePositionLine ==
  ASSUME SystemIInv, NEW g, NEW r \in Requests, LineOK(request[r], g),
         NEW write \in request[r].writes, WritePosition(r, write)
  PROVE  LineOK(request[r], g)'
<1> DEFINE left == request[r].writes \ {write}
           pc == IF left = {} THEN "count" ELSE request[r].pc
           i == write[1]
           d == [entries[i] EXCEPT !.position = write[2]]
<1>1. /\ request[r].pc = "writePositions" /\ UNCHANGED queue
      /\ Continue(r, [request[r] EXCEPT !.writes = left, !.pc = pc])
      /\ UpdateEntry(i, TRUE, d)
  BY DEF WritePosition
<1>2. PICK y : y = request'[r]
  OBVIOUS
<1>3. PICK p : p = pc
  OBVIOUS
<1>4. PICK w : w = left
  OBVIOUS
<1> HIDE DEF pc, left
<1>5. /\ y.pc = p /\ y.writes = w /\ y.hasQueue = request[r].hasQueue
      /\ y.counted = request[r].counted
  BY <1>1, <1>2, <1>3, <1>4, LineType DEF Continue, Request
<1>6. /\ request[r].counted = {}
      /\ request[r].hasQueue \/ queue.deleted
      /\ p = IF w = {} THEN "count" ELSE "writePositions"
      /\ ~queue.deleted => Pending(request[r].writes)
      /\ w = request[r].writes \ {write}
  BY <1>1, <1>3, <1>4 DEF LineOK, pc, left
<1>7. ASSUME ~queue.deleted PROVE Pending(w)'
  <2>1. i \in Active /\ write[2] = Place(i) /\ write = <<i, Place(i)>>
    <3>1. i \in Active /\ write[2] = Place(i)
      BY <1>6, <1>7 DEF Pending
    <3>2. write \in Nat \X Nat
      BY LineType DEF Request
    <3> QED
      BY <3>1, <3>2
  <2>2. i \in EntryIds /\ EntryExists(i) /\ entries[i] \in Entry
    BY <2>1, LineType, EntryType DEF IInv, TypeOK, Active, FindByStatus
  <2>3. entries' = [entries EXCEPT ![i] = d]
    BY <1>1, <2>2 DEF UpdateEntry
  <2>4. write[2] \in Nat
    BY <2>1, LineType, Places
  <2>5. /\ d \in Entry /\ d.status = entries[i].status
        /\ d.deleted = entries[i].deleted /\ d.position = write[2]
    BY <2>2, <2>4 DEF Entry
  <2> HIDE DEF d
  <2>6. Replaced(i, d)
    BY <2>2, <2>3, <2>5, LineType, Replacement DEF EntryExists
  <2>7. Waiting' = Waiting /\ Active' = Active
    BY <2>5, <2>6, SameLine
  <2>8. \A j : Place(j)' = Place(j)
    BY <2>7 DEF Place
  <2>9. \A v \in w : v[1] \in Active' /\ v[2] = Place(v[1])'
    <3>1. \A v \in w : v[1] \in Active /\ v[2] = Place(v[1])
      BY <1>6, <1>7 DEF Pending
    <3> QED
      BY <2>7, <2>8, <3>1
  <2>10. ASSUME NEW j \in Active
         PROVE  entries'[j].position = Place(j) \/ <<j, Place(j)>> \in w
    <3>1. CASE j = i
      BY <2>1, <2>5, <2>6, <3>1 DEF Replaced
    <3>2. CASE j # i
      <4>1. entries'[j] = entries[j]
        BY <2>6, <3>2 DEF Replaced, Active, FindByStatus
      <4>2. entries[j].position = Place(j) \/ <<j, Place(j)>> \in request[r].writes
        BY <1>6, <1>7 DEF Pending
      <4>3. <<j, Place(j)>> # write
        BY <2>1, <3>2
      <4> QED
        BY <1>6, <4>1, <4>2, <4>3
    <3> QED
      BY <3>1, <3>2
  <2> QED
    BY <2>7, <2>8, <2>9, <2>10 DEF Pending
<1>8. CASE w = {}
  <2>1. ~queue.deleted => Ranked'
    BY <1>7, <1>8 DEF Pending, Ranked
  <2>2. Counted(y)'
    <3>1. y.counted = {}
      BY <1>5, <1>6
    <3> QED
      BY <3>1 DEF Counted
  <2>3. LineOK(y, g)'
    BY <1>1, <1>5, <1>6, <1>8, <2>1, <2>2 DEF LineOK, Untouched
  <2> QED
    BY <1>2, <2>3 DEF LineOK
<1>9. CASE w # {}
  <2>1. PICK v : v = y.writes
    OBVIOUS
  <2>2. ~queue.deleted => Pending(v)'
    BY <1>5, <1>7, <2>1
  <2>3. LineOK(y, g)'
    BY <1>1, <1>5, <1>6, <1>9, <2>1, <2>2 DEF LineOK, Untouched, Pending
  <2> QED
    BY <1>2, <2>3 DEF LineOK
<1> QED
  BY <1>8, <1>9

LEMMA CountLine ==
  ASSUME SystemIInv, NEW g, NEW r \in Requests, LineOK(request[r], g),
         NEW field \in {"length", "served"}, Count(r, field)
  PROVE  LineOK(request[r], g)'
<1> DEFINE counted == request[r].counted \cup {field}
           length == IF field = "length" THEN CountActive ELSE request[r].length
           served == IF field = "served" THEN Served ELSE request[r].served
           pc == IF counted = {"length", "served"} THEN "writeStatistics"
                                                   ELSE request[r].pc
<1>1. /\ request[r].pc = "count" /\ UNCHANGED store
      /\ Continue(r, [request[r] EXCEPT !.counted = counted, !.length = length,
                                        !.served = served, !.pc = pc])
  BY DEF Count, Served
<1>2. /\ request[r].hasQueue \/ queue.deleted
      /\ ~queue.deleted => Ranked /\ Counted(request[r])
      /\ queue' = queue
  BY <1>1 DEF LineOK, store
<1>3. PICK y : y = request'[r]
  OBVIOUS
<1>4. PICK c : c = counted
  OBVIOUS
<1>5. PICK l : l = length
  OBVIOUS
<1>6. PICK s : s = served
  OBVIOUS
<1>7. PICK p : p = pc
  OBVIOUS
<1>8. /\ c = request[r].counted \cup {field}
      /\ field = "length" => l = CountActive
      /\ field # "length" => l = request[r].length
      /\ field = "served" => s = Served
      /\ field # "served" => s = request[r].served
      /\ p \in {"count", "writeStatistics"}
      /\ p = "writeStatistics" => c = {"length", "served"}
  BY <1>1, <1>4, <1>5, <1>6, <1>7
<1> HIDE DEF counted, length, served, pc
<1>9. /\ y.pc = p /\ y.counted = c /\ y.length = l /\ y.served = s
      /\ y.hasQueue = request[r].hasQueue
  BY <1>1, <1>3, <1>4, <1>5, <1>6, <1>7, LineType DEF Continue, Request
<1>10. ~queue.deleted => Ranked' /\ Counted(y)'
  <2>1. ~queue.deleted => Counted(y)
    BY <1>2, <1>8, <1>9 DEF Counted
  <2> QED
    BY <1>1, <1>2, <2>1, LineOfEntries, PendingOfEntries DEF store
<1>11. LineOK(y, g)'
  BY <1>2, <1>8, <1>9, <1>10 DEF LineOK, Untouched
<1> QED
  BY <1>3, <1>11 DEF LineOK

LEMMA WriteStatisticsLine ==
  ASSUME SystemIInv, NEW g, NEW r \in Requests, LineOK(request[r], g),
         WriteStatistics(r)
  PROVE  LineOK(request[r], g)'
<1>1. /\ request[r].pc = "writeStatistics" /\ UNCHANGED entries
      /\ request'[r] = Idle
  BY LineType DEF WriteStatistics, Respond, Continue
<1>2. /\ Idle.pc = "idle" /\ Idle.attempt = 0 /\ Idle.hasQueue
      /\ Idle.counted = {}
  BY DEF Idle
<1>3. /\ Ranked' = Ranked /\ CountActive' = CountActive /\ Served' = Served
  BY <1>1, LineOfEntries
<1>4. CASE queue.deleted
  <2>1. queue' = queue
    BY <1>4 DEF WriteStatistics, UpdateStatistics
  <2> QED
    BY <1>1, <1>2, <1>4, <2>1 DEF LineOK
<1>5. CASE ~queue.deleted
  <2>1. /\ Ranked /\ request[r].length = CountActive
        /\ request[r].served = Served /\ request[r].hasQueue
    BY <1>1, <1>5 DEF LineOK, Counted
  <2>2. queue'.length = request[r].length /\ queue'.served = request[r].served
    BY <1>5, <2>1, LineType DEF WriteStatistics, UpdateStatistics, Queue
  <2> QED
    BY <1>1, <1>2, <1>3, <2>1, <2>2 DEF LineOK, Untouched, Exact
<1> QED
  BY <1>4, <1>5

-----------------------------------------------------------------------------
(* The steps together, with requests one at a time and nothing removed.    *)

LineInv == \A r \in Requests : LineOK(request[r], given)

LEMMA Alone ==
  ASSUME Cardinality(Requests) = 1, NEW r \in Requests, NEW s \in Requests
  PROVE  r = s
BY RequestsAssumption, FS_Singleton

LEMMA RequestLine ==
  ASSUME "remove" \notin Operations, SystemIInv, SystemIInv', NEW g,
         NEW r \in Requests, LineOK(request[r], g), RequestMoves(r)
  PROVE  LineOK(request[r], g)'
<1>1. CASE EntryRequest(r)
  BY <1>1, JoinLine, WithdrawLine DEF EntryRequest, Remove
<1>2. CASE ProcessingRequest(r)
  BY <1>2, CallLineStep, ProcessEntryLine DEF ProcessingRequest
<1>3. CASE JoinStep(r)
  BY <1>3, CheckCustomerLine, CheckCapacityLine, ReadTokenLine,
     ReadPositionLine, CreateEntryLine, TokenConflictLine DEF JoinStep
<1>4. CASE WithdrawStep(r)
  <2>1. ~WriteRemoval(r)
    BY DEF WriteRemoval, LineOK
  <2> QED
    BY <1>4, <2>1, WriteWithdrawalLine, FindQueueLine DEF WithdrawStep
<1>5. CASE TransitionStep(r)
  BY <1>5, FindNextWaitingLine, CommitLine, GetQueueLine DEF TransitionStep
<1>6. CASE RecalculateStep(r)
  BY <1>6, FindActiveOrderedLine, WritePositionLine, CountLine,
     WriteStatisticsLine DEF RecalculateStep
<1> QED
  BY <1>1, <1>2, <1>3, <1>4, <1>5, <1>6 DEF RequestMoves, Step

\* Managers write no entries, and no statistics but those a body names.
LEMMA ManageKeepsStatistics ==
  ASSUME SystemIInv, Manage, ~given'
  PROVE  /\ ~given
         /\ queue'.length = queue.length /\ queue'.served = queue.served
<1>1. AdminNext /\ ~given
  BY DEF Manage
<1>2. ASSUME NEW m \in Managers, WriteQueue(m)
      PROVE  queue'.length = queue.length /\ queue'.served = queue.served
  <2>1. admin[m].pc = "write" /\ admin'[m].pc = "idle"
    BY <1>2 DEF WriteQueue, SystemIInv, AdminTypeOK, AdminIdle
  <2>2. ~NamesStatistics(admin[m].body)
    BY <2>1 DEF Manage
  <2>3. queue \in Queue
    BY DEF SystemIInv, IInv, TypeOK, StoreTypeOK
  <2> QED
    BY <1>2, <2>2, <2>3 DEF WriteQueue, With, Or, NamesStatistics, Queue
<1>3. (\E m \in Managers : WriteQueue(m)) \/ UNCHANGED store
  BY <1>1 DEF AdminNext, Transition, Update, Restore, SoftDelete, Asked
<1> QED
  BY <1>1, <1>2, <1>3 DEF store

LEMMA LineKept ==
  ASSUME NEW x, NEW g, NEW h, LineOK(x, g), UNCHANGED entries,
         queue.deleted => queue'.deleted,
         ~h => /\ ~g
               /\ queue'.length = queue.length
               /\ queue'.served = queue.served
  PROVE  LineOK(x, h)'
<1>1. PICK writes : writes = x.writes
  OBVIOUS
<1>2. PICK place : place = x.place
  OBVIOUS
<1>3. /\ Pending(writes)' = Pending(writes)
      /\ BehindAll(place)' = BehindAll(place)
      /\ Counted(x)' = Counted(x)
  BY PendingOfEntries
<1>4. /\ Ranked' = Ranked /\ Sorted' = Sorted
      /\ CountActive' = CountActive /\ Served' = Served
  BY LineOfEntries
<1>5. /\ (~queue.deleted)' => ~queue.deleted
      /\ (~g => Exact) => (~h => Exact')
  BY <1>4 DEF Exact
<1> QED
  BY <1>1, <1>2, <1>3, <1>4, <1>5 DEF LineOK, Pending, BehindAll

LEMMA LineStep ==
  ASSUME Cardinality(Requests) = 1, "remove" \notin Operations,
         SystemIInv, SystemIInv', LineInv, [SystemNext]_systemVars
  PROVE  LineInv'
<1>1. ASSUME NEW r \in Requests, Serve(r) PROVE LineInv'
  <2>1. PICK h : h = given'
    OBVIOUS
  <2>2. RequestMoves(r) /\ (h = given \/ request[r].pc = "writeStatistics")
    BY <1>1, <2>1 DEF Serve, RequestMoves, SystemIInv
  <2>3. LineOK(request[r], h)
    BY <2>2 DEF LineInv, LineOK, Untouched
  <2>4. LineOK(request[r], h)'
    BY <2>2, <2>3, RequestLine
  <2>5. LineOK(request[r], given)'
    BY <2>1, <2>4 DEF LineOK
  <2> QED
    BY <2>5, Alone DEF LineInv
<1>2. ASSUME Manage \/ UNCHANGED systemVars
      PROVE  LineInv'
  <2>1. UNCHANGED <<entries, request>>
    BY <1>2, AdminStepEffect DEF Manage, AdminEffect, systemVars
  <2>2. /\ queue.deleted => queue'.deleted
        /\ ~given' => /\ ~given
                      /\ queue'.length = queue.length
                      /\ queue'.served = queue.served
    <3>1. CASE Manage
      BY <3>1, AdminStepEffect, ManageKeepsStatistics DEF Manage, AdminEffect
    <3>2. CASE UNCHANGED systemVars
      BY <3>2 DEF systemVars
    <3> QED
      BY <1>2, <3>1, <3>2
  <2>3. ASSUME NEW r \in Requests PROVE LineOK(request[r], given)'
    <3>1. PICK x : x = request[r]
      OBVIOUS
    <3>2. PICK g : g = given
      OBVIOUS
    <3>3. PICK h : h = given'
      OBVIOUS
    <3>4. LineOK(x, g) /\ x = request'[r]
      BY <2>1, <3>1, <3>2 DEF LineInv
    <3>5. LineOK(x, h)'
      BY <2>1, <2>2, <3>2, <3>3, <3>4, LineKept
    <3> QED
      BY <3>3, <3>4, <3>5 DEF LineOK
  <2> QED
    BY <2>3 DEF LineInv
<1> QED
  BY <1>1, <1>2 DEF SystemNext

LEMMA LineStart == SystemInit => LineInv
<1> SUFFICES ASSUME SystemInit PROVE LineInv
  OBVIOUS
<1>1. Waiting = {} /\ Active = {} /\ FindByStatus({"completed"}) = {}
  BY DEF SystemInit, Waiting, Active, FindByStatus, EntryIds
<1>2. CountActive = 0 /\ Served = 0
  BY <1>1, FS_EmptySet DEF CountActive, Served, CountByStatus, Active
<1>3. Ranked /\ (~given => Exact)
  <2>1. ~given => queue.length = 0 /\ queue.served = 0
    BY DEF SystemInit, Created, With, Or, NamesStatistics
  <2> QED
    BY <1>1, <1>2, <2>1 DEF Ranked, Exact
<1>4. /\ Idle.pc = "idle" /\ Idle.attempt = 0 /\ Idle.hasQueue
      /\ \A r \in Requests : request[r] = Idle
  BY DEF Idle, SystemInit
<1> QED
  BY <1>3, <1>4 DEF LineInv, LineOK, Untouched

-----------------------------------------------------------------------------
(* One request after the other: one ticket.                                *)

\* A join that has found no ticket of its customer.
TicketOK(x) ==
  x.pc \in {"countActive", "nextTokenNumber", "position", "create"} =>
    ~HasActiveEntry(x.customer)

TicketInv ==
  /\ OneTicketPerCustomer
  /\ \A r \in Requests : TicketOK(request[r])

\* Nobody gets a ticket, and nobody's ticket becomes another's.
NoNewTicket ==
  /\ Active' \subseteq Active
  /\ \A i \in Active' : entries'[i].customer = entries[i].customer

LEMMA NoNewTicketKeeps ==
  ASSUME OneTicketPerCustomer, NoNewTicket
  PROVE  /\ OneTicketPerCustomer'
         /\ \A c : HasActiveEntry(c)' => HasActiveEntry(c)
BY DEF OneTicketPerCustomer, NoNewTicket, HasActiveEntry, Active

\* An update leaves the customer of an entry alone.
LEMMA UpdateKeepsCustomer ==
  ASSUME IInv, NEW i \in EntryIds, NEW matches, NEW document,
         document.customer = entries[i].customer,
         UpdateEntry(i, matches, document)
  PROVE  \A j \in EntryIds : entries'[j].customer = entries[j].customer
<1>1. entries \in [1 .. Len(entries) -> Entry] /\ EntryIds = 1 .. Len(entries)
  BY LenProperties DEF IInv, TypeOK, StoreTypeOK, EntryIds
<1>2. CASE entries' = [entries EXCEPT ![i] = document]
  BY <1>1, <1>2
<1>3. CASE entries' = entries
  BY <1>3
<1> QED
  BY <1>2, <1>3 DEF UpdateEntry

LEMMA CustomersKept ==
  ASSUME IInv, NEW r \in Requests, RequestMoves(r), ~CreateEntry(r)
  PROVE  \A j \in EntryIds : entries'[j].customer = entries[j].customer
<1>1. CASE UNCHANGED entries
  BY <1>1
<1>2. CASE Commit(r)
  <2>1. request[r].id \in EntryIds
    BY <1>2, Hypothesis DEF Commit, LocalsOK
  <2>2. entries[request[r].id] \in Entry
    BY <2>1, EntryType DEF IInv, TypeOK
  <2> DEFINE position == IF request[r].to = "skipped" THEN 0
                         ELSE entries[request[r].id].position
             d == [entries[request[r].id] EXCEPT !.status = request[r].to,
                                                 !.position = position]
  <2>3. UpdateEntry(request[r].id,
                    entries[request[r].id].status = request[r].seen, d)
    BY <1>2 DEF Commit
  <2> HIDE DEF position
  <2>4. d.customer = entries[request[r].id].customer
    BY <2>2 DEF Entry
  <2> HIDE DEF d
  <2> QED
    BY <2>1, <2>3, <2>4, UpdateKeepsCustomer
<1>3. CASE WriteWithdrawal(r)
  <2>1. request[r].id \in EntryIds
    BY <1>3, Hypothesis DEF WriteWithdrawal, LocalsOK
  <2>2. entries[request[r].id] \in Entry
    BY <2>1, EntryType DEF IInv, TypeOK
  <2> DEFINE d == [entries[request[r].id] EXCEPT !.status = request[r].to,
                                                 !.position = 0]
  <2>3. UpdateEntry(request[r].id, TRUE, d)
    BY <1>3 DEF WriteWithdrawal
  <2>4. d.customer = entries[request[r].id].customer
    BY <2>2 DEF Entry
  <2> HIDE DEF d
  <2> QED
    BY <2>1, <2>3, <2>4, UpdateKeepsCustomer
<1>4. CASE WriteRemoval(r)
  <2>1. request[r].id \in EntryIds
    BY <1>4, Hypothesis DEF WriteRemoval, LocalsOK
  <2>2. entries[request[r].id] \in Entry
    BY <2>1, EntryType DEF IInv, TypeOK
  <2> DEFINE d == [entries[request[r].id] EXCEPT !.deleted = TRUE]
  <2>3. UpdateEntry(request[r].id, TRUE, d)
    BY <1>4 DEF WriteRemoval
  <2>4. d.customer = entries[request[r].id].customer
    BY <2>2 DEF Entry
  <2> HIDE DEF d
  <2> QED
    BY <2>1, <2>3, <2>4, UpdateKeepsCustomer
<1>5. ASSUME NEW write \in request[r].writes, WritePosition(r, write)
      PROVE  \A j \in EntryIds : entries'[j].customer = entries[j].customer
  <2>1. write[1] \in EntryIds
    BY Hypothesis DEF LocalsOK
  <2>2. entries[write[1]] \in Entry
    BY <2>1, EntryType DEF IInv, TypeOK
  <2> DEFINE d == [entries[write[1]] EXCEPT !.position = write[2]]
  <2>3. UpdateEntry(write[1], TRUE, d)
    BY <1>5 DEF WritePosition
  <2>4. d.customer = entries[write[1]].customer
    BY <2>2 DEF Entry
  <2> HIDE DEF d
  <2> QED
    BY <2>1, <2>3, <2>4, UpdateKeepsCustomer
<1>6. \/ UNCHANGED entries
      \/ Commit(r) \/ WriteWithdrawal(r) \/ WriteRemoval(r)
      \/ \E write \in request[r].writes : WritePosition(r, write)
  <2>1. CASE EntryRequest(r)
    BY <2>1 DEF EntryRequest, Join, Withdraw, Remove, store
  <2>2. CASE ProcessingRequest(r)
    BY <2>2 DEF ProcessingRequest, CallNext, ProcessEntry, store
  <2>3. CASE JoinStep(r)
    BY <2>3 DEF JoinStep, CheckCustomer, CheckCapacity, ReadToken, ReadPosition,
                TokenConflict, store
  <2>4. CASE WithdrawStep(r)
    BY <2>4 DEF WithdrawStep, FindQueue, store
  <2>5. CASE TransitionStep(r)
    BY <2>5 DEF TransitionStep, FindNextWaiting, GetQueue, store
  <2>6. CASE RecalculateStep(r)
    BY <2>6 DEF RecalculateStep, FindActiveOrdered, Count, WriteStatistics, store
  <2> QED
    BY <2>1, <2>2, <2>3, <2>4, <2>5, <2>6 DEF RequestMoves, Step
<1> QED
  BY <1>1, <1>2, <1>3, <1>4, <1>5, <1>6

Seeking == {"countActive", "nextTokenNumber", "position", "create"}

\* Only the steps of a join that has looked for its customer's ticket leave it
\* in this state.
LEMMA SeekingSteps ==
  ASSUME IInv, NEW r \in Requests, RequestMoves(r), request'[r].pc \in Seeking
  PROVE  /\ UNCHANGED entries
         /\ request'[r].customer = request[r].customer
         /\ \/ request[r].pc \in Seeking
            \/ ~HasActiveEntry(request[r].customer)
<1>1. request \in [Requests -> Request] /\ request[r] \in Request
  BY DEF IInv, TypeOK
<1>2. \A new : request' = [request EXCEPT ![r] = new] => request'[r] = new
  BY <1>1
<1>3. Idle.pc = "idle"
  BY DEF Idle
<1>4. \A kind, id, seen, found :
        Entered(kind, id, seen, found).pc = "findActiveOrdered"
  BY EnteredFresh
<1>5. CASE JoinStep(r)
  <2>1. CASE CheckCustomer(r)
    BY <1>1, <1>2, <1>3, <2>1
    DEF CheckCustomer, Respond, Await, Continue, Request, Seeking, store
  <2>2. CASE CheckCapacity(r)
    BY <1>1, <1>2, <1>3, <2>2
    DEF CheckCapacity, Respond, Await, Continue, Request, Seeking, store
  <2>3. CASE ReadToken(r)
    BY <1>1, <2>3 DEF ReadToken, Continue, Request, Seeking, store
  <2>4. CASE ReadPosition(r)
    BY <1>1, <2>4 DEF ReadPosition, Continue, Request, Seeking, store
  <2>5. CASE TokenConflict(r)
    <3>1. CASE Respond(r)
      BY <1>2, <1>3, <3>1 DEF Respond, Continue, Seeking
    <3>2. CASE ~Respond(r)
      <4>1. Continue(r, [request[r] EXCEPT !.pc = "nextTokenNumber",
                                           !.attempt = request[r].attempt + 1])
        BY <2>5, <3>2 DEF TokenConflict
      <4>2. request'[r].customer = request[r].customer
        BY <1>1, <4>1 DEF Continue, Request
      <4> QED
        BY <2>5, <4>2 DEF TokenConflict, Seeking, store
    <3> QED
      BY <3>1, <3>2
  <2>6. CASE CreateEntry(r)
    <3>1. PICK found \in BOOLEAN :
            Continue(r, Entered("join", Len(entries) + 1, "none", found))
      BY <2>6 DEF CreateEntry, Recalculating, Entered
    <3>2. request'[r].pc = "findActiveOrdered"
      BY <1>2, <1>4, <3>1 DEF Continue
    <3> QED
      BY <3>2 DEF Seeking
  <2> QED
    BY <1>5, <2>1, <2>2, <2>3, <2>4, <2>5, <2>6 DEF JoinStep
<1>6. CASE EntryRequest(r) \/ ProcessingRequest(r)
  <2>1. ASSUME NEW c \in Customers, Join(r, c)
        PROVE  request'[r].pc = "findActiveByCustomer"
    BY <1>1, <2>1 DEF Join, Continue, Request
  <2>2. ASSUME NEW op \in {"leave", "cancel"}, NEW i \in EntryIds,
               Withdraw(r, op, i)
        PROVE  request'[r].pc = "withdraw"
    BY <1>1, <2>2 DEF Withdraw, Continue, Request
  <2>3. ASSUME NEW i \in EntryIds, Remove(r, i)
        PROVE  request'[r].pc = "remove"
    BY <1>1, <2>3 DEF Remove, Continue, Request
  <2>4. CallNext(r) => request'[r].pc = "findNextWaiting"
    BY <1>1 DEF CallNext, Continue, Request
  <2>5. ASSUME NEW op \in EntryOperations, NEW i \in EntryIds,
               ProcessEntry(r, op, i)
        PROVE  request'[r].pc = "commit"
    BY <1>1, <2>5 DEF ProcessEntry, Continue, Request
  <2>6. request'[r].pc \notin Seeking
    BY <1>6, <2>1, <2>2, <2>3, <2>4, <2>5
    DEF EntryRequest, ProcessingRequest, Seeking
  <2> QED
    BY <2>6
<1>7. CASE ~JoinStep(r) /\ Step(r)
  <2>1. WithdrawStep(r) \/ TransitionStep(r) \/ RecalculateStep(r)
    BY <1>7 DEF Step
  <2>2. Quiet(r)
    BY <2>1, WithdrawStepQuiet, TransitionStepQuiet, RecalculateStepQuiet
  <2>3. request[r].pc \notin Seeking
    BY <2>1
    DEF WithdrawStep, WriteWithdrawal, FindQueue, WriteRemoval,
        TransitionStep, FindNextWaiting, Commit, GetQueue,
        RecalculateStep, FindActiveOrdered, WritePosition, Count,
        WriteStatistics, Seeking
  <2>4. request'[r].pc \notin AdmittedPcs
    BY <2>2, <2>3 DEF Quiet, Seeking, AdmittedPcs
  <2>5. request'[r].pc # "countActive"
    <3>1. CASE Respond(r)
      BY <1>2, <1>3, <3>1 DEF Respond, Continue
    <3>2. ASSUME NEW pc \in {"findQueue", "getQueue"}, Await(r, pc)
          PROVE  request'[r].pc = pc
      BY <1>1, <3>2 DEF Await, Continue, Request
    <3>3. ASSUME NEW kind, NEW id, NEW seen, NEW found,
                 Continue(r, Entered(kind, id, seen, found))
          PROVE  request'[r].pc = "findActiveOrdered"
      BY <1>2, <1>4, <3>3 DEF Continue
    <3>4. CASE WriteWithdrawal(r) \/ Commit(r)
      BY <3>1, <3>2, <3>4 DEF WriteWithdrawal, Commit
    <3>5. CASE FindQueue(r) \/ GetQueue(r)
      BY <3>1, <3>3, <3>5 DEF FindQueue, GetQueue, Recalculating, Entered
    <3>6. CASE FindNextWaiting(r)
      <4>1. ASSUME NEW i,
                   Continue(r, [request[r] EXCEPT
                                  !.pc = "commit", !.id = i,
                                  !.seen = "waiting", !.to = "called"])
            PROVE  request'[r].pc = "commit"
        BY <1>1, <4>1 DEF Continue, Request
      <4> QED
        BY <3>1, <3>6, <4>1 DEF FindNextWaiting
    <3>7. CASE FindActiveOrdered(r)
      <4> DEFINE pc == IF NewPositions = {} THEN "count" ELSE "writePositions"
      <4>1. Respond(r) \/
            Continue(r, [request[r] EXCEPT !.writes = NewPositions, !.pc = pc])
        BY <3>7 DEF FindActiveOrdered
      <4>2. pc # "countActive"
        OBVIOUS
      <4> HIDE DEF pc
      <4>3. CASE Continue(r, [request[r] EXCEPT !.writes = NewPositions,
                                                !.pc = pc])
        <5>1. PICK writes : writes = NewPositions
          OBVIOUS
        <5>2. Continue(r, [request[r] EXCEPT !.writes = writes, !.pc = pc])
          BY <4>3, <5>1
        <5>3. request'[r].pc = pc
          BY ONLY <1>1, <5>2 DEF Continue, Request
        <5> QED
          BY <4>2, <5>3
      <4> QED
        BY <3>1, <4>1, <4>3
    <3>8. CASE WriteRemoval(r) \/ WriteStatistics(r)
      BY <3>1, <3>8 DEF WriteRemoval, WriteStatistics
    <3>9. ASSUME NEW write \in request[r].writes, WritePosition(r, write)
          PROVE  request'[r].pc # "countActive"
      BY <1>1, <3>9 DEF WritePosition, Continue, Request
    <3>10. ASSUME NEW field \in {"length", "served"}, Count(r, field)
           PROVE  request'[r].pc # "countActive"
      BY <1>1, <3>10 DEF Count, Continue, Request
    <3> QED
      BY <2>1, <3>1, <3>4, <3>5, <3>6, <3>7, <3>8, <3>9, <3>10
      DEF WithdrawStep, TransitionStep, RecalculateStep
  <2> QED
    BY <2>4, <2>5 DEF Seeking, AdmittedPcs
<1> QED
  BY <1>5, <1>6, <1>7 DEF RequestMoves, Step

\* Only the insert of a join gives a ticket.
LEMMA NobodyGetsTicket ==
  ASSUME IInv, IInv', NEW r \in Requests, RequestMoves(r), ~CreateEntry(r)
  PROVE  NoNewTicket
<1>1. StepEffect(r)
  BY RequestEffect DEF RequestMoves
<1>2. Quiet(r) \/ UNCHANGED entries
  BY EntryRequestQuiet, ProcessingRequestQuiet, WithdrawStepQuiet,
     TransitionStepQuiet, RecalculateStepQuiet, JoinStepQuiet
  DEF RequestMoves, Step
<1>3. Active' \subseteq Active
  BY <1>1, <1>2, QuietActive, LineOfEntries
<1>4. Active \subseteq EntryIds
  BY DEF Active, FindByStatus
<1> QED
  BY <1>3, <1>4, CustomersKept DEF NoNewTicket

LEMMA CreateTicket ==
  ASSUME IInv, OneTicketPerCustomer, NEW r \in Requests, CreateEntry(r),
         ~HasActiveEntry(request[r].customer)
  PROVE  OneTicketPerCustomer'
<1> DEFINE last == Len(entries) + 1
<1>1. /\ entries \in Seq(Entry) /\ EntryIds = 1 .. Len(entries)
      /\ Len(entries) \in Nat
  BY EntryType DEF IInv, TypeOK, StoreTypeOK
<1>2. PICK d : entries' = Append(entries, d) /\ d.customer = request[r].customer
  BY DEF CreateEntry, InsertEntry
<1>3. /\ EntryIds' = EntryIds \cup {last} /\ last \notin EntryIds
      /\ entries'[last] = d
      /\ \A j \in EntryIds : entries'[j] = entries[j]
  BY <1>1, <1>2 DEF EntryIds
<1>4. /\ Active' \subseteq Active \cup {last}
      /\ \A j \in Active : entries'[j] = entries[j]
  BY <1>3 DEF Active, FindByStatus, EntryExists
<1>5. \A j \in Active : entries[j].customer # d.customer
  BY <1>2 DEF HasActiveEntry, Active
<1>6. ASSUME NEW i \in Active', NEW j \in Active',
             entries'[i].customer = entries'[j].customer
      PROVE  i = j
  BY <1>3, <1>4, <1>5, <1>6 DEF OneTicketPerCustomer, Active
<1> QED
  BY <1>6 DEF OneTicketPerCustomer, Active

LEMMA OneTicketStep ==
  ASSUME Cardinality(Requests) = 1, SystemIInv, SystemIInv', TicketInv,
         [SystemNext]_systemVars
  PROVE  TicketInv'
<1>1. ASSUME NEW r \in Requests, Serve(r) PROVE TicketInv'
  <2>1. IInv /\ IInv' /\ RequestMoves(r)
    BY <1>1 DEF SystemIInv, Serve, RequestMoves
  <2>2. OneTicketPerCustomer'
    <3>1. CASE CreateEntry(r)
      BY <2>1, <3>1, CreateTicket DEF TicketInv, TicketOK, CreateEntry
    <3>2. CASE ~CreateEntry(r)
      BY <2>1, <3>2, NobodyGetsTicket, NoNewTicketKeeps DEF TicketInv
    <3> QED
      BY <3>1, <3>2
  <2>3. ASSUME request'[r].pc \in Seeking, NEW c, c = request'[r].customer
        PROVE  ~HasActiveEntry(c)'
    <3>1. /\ UNCHANGED entries
          /\ request'[r].customer = request[r].customer
          /\ \/ request[r].pc \in Seeking
             \/ ~HasActiveEntry(request[r].customer)
      BY <2>1, <2>3, SeekingSteps
    <3>2. ~HasActiveEntry(request[r].customer)
      BY <3>1 DEF TicketInv, TicketOK, Seeking
    <3> QED
      BY <2>3, <3>1, <3>2
      DEF HasActiveEntry, FindByStatus, EntryExists, EntryIds
  <2>4. TicketOK(request[r])'
    BY <2>3 DEF TicketOK, Seeking, HasActiveEntry, FindByStatus, EntryExists,
                EntryIds
  <2> QED
    BY <2>2, <2>4, Alone DEF TicketInv
<1>2. ASSUME Manage \/ UNCHANGED systemVars
      PROVE  TicketInv'
  <2>1. UNCHANGED <<entries, request>>
    BY <1>2, AdminStepEffect DEF Manage, AdminEffect, systemVars
  <2> QED
    BY <2>1 DEF TicketInv, TicketOK, OneTicketPerCustomer, HasActiveEntry,
                FindByStatus, EntryExists, EntryIds
<1> QED
  BY <1>1, <1>2 DEF SystemNext

LEMMA OneTicketStart == SystemInit => TicketInv
BY DEF SystemInit, TicketInv, TicketOK, OneTicketPerCustomer, FindByStatus,
       EntryIds, Idle

-----------------------------------------------------------------------------
\* A queue that has requests one after the other is right between them: the
\* waiting stand at 1, 2, 3, ... in the order of their tokens, and the
\* statistics count, whatever managers do at any moment in between, unless they
\* delete the queue or somebody uses remove, which recalculates nothing. What an
\* update writes into the statistics lasts until the next recalculation
\* (queueProcessingService.js:22-45, 53-54; queueEntryService.js:58, 67, 72).
THEOREM OneRequestKeepsOrder ==
  ASSUME Cardinality(Requests) = 1, "remove" \notin Operations
  PROVE  SystemSpec => []LiveQueueConsistent
<1>1. SystemIInv /\ LineInv => LiveQueueConsistent
  <2> SUFFICES ASSUME SystemIInv, LineInv, ~queue.deleted, AtRest
               PROVE  PositionsInOrder /\ (~given => StatisticsExact)
    BY DEF LiveQueueConsistent, PositionsInOrder, StatisticsExact
  <2>1. PICK r : r \in Requests
    BY RequestsAssumption, FS_Singleton
  <2>2. Ranked /\ (~given => Exact)
    BY <2>1 DEF LineInv, LineOK, AtRest, Untouched
  <2>3. \A i \in Waiting : entries[i].token = i
    BY DEF SystemIInv, IInv, TokensConsecutive, Waiting, FindByStatus
  <2>4. \A i \in Waiting :
          {j \in Waiting : entries[j].token < entries[i].token}
            = {j \in Waiting : j < i}
    BY <2>3
  <2>5. PositionsInOrder
    BY <2>2, <2>4 DEF PositionsInOrder, Ranked, Place, Active
  <2> QED
    BY <2>2, <2>5 DEF StatisticsExact, Exact, Served
<1>2. SystemIInv /\ SystemIInv' /\ LineInv /\ [SystemNext]_systemVars => LineInv'
  BY LineStep
<1> QED
  BY <1>1, <1>2, LineStart, SystemInvariance, PTL DEF SystemSpec

\* ... then callNext calls whoever has waited longest, even of a queue that was
\* deleted after it was asked to (queueProcessingService.js:59-63,
\* queueEntryRepository.js:32-34).
THEOREM OneRequestCallsInOrder ==
  ASSUME Cardinality(Requests) = 1, "remove" \notin Operations
  PROVE  SystemSpec => CallsInOrder
<1>1. SystemIInv /\ LineInv
        => [\A r \in Requests :
              FindNextWaiting(r) /\ request'[r].pc = "commit" =>
                \A j \in Waiting :
                  entries[request'[r].id].token <= entries[j].token]_vars
  <2> SUFFICES ASSUME SystemIInv, LineInv, NEW r \in Requests,
                      FindNextWaiting(r), request'[r].pc = "commit",
                      NEW j \in Waiting
               PROVE  entries[request'[r].id].token <= entries[j].token
    OBVIOUS
  <2>1. request \in [Requests -> Request] /\ IInv
    BY DEF SystemIInv, IInv, TypeOK
  <2>2. ~Respond(r)
    BY <2>1 DEF Respond, Continue, Idle
  <2>3. PICK i \in NextWaiting :
          Continue(r, [request[r] EXCEPT !.pc = "commit", !.id = i,
                                         !.seen = "waiting", !.to = "called"])
    BY <2>2 DEF FindNextWaiting
  <2>4. request'[r].id = i
    BY <2>1, <2>3 DEF Continue, Request
  <2>5. Sorted
    BY DEF FindNextWaiting, LineInv, LineOK
  <2>6. i \in Waiting /\ (j = i \/ Before(i, j))
    BY DEF NextWaiting, Waiting
  <2>7. j = i \/ i < j
    BY <2>1, <2>5, <2>6, SortedOrder
  <2>8. /\ entries[i].token = i /\ entries[j].token = j
        /\ i \in Nat /\ j \in Nat
    BY <2>1, <2>6, Places DEF IInv, TokensConsecutive
  <2> QED
    BY <2>4, <2>7, <2>8
<1>2. SystemIInv /\ SystemIInv' /\ LineInv /\ [SystemNext]_systemVars => LineInv'
  BY LineStep
<1> QED
  BY <1>1, <1>2, LineStart, SystemInvariance, PTL DEF SystemSpec, CallsInOrder

\* A customer with a ticket gets no second one as long as joins come one at a
\* time, whatever else happens to the tickets and the queue
\* (queueEntryService.js:30, 41).
THEOREM OneRequestOneTicket ==
  ASSUME Cardinality(Requests) = 1
  PROVE  SystemSpec => []OneTicketPerCustomer
<1>1. TicketInv => OneTicketPerCustomer
  BY DEF TicketInv
<1>2. SystemIInv /\ SystemIInv' /\ TicketInv /\ [SystemNext]_systemVars
        => TicketInv'
  <2> SUFFICES ASSUME SystemIInv, SystemIInv', TicketInv,
                      [SystemNext]_systemVars
               PROVE  TicketInv'
    OBVIOUS
  <2> QED
    BY OneTicketStep
<1> QED
  BY <1>1, <1>2, OneTicketStart, SystemInvariance, PTL DEF SystemSpec
=============================================================================
