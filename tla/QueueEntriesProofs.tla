------------------------- MODULE QueueEntriesProofs -------------------------
(***************************************************************************)
(* Theorems about QueueEntries, for any number of customers, requests and  *)
(* entries, any capacity and any choice of operations; and that it         *)
(* implements TicketLifecycle.                                             *)
(***************************************************************************)
EXTENDS QueueEntries, TLAPS, SequenceTheorems, FiniteSetTheorems

-----------------------------------------------------------------------------
(* The inductive invariant.                                                *)

Stage(status) == Lifecycle!Stage(status)

Committed(x) ==
  x.kind = "transition" /\ x.pc \notin {"findNextWaiting", "commit"}

\* What the locals x of a request know about the entries stays true while
\* other requests change them.
LocalsOK(x) ==
  /\ x.pc \in {"findActiveByCustomer", "countActive", "nextTokenNumber",
              "position", "create"} => x.customer \in Customers
  /\ x.pc \in {"position", "create"} => x.token \in 1 .. Len(entries) + 1
  /\ x.pc = "create" \/ x.attempt # 0 => x.place >= 1
  /\ x.pc \in {"withdraw", "findQueue", "remove", "commit", "getQueue"} =>
       x.id \in EntryIds
  /\ x.pc = "withdraw" => x.to \in {"left", "cancelled"}
  /\ x.pc = "commit" => <<x.seen, x.to>> \in allowed
  /\ x.pc \in {"findNextWaiting", "commit", "getQueue"} =>
       x.kind = "transition"
  /\ Committed(x) =>
       /\ x.id \in EntryIds
       /\ Stage(x.seen) < Stage(entries[x.id].status)
  /\ \A write \in x.writes :
       /\ write[1] \in EntryIds
       /\ entries[write[1]].status = "waiting" => write[2] >= 1

IInv ==
  /\ TypeOK
  /\ TokensConsecutive
  /\ WaitingHasPosition
  /\ OneWinner
  /\ \A r \in Requests : LocalsOK(request[r])

\* What no step undoes: entries are kept, and their status never goes back.
Onward ==
  /\ Len(entries') >= Len(entries)
  /\ \A i \in EntryIds :
       /\ Stage(entries[i].status) <= Stage(entries'[i].status)
       /\ entries'[i].status = "waiting" => entries[i].status = "waiting"

-----------------------------------------------------------------------------
(* Lemmas about the operators of the model.                                *)

\* The stages of the statuses, and the direction of the transition table
\* (queueProcessingService.js:13-18).
LEMMA StageFacts ==
  /\ \A s \in EntryStatuses : Stage(s) \in 0 .. 4
  /\ Stage("waiting") = 0
  /\ Stage("none") = 4
  /\ \A s \in EntryStatuses \ {"waiting"} : Stage(s) > 0
  /\ \A s \in TerminalStatuses : Stage(s) = 4
  /\ \A s, t : <<s, t>> \in allowed =>
       /\ s \in ActiveStatuses
       /\ t \in EntryStatuses \ {"waiting"}
       /\ Stage(s) < Stage(t)
  BY DEF Stage, Lifecycle!Stage, EntryStatuses, ActiveStatuses,
         TerminalStatuses, allowed

\* What the type of the store says of one entry.
LEMMA EntryType ==
  ASSUME StoreTypeOK
  PROVE  /\ Len(entries) \in Nat
         /\ EntryIds = 1 .. Len(entries)
         /\ \A i \in EntryIds :
              /\ entries[i] \in Entry
              /\ entries[i].status \in EntryStatuses
              /\ entries[i].position \in Nat
              /\ Stage(entries[i].status) \in 0 .. 4
<1>1. entries \in Seq(Entry) /\ EntryIds = 1 .. Len(entries)
  BY DEF StoreTypeOK, EntryIds
<1>2. \A i \in EntryIds : entries[i] \in Entry
  BY <1>1
<1>3. \A i \in EntryIds :
        entries[i].status \in EntryStatuses /\ entries[i].position \in Nat
  BY <1>2 DEF Entry
<1> QED
  BY <1>1, <1>2, <1>3, StageFacts

\* The number of entries in some statuses is a number.
LEMMA CountType ==
  ASSUME StoreTypeOK, NEW S
  PROVE  /\ FindByStatus(S) \subseteq EntryIds
         /\ IsFiniteSet(FindByStatus(S))
         /\ CountByStatus(S) \in Nat
<1>1. FindByStatus(S) \subseteq EntryIds
  BY DEF FindByStatus
<1>2. EntryIds = 1 .. Len(entries) /\ Len(entries) \in Nat
  BY DEF StoreTypeOK, EntryIds
<1>3. IsFiniteSet(EntryIds)
  BY <1>2, FS_Interval
<1>4. IsFiniteSet(FindByStatus(S))
  BY <1>1, <1>3, FS_Subset
<1> QED
  BY <1>1, <1>4, FS_CardinalityType DEF CountByStatus

\* nextTokenNumber while the tokens are 1, ..., n (queueEntryRepository.js:25).
LEMMA NextToken ==
  ASSUME StoreTypeOK, TokensConsecutive
  PROVE  NextTokenNumber = Len(entries) + 1
<1>1. Len(entries) \in Nat /\ EntryIds = 1 .. Len(entries)
  BY DEF StoreTypeOK, EntryIds
<1>2. IssuedTokens = 0 .. Len(entries)
  BY <1>1 DEF IssuedTokens, TokensConsecutive
<1>3. \A m \in IssuedTokens :
        (\A t \in IssuedTokens : t <= m) <=> m = Len(entries)
  BY <1>1, <1>2
<1>4. Len(entries) \in IssuedTokens
  BY <1>1, <1>2
<1>5. LargestToken = Len(entries)
  BY <1>3, <1>4 DEF LargestToken
<1> QED
  BY <1>5 DEF NextTokenNumber

\* A new entry goes to the end and leaves the others alone.
LEMMA InsertEntryEffect ==
  ASSUME StoreTypeOK, NEW c \in Customers, NEW n \in Nat \ {0}, NEW p \in Nat,
         InsertEntry(c, n, p)
  PROVE  /\ entries' \in Seq(Entry)
         /\ Len(entries') = Len(entries) + 1
         /\ \A j \in EntryIds : entries'[j] = entries[j]
         /\ entries'[Len(entries) + 1] =
              [customer |-> c, token |-> n, status |-> "waiting",
               position |-> p, deleted |-> FALSE]
<1> DEFINE e == [customer |-> c, token |-> n, status |-> "waiting",
                 position |-> p, deleted |-> FALSE]
<1>1. e \in Entry
  BY DEF Entry, EntryStatuses, ActiveStatuses
<1>2. entries \in Seq(Entry) /\ entries' = Append(entries, e)
  BY DEF StoreTypeOK, InsertEntry
<1> HIDE DEF e
<1>3. /\ entries' \in Seq(Entry)
      /\ Len(entries') = Len(entries) + 1
      /\ \A j \in 1 .. Len(entries) : entries'[j] = entries[j]
      /\ entries'[Len(entries) + 1] = e
  BY <1>1, <1>2
<1> QED
  BY <1>2, <1>3 DEF e, EntryIds

-----------------------------------------------------------------------------
(* One step of a request.                                                  *)

\* Of a request whose locals change from `old' to `new': it was past its
\* commit before, or it wins its compare-and-set now.
CommitEffect(old, new) ==
  Committed(new) =>
    \/ Committed(old) /\ new.id = old.id /\ new.seen = old.seen
    \/ new.id \in EntryIds /\ entries[new.id].status = new.seen

\* What is shown of every action of a request r.
StepEffect(r) ==
  /\ TypeOK'
  /\ Onward
  /\ TokensConsecutive'
  /\ WaitingHasPosition'
  /\ \A q \in Requests \ {r} : request'[q] = request[q]
  /\ LocalsOK(request[r])'
  /\ CommitEffect(request[r], request'[r])

\* What the induction hypothesis says to a step of r.
LEMMA Hypothesis ==
  ASSUME IInv, NEW r \in Requests
  PROVE  /\ request[r] \in Request
         /\ LocalsOK(request[r])
         /\ queue \in Queue
         /\ StoreTypeOK
         /\ Len(entries) \in Nat
         /\ EntryIds = 1 .. Len(entries)
<1>1. StoreTypeOK /\ queue \in Queue
  BY DEF IInv, TypeOK, StoreTypeOK
<1> QED
  BY <1>1, EntryType DEF IInv, TypeOK

LEMMA ContinueEffect ==
  ASSUME IInv, NEW r \in Requests, NEW new \in Request, Continue(r, new)
  PROVE  /\ request' \in [Requests -> Request]
         /\ request'[r] = new
         /\ \A q \in Requests \ {r} : request'[q] = request[q]
<1>1. request \in [Requests -> Request] /\ request' = [request EXCEPT ![r] = new]
  BY DEF IInv, TypeOK, Continue
<1> QED
  BY <1>1

\* A step that writes no entry need only be right about its own request.
LEMMA ReadStep ==
  ASSUME IInv, NEW r \in Requests, NEW new \in Request, Continue(r, new),
         queue' \in Queue, UNCHANGED entries,
         LocalsOK(new), CommitEffect(request[r], new)
  PROVE  StepEffect(r)
<1>1. /\ request' \in [Requests -> Request]
      /\ request'[r] = new
      /\ \A q \in Requests \ {r} : request'[q] = request[q]
  BY ContinueEffect
<1>2. TypeOK'
  BY <1>1 DEF IInv, TypeOK, StoreTypeOK
<1>3. Onward
  <2>1. StoreTypeOK
    BY DEF IInv, TypeOK
  <2> QED
    BY <2>1, EntryType DEF Onward
<1>4. TokensConsecutive' /\ WaitingHasPosition'
  BY DEF IInv, TokensConsecutive, WaitingHasPosition, EntryIds
<1>5. LocalsOK(request[r])'
  BY <1>1 DEF LocalsOK, Committed, EntryIds
<1> QED
  BY <1>1, <1>2, <1>3, <1>4, <1>5 DEF StepEffect

\* Idle is a legal state of a request and claims nothing.
LEMMA IdleOK ==
  /\ Idle \in Request
  /\ LocalsOK(Idle)
  /\ \A old : CommitEffect(old, Idle)
<1>1. Idle \in Request
  BY DEF Idle, Request, ProgramCounters, Kinds
<1>2. LocalsOK(Idle)
  BY DEF Idle, LocalsOK, Committed
<1> QED
  BY <1>1, <1>2 DEF Idle, CommitEffect, Committed

LEMMA RespondStep ==
  ASSUME IInv, NEW r \in Requests, Respond(r),
         queue' \in Queue, UNCHANGED entries
  PROVE  StepEffect(r)
BY IdleOK, ReadStep DEF Respond

\* The steps of join (queueEntryService.js:23-46).
LEMMA JoinEffect ==
  ASSUME IInv, NEW r \in Requests, NEW c \in Customers, Join(r, c)
  PROVE  StepEffect(r)
<1> DEFINE new == [request[r] EXCEPT !.pc = "findActiveByCustomer",
                                     !.kind = "join", !.customer = c]
<1>1. Continue(r, new) /\ UNCHANGED store
  BY DEF Join
<1>2. new \in Request
  <2>1. "findActiveByCustomer" \in ProgramCounters /\ "join" \in Kinds
    BY DEF ProgramCounters, Kinds
  <2> QED
    BY <2>1, Hypothesis, ZenonT(40) DEF Request
<1>3. LocalsOK(new) /\ CommitEffect(request[r], new)
  BY Hypothesis, ZenonT(40) DEF LocalsOK, Committed, CommitEffect, Request
<1> HIDE DEF new
<1> QED
  BY <1>1, <1>2, <1>3, Hypothesis, ReadStep DEF store

\* Where only the program counter moves on.
LEMMA AwaitEffect ==
  ASSUME IInv, NEW r \in Requests, NEW pc \in ProgramCounters, Await(r, pc),
         UNCHANGED store,
         LocalsOK([request[r] EXCEPT !.pc = pc]),
         request[r].pc \notin {"findNextWaiting", "commit"}
  PROVE  StepEffect(r)
<1> DEFINE new == [request[r] EXCEPT !.pc = pc]
<1>1. Continue(r, new)
  BY DEF Await
<1>2. new \in Request
  BY Hypothesis DEF Request
<1>3. CommitEffect(request[r], new)
  BY Hypothesis DEF CommitEffect, Committed, Request
<1>4. LocalsOK(new)
  OBVIOUS
<1> HIDE DEF new
<1> QED
  BY <1>1, <1>2, <1>3, <1>4, Hypothesis, ReadStep DEF store

LEMMA CheckCustomerEffect ==
  ASSUME IInv, NEW r \in Requests, CheckCustomer(r)
  PROVE  StepEffect(r)
<1>1. CASE HasActiveEntry(request[r].customer)
  BY <1>1, RespondStep, Hypothesis DEF CheckCustomer, store
<1>2. CASE ~HasActiveEntry(request[r].customer)
  <2>1. LocalsOK([request[r] EXCEPT !.pc = "countActive"])
    BY Hypothesis, ZenonT(40) DEF LocalsOK, Committed, CheckCustomer, Request
  <2> QED
    BY <1>2, <2>1, AwaitEffect DEF CheckCustomer, ProgramCounters
<1> QED
  BY <1>1, <1>2

LEMMA CheckCapacityEffect ==
  ASSUME IInv, NEW r \in Requests, CheckCapacity(r)
  PROVE  StepEffect(r)
<1>1. CASE CountActive >= MaximumCapacity
  BY <1>1, RespondStep, Hypothesis DEF CheckCapacity, store
<1>2. CASE ~(CountActive >= MaximumCapacity)
  <2>1. LocalsOK([request[r] EXCEPT !.pc = "nextTokenNumber"])
    BY Hypothesis, ZenonT(40) DEF LocalsOK, Committed, CheckCapacity, Request
  <2> QED
    BY <1>2, <2>1, AwaitEffect DEF CheckCapacity, ProgramCounters
<1> QED
  BY <1>1, <1>2

LEMMA ReadTokenEffect ==
  ASSUME IInv, NEW r \in Requests, ReadToken(r)
  PROVE  StepEffect(r)
<1> DEFINE pc == IF request[r].attempt = 0 THEN "position" ELSE "create"
           token == NextTokenNumber
           new == [request[r] EXCEPT !.token = token, !.pc = pc]
<1>1. Continue(r, new) /\ UNCHANGED store
  BY DEF ReadToken
<1>2. request[r].pc = "nextTokenNumber"
  BY DEF ReadToken
<1>3. token = Len(entries) + 1 /\ token \in Nat
  BY NextToken, Hypothesis DEF IInv
<1>4. /\ pc \in {"position", "create"} /\ pc \in ProgramCounters
      /\ pc = "create" => request[r].attempt # 0
  BY DEF ProgramCounters
<1> HIDE DEF pc, token
<1>5. new \in Request
  BY <1>3, <1>4, Hypothesis, ZenonT(40) DEF Request
<1>6. LocalsOK(new) /\ CommitEffect(request[r], new)
  BY <1>2, <1>3, <1>4, Hypothesis
  DEF LocalsOK, Committed, CommitEffect, Request
<1> HIDE DEF new
<1> QED
  BY <1>1, <1>5, <1>6, Hypothesis, ReadStep DEF store

LEMMA ReadPositionEffect ==
  ASSUME IInv, NEW r \in Requests, ReadPosition(r)
  PROVE  StepEffect(r)
<1> DEFINE place == CountActive + 1
           new == [request[r] EXCEPT !.pc = "create", !.place = place]
<1>1. Continue(r, new) /\ UNCHANGED store /\ request[r].pc = "position"
  BY DEF ReadPosition
<1>2. place \in Nat /\ place >= 1
  BY CountType, Hypothesis DEF CountActive
<1> HIDE DEF place
<1>3. new \in Request
  <2>1. "create" \in ProgramCounters
    BY DEF ProgramCounters
  <2> QED
    BY <2>1, <1>2, Hypothesis, ZenonT(40) DEF Request
<1>4. LocalsOK(new) /\ CommitEffect(request[r], new)
  BY <1>1, <1>2, Hypothesis, ZenonT(40)
  DEF LocalsOK, Committed, CommitEffect, Request
<1> HIDE DEF new
<1> QED
  BY <1>1, <1>3, <1>4, Hypothesis, ReadStep DEF store

LEMMA TokenConflictEffect ==
  ASSUME IInv, NEW r \in Requests, TokenConflict(r)
  PROVE  StepEffect(r)
<1>1. CASE request[r].attempt = 2
  BY <1>1, RespondStep, Hypothesis DEF TokenConflict, store
<1>2. CASE request[r].attempt # 2
  <2> DEFINE new == [request[r] EXCEPT !.pc = "nextTokenNumber",
                                       !.attempt = request[r].attempt + 1]
  <2>1. Continue(r, new) /\ UNCHANGED store /\ request[r].pc = "create"
    BY <1>2 DEF TokenConflict
  <2>2. new \in Request
    <3>1. "nextTokenNumber" \in ProgramCounters
      BY DEF ProgramCounters
    <3>2. request[r].attempt + 1 \in 0 .. 2
      BY <1>2, Hypothesis DEF Request
    <3> QED
      BY <3>1, <3>2, Hypothesis, ZenonT(40) DEF Request
  <2>3. LocalsOK(new) /\ CommitEffect(request[r], new)
    BY <2>1, Hypothesis, ZenonT(40) DEF LocalsOK, Committed, CommitEffect, Request
  <2> HIDE DEF new
  <2> QED
    BY <2>1, <2>2, <2>3, Hypothesis, ReadStep DEF store
<1> QED
  BY <1>1, <1>2

\* The reading steps of leave, cancel and remove
\* (queueEntryService.js:54-72).
LEMMA WithdrawEffect ==
  ASSUME IInv, NEW r \in Requests, NEW op \in {"leave", "cancel"},
         NEW i \in EntryIds, Withdraw(r, op, i)
  PROVE  StepEffect(r)
<1> DEFINE to == WithdrawalStatus[op]
           new == [request[r] EXCEPT !.pc = "withdraw", !.id = i,
                                     !.kind = "withdraw", !.to = to]
<1>1. Continue(r, new) /\ UNCHANGED store
  BY DEF Withdraw
<1>2. to \in {"left", "cancelled"} /\ i \in Nat
  BY Hypothesis DEF WithdrawalStatus
<1> HIDE DEF to
<1>3. new \in Request
  <2>1. /\ "withdraw" \in ProgramCounters
        /\ "withdraw" \in Kinds
        /\ to \in EntryStatuses
    BY <1>2 DEF ProgramCounters, Kinds, EntryStatuses, TerminalStatuses
  <2> QED
    BY <2>1, <1>2, Hypothesis, ZenonT(40) DEF Request
<1>4. LocalsOK(new) /\ CommitEffect(request[r], new)
  BY <1>2, Hypothesis, ZenonT(40) DEF LocalsOK, Committed, CommitEffect, Request
<1> HIDE DEF new
<1> QED
  BY <1>1, <1>3, <1>4, Hypothesis, ReadStep DEF store

LEMMA RemoveEffect ==
  ASSUME IInv, NEW r \in Requests, NEW i \in EntryIds, Remove(r, i)
  PROVE  StepEffect(r)
<1> DEFINE new == [request[r] EXCEPT !.pc = "remove", !.kind = "remove", !.id = i]
<1>1. Continue(r, new) /\ UNCHANGED store
  BY DEF Remove
<1>2. new \in Request
  <2>1. "remove" \in ProgramCounters /\ "remove" \in Kinds /\ i \in Nat
    BY Hypothesis DEF ProgramCounters, Kinds
  <2> QED
    BY <2>1, Hypothesis, ZenonT(40) DEF Request
<1>3. LocalsOK(new) /\ CommitEffect(request[r], new)
  BY Hypothesis, ZenonT(40) DEF LocalsOK, Committed, CommitEffect, Request
<1> HIDE DEF new
<1> QED
  BY <1>1, <1>2, <1>3, Hypothesis, ReadStep DEF store

\* The reading steps of transitionEntry and its callers
\* (queueProcessingService.js:47-68).
LEMMA CallNextEffect ==
  ASSUME IInv, NEW r \in Requests, CallNext(r)
  PROVE  StepEffect(r)
<1> DEFINE new == [request[r] EXCEPT !.pc = "findNextWaiting",
                                     !.kind = "transition"]
<1>1. Continue(r, new) /\ UNCHANGED store
  BY DEF CallNext
<1>2. new \in Request
  <2>1. "findNextWaiting" \in ProgramCounters /\ "transition" \in Kinds
    BY DEF ProgramCounters, Kinds
  <2> QED
    BY <2>1, Hypothesis, ZenonT(40) DEF Request
<1>3. LocalsOK(new) /\ CommitEffect(request[r], new)
  BY Hypothesis DEF LocalsOK, Committed, CommitEffect, Request
<1> HIDE DEF new
<1> QED
  BY <1>1, <1>2, <1>3, Hypothesis, ReadStep DEF store

LEMMA FindNextWaitingEffect ==
  ASSUME IInv, NEW r \in Requests, FindNextWaiting(r)
  PROVE  StepEffect(r)
<1>1. CASE Respond(r)
  BY <1>1, RespondStep, Hypothesis DEF FindNextWaiting, store
<1>2. ASSUME NEW i \in NextWaiting,
             Continue(r, [request[r] EXCEPT !.pc = "commit", !.id = i,
                                            !.seen = "waiting", !.to = "called"])
      PROVE  StepEffect(r)
  <2> DEFINE new == [request[r] EXCEPT !.pc = "commit", !.id = i,
                                       !.seen = "waiting", !.to = "called"]
  <2>1. request[r].pc = "findNextWaiting" /\ UNCHANGED store
    BY DEF FindNextWaiting
  <2>2. i \in EntryIds /\ i \in Nat
    BY Hypothesis DEF NextWaiting, FindByStatus
  <2>3. new \in Request
    <3>1. /\ "commit" \in ProgramCounters
          /\ "waiting" \in EntryStatuses /\ "called" \in EntryStatuses
      BY DEF ProgramCounters, EntryStatuses, ActiveStatuses
    <3> QED
      BY <3>1, <2>2, Hypothesis, ZenonT(40) DEF Request
  <2>4. <<"waiting", "called">> \in allowed
    BY DEF allowed
  <2>5. LocalsOK(new) /\ CommitEffect(request[r], new)
    BY <2>1, <2>2, <2>4, Hypothesis, ZenonT(40)
    DEF LocalsOK, Committed, CommitEffect, Request
  <2> HIDE DEF new
  <2>6. Continue(r, new)
    BY <1>2 DEF new
  <2> QED
    BY <2>1, <2>3, <2>5, <2>6, Hypothesis, ReadStep DEF store
<1> QED
  BY <1>1, <1>2 DEF FindNextWaiting

LEMMA ProcessEntryEffect ==
  ASSUME IInv, NEW r \in Requests, NEW op \in EntryOperations,
         NEW i \in EntryIds, ProcessEntry(r, op, i)
  PROVE  StepEffect(r)
<1> DEFINE seen == entries[i].status
           to == Target(op, entries[i].status)
           new == [request[r] EXCEPT !.pc = "commit", !.id = i,
                                     !.kind = "transition",
                                     !.seen = seen, !.to = to]
<1>1. Continue(r, new) /\ UNCHANGED store /\ <<seen, to>> \in allowed
  BY DEF ProcessEntry
<1>2. i \in Nat /\ seen \in EntryStatuses
  BY Hypothesis, EntryType
<1> HIDE DEF seen, to
<1>3. to \in EntryStatuses
  BY <1>1, StageFacts
<1>4. new \in Request
  <2>1. "commit" \in ProgramCounters /\ "transition" \in Kinds
    BY DEF ProgramCounters, Kinds
  <2> QED
    BY <2>1, <1>2, <1>3, Hypothesis, ZenonT(40) DEF Request
<1>5. LocalsOK(new) /\ CommitEffect(request[r], new)
  BY <1>1, Hypothesis, ZenonT(40) DEF LocalsOK, Committed, CommitEffect, Request
<1> HIDE DEF new
<1> QED
  BY <1>1, <1>4, <1>5, Hypothesis, ReadStep DEF store

\* The entry into recalculate: of the locals, only the entry that was
\* committed matters to the invariant.
Entered(kind, id, seen, hasQueue) ==
  [Idle EXCEPT !.pc = "findActiveOrdered", !.kind = kind, !.id = id,
               !.seen = seen, !.hasQueue = hasQueue]

LEMMA EnteredOK ==
  ASSUME NEW kind \in Kinds, NEW id \in Nat,
         NEW seen \in EntryStatuses \cup {"none"}, NEW hasQueue \in BOOLEAN
  PROVE  /\ Entered(kind, id, seen, hasQueue) \in Request
         /\ Entered(kind, id, seen, hasQueue).pc = "findActiveOrdered"
         /\ Entered(kind, id, seen, hasQueue).kind = kind
         /\ Entered(kind, id, seen, hasQueue).id = id
         /\ Entered(kind, id, seen, hasQueue).seen = seen
         /\ Entered(kind, id, seen, hasQueue).writes = {}
         /\ Entered(kind, id, seen, hasQueue).attempt = 0
<1>1. Idle \in Request /\ "findActiveOrdered" \in ProgramCounters
  BY IdleOK DEF ProgramCounters
<1> QED
  BY <1>1 DEF Idle, Request, Entered

LEMMA FindQueueEffect ==
  ASSUME IInv, NEW r \in Requests, FindQueue(r)
  PROVE  StepEffect(r)
<1> DEFINE new == Entered("withdraw", request[r].id, "none", QueueExists)
<1>1. Continue(r, new) /\ UNCHANGED store
  BY DEF FindQueue, Recalculating, Entered
<1>2. /\ "withdraw" \in Kinds /\ request[r].id \in Nat
      /\ QueueExists \in BOOLEAN
  BY Hypothesis DEF Kinds, Request, QueueExists, Queue
<1>3. /\ new \in Request /\ new.pc = "findActiveOrdered"
      /\ new.kind = "withdraw" /\ new.writes = {} /\ new.attempt = 0
  BY <1>2, EnteredOK
<1> HIDE DEF new
<1>4. LocalsOK(new) /\ CommitEffect(request[r], new)
  BY <1>3 DEF LocalsOK, Committed, CommitEffect
<1> QED
  BY <1>1, <1>3, <1>4, Hypothesis, ReadStep DEF store

LEMMA GetQueueEffect ==
  ASSUME IInv, NEW r \in Requests, GetQueue(r)
  PROVE  StepEffect(r)
<1>1. CASE ~QueueExists
  BY <1>1, RespondStep, Hypothesis DEF GetQueue, store
<1>2. CASE QueueExists
  <2>0. PICK found \in BOOLEAN :
          Continue(r, Entered("transition", request[r].id, request[r].seen,
                              found))
    BY <1>2 DEF GetQueue, Recalculating, Entered
  <2> DEFINE new == Entered("transition", request[r].id, request[r].seen, found)
  <2>1. Continue(r, new) /\ UNCHANGED store /\ request[r].pc = "getQueue"
    BY <1>2, <2>0 DEF GetQueue
  <2>2. /\ "transition" \in Kinds /\ request[r].id \in Nat
        /\ request[r].seen \in EntryStatuses \cup {"none"}
    BY Hypothesis DEF Kinds, Request
  <2>3. /\ new \in Request
        /\ new.pc = "findActiveOrdered"
        /\ new.kind = "transition"
        /\ new.id = request[r].id
        /\ new.seen = request[r].seen
        /\ new.writes = {}
        /\ new.attempt = 0
    BY <2>2, EnteredOK
  <2> HIDE DEF new
  <2>4. Committed(request[r])
    BY <2>1, Hypothesis DEF LocalsOK, Committed
  <2>5. LocalsOK(new) /\ CommitEffect(request[r], new)
    BY <2>3, <2>4, Hypothesis DEF LocalsOK, Committed, CommitEffect
  <2> QED
    BY <2>1, <2>3, <2>5, Hypothesis, ReadStep DEF store
<1> QED
  BY <1>1, <1>2

\* The steps of recalculate (queueProcessingService.js:22-45).
\* What it is going to write: an existing entry, and 0 only to one that is
\* not waiting.
LEMMA NewPositionsOK ==
  ASSUME StoreTypeOK
  PROVE  /\ NewPositions \subseteq Nat \X Nat
         /\ \A write \in NewPositions :
              /\ write[1] \in EntryIds
              /\ entries[write[1]].status = "waiting" => write[2] >= 1
<1> DEFINE Ahead(i) == {j \in Waiting : Before(j, i)}
<1>1. EntryIds \subseteq Nat
  BY EntryType
<1>2. \A i : Cardinality(Ahead(i)) \in Nat
  <2>1. IsFiniteSet(Waiting)
    BY CountType DEF Waiting
  <2>2. \A i : IsFiniteSet(Ahead(i))
    BY <2>1, FS_Subset
  <2> QED
    BY <2>2, FS_CardinalityType
<1> HIDE DEF Ahead
<1>3. NewPositions = {<<i, 1 + Cardinality(Ahead(i))>> : i \in Waiting}
                      \cup ((FindByStatus(ActiveStatuses) \ Waiting) \X {0})
  BY DEF NewPositions, Ahead
<1>4. ASSUME NEW write \in NewPositions
      PROVE  /\ write \in Nat \X Nat
             /\ write[1] \in EntryIds
             /\ entries[write[1]].status = "waiting" => write[2] >= 1
  <2>1. CASE \E i \in Waiting : write = <<i, 1 + Cardinality(Ahead(i))>>
    BY <1>1, <1>2, <2>1 DEF Waiting, FindByStatus
  <2>2. CASE write \in (FindByStatus(ActiveStatuses) \ Waiting) \X {0}
    <3>1. PICK i \in FindByStatus(ActiveStatuses) \ Waiting : write = <<i, 0>>
      BY <2>2
    <3>2. i \in EntryIds /\ entries[i].status # "waiting"
      BY DEF Waiting, FindByStatus
    <3> QED
      BY <1>1, <3>1, <3>2
  <2> QED
    BY <1>3, <1>4, <2>1, <2>2
<1> QED
  BY <1>4

LEMMA FindActiveOrderedEffect ==
  ASSUME IInv, NEW r \in Requests, FindActiveOrdered(r)
  PROVE  StepEffect(r)
<1>1. CASE ~request[r].hasQueue /\ Waiting # {}
  BY <1>1, RespondStep, Hypothesis DEF FindActiveOrdered, store
<1>2. CASE ~(~request[r].hasQueue /\ Waiting # {})
  <2> DEFINE pc == IF NewPositions = {} THEN "count" ELSE "writePositions"
             new == [request[r] EXCEPT !.writes = NewPositions, !.pc = pc]
  <2>1. /\ Continue(r, new) /\ UNCHANGED store
        /\ request[r].pc = "findActiveOrdered"
    BY <1>2 DEF FindActiveOrdered
  <2>2. pc \in {"count", "writePositions"} /\ pc \in ProgramCounters
    BY DEF ProgramCounters
  <2> HIDE DEF pc
  <2>3. new \in Request
    BY <2>2, NewPositionsOK, Hypothesis, ZenonT(40) DEF Request
  <2>4. LocalsOK(new) /\ CommitEffect(request[r], new)
    BY <2>1, <2>2, NewPositionsOK, Hypothesis, ZenonT(40)
    DEF LocalsOK, Committed, CommitEffect, Request
  <2> HIDE DEF new
  <2> QED
    BY <2>1, <2>3, <2>4, Hypothesis, ReadStep DEF store
<1> QED
  BY <1>1, <1>2

LEMMA CountEffect ==
  ASSUME IInv, NEW r \in Requests, NEW field \in {"length", "served"},
         Count(r, field)
  PROVE  StepEffect(r)
<1> DEFINE counted == request[r].counted \cup {field}
           length == IF field = "length" THEN CountActive ELSE request[r].length
           served == IF field = "served" THEN CountByStatus({"completed"})
                                         ELSE request[r].served
           pc == IF counted = {"length", "served"} THEN "writeStatistics"
                                                   ELSE request[r].pc
           new == [request[r] EXCEPT !.counted = counted, !.length = length,
                                     !.served = served, !.pc = pc]
<1>1. Continue(r, new) /\ UNCHANGED store /\ request[r].pc = "count"
  BY DEF Count
<1>2. pc \in {"count", "writeStatistics"} /\ pc \in ProgramCounters
  BY <1>1 DEF ProgramCounters
<1>3. counted \in SUBSET {"length", "served"} /\ length \in Nat /\ served \in Nat
  <2>1. CountActive \in Nat /\ CountByStatus({"completed"}) \in Nat
    BY CountType, Hypothesis DEF CountActive
  <2> QED
    BY <2>1, Hypothesis DEF Request
<1> HIDE DEF counted, length, served, pc
<1>4. new \in Request
  BY <1>2, <1>3, Hypothesis, ZenonT(40) DEF Request
<1>5. LocalsOK(new) /\ CommitEffect(request[r], new)
  BY <1>1, <1>2, Hypothesis, ZenonT(40)
  DEF LocalsOK, Committed, CommitEffect, Request
<1> HIDE DEF new
<1> QED
  BY <1>1, <1>4, <1>5, Hypothesis, ReadStep DEF store

LEMMA WriteStatisticsEffect ==
  ASSUME IInv, NEW r \in Requests, WriteStatistics(r)
  PROVE  StepEffect(r)
<1>1. queue' \in Queue
  <2>1. request[r].length \in Nat /\ request[r].served \in Nat
    BY Hypothesis DEF Request
  <2> QED
    BY <2>1, Hypothesis DEF WriteStatistics, UpdateStatistics, Queue
<1> QED
  BY <1>1, RespondStep DEF WriteStatistics

-----------------------------------------------------------------------------
(* The steps that write an entry.                                          *)

\* What a request knows survives whatever moves the entries onward.
LEMMA Kept ==
  ASSUME StoreTypeOK, StoreTypeOK', Onward, NEW x \in Request, LocalsOK(x)
  PROVE  LocalsOK(x)'
<1>1. /\ Len(entries) \in Nat /\ EntryIds = 1 .. Len(entries)
      /\ \A i \in EntryIds : Stage(entries[i].status) \in 0 .. 4
  BY EntryType
<1>2. /\ Len(entries') \in Nat /\ EntryIds' = 1 .. Len(entries')
      /\ entries' \in Seq(Entry)
  BY DEF StoreTypeOK, EntryIds
<1>3. /\ EntryIds \subseteq EntryIds'
      /\ 1 .. Len(entries) + 1 \subseteq 1 .. Len(entries') + 1
  BY <1>1, <1>2 DEF Onward
<1>4. ASSUME Committed(x)
      PROVE  /\ x.id \in EntryIds'
             /\ Stage(x.seen) < Stage(entries'[x.id].status)
  <2>1. x.id \in EntryIds /\ Stage(x.seen) < Stage(entries[x.id].status)
    BY <1>4 DEF LocalsOK
  <2>2. entries'[x.id].status \in EntryStatuses
    <3>1. x.id \in 1 .. Len(entries')
      BY <1>2, <1>3, <2>1
    <3>2. entries'[x.id] \in Entry
      BY <1>2, <3>1, ElementOfSeq
    <3> QED
      BY <3>2 DEF Entry
  <2>3. Stage(x.seen) \in 0 .. 4 /\ Stage(entries'[x.id].status) \in 0 .. 4
    BY <2>2, StageFacts DEF Request
  <2>4. Stage(entries[x.id].status) <= Stage(entries'[x.id].status)
    BY <2>1 DEF Onward
  <2> QED
    BY <1>1, <1>3, <2>1, <2>3, <2>4
<1>5. ASSUME NEW write \in x.writes
      PROVE  /\ write[1] \in EntryIds'
             /\ entries'[write[1]].status = "waiting" => write[2] >= 1
  BY <1>3 DEF LocalsOK, Onward
<1>6. Committed(x)' = Committed(x)
  BY DEF Committed
<1> QED
  BY <1>3, <1>4, <1>5, <1>6 DEF LocalsOK

LEMMA WriteStep ==
  ASSUME IInv, NEW r \in Requests, NEW new \in Request, Continue(r, new),
         StoreTypeOK', Onward, TokensConsecutive', WaitingHasPosition',
         LocalsOK(request[r])', CommitEffect(request[r], new)
  PROVE  StepEffect(r)
<1>1. /\ request' \in [Requests -> Request]
      /\ request'[r] = new
      /\ \A q \in Requests \ {r} : request'[q] = request[q]
  BY ContinueEffect
<1> QED
  BY <1>1 DEF StepEffect, TypeOK

\* An entry gets a new version that respects the invariant.
LEMMA ReplaceEntry ==
  ASSUME IInv, NEW i \in EntryIds, NEW document \in Entry,
         UNCHANGED queue, entries' = [entries EXCEPT ![i] = document],
         document.token = entries[i].token,
         Stage(entries[i].status) <= Stage(document.status),
         document.status = "waiting" => /\ entries[i].status = "waiting"
                                        /\ document.position >= 1
  PROVE  /\ StoreTypeOK' /\ Onward
         /\ TokensConsecutive' /\ WaitingHasPosition'
         /\ EntryIds' = EntryIds
         /\ entries'[i] = document
<1>1. StoreTypeOK /\ TokensConsecutive /\ WaitingHasPosition
  BY DEF IInv, TypeOK
<1>2. /\ Len(entries) \in Nat /\ EntryIds = 1 .. Len(entries)
      /\ \A j \in EntryIds : Stage(entries[j].status) \in 0 .. 4
  BY <1>1, EntryType
<1>3. /\ entries' \in Seq(Entry)
      /\ Len(entries') = Len(entries)
      /\ \A j \in EntryIds : j # i => entries'[j] = entries[j]
      /\ entries'[i] = document
  BY <1>1, <1>2, ExceptSeq DEF StoreTypeOK
<1>4. EntryIds' = EntryIds
  BY <1>2, <1>3 DEF EntryIds
<1>5. StoreTypeOK'
  BY <1>1, <1>3 DEF StoreTypeOK
<1>6. Onward
  BY <1>2, <1>3 DEF Onward
<1>7. TokensConsecutive'
  BY <1>1, <1>3, <1>4 DEF TokensConsecutive
<1>8. WaitingHasPosition'
  BY <1>1, <1>3, <1>4 DEF WaitingHasPosition
<1> QED
  BY <1>3, <1>4, <1>5, <1>6, <1>7, <1>8

\* The insert of join (queueEntryService.js:41).
LEMMA CreateEntryEffect ==
  ASSUME IInv, NEW r \in Requests, CreateEntry(r)
  PROVE  StepEffect(r)
<1> DEFINE n == request[r].token
           c == request[r].customer
           p == request[r].place
<1>1. /\ request[r].pc = "create" /\ ~TokenTaken(n) /\ UNCHANGED queue
      /\ InsertEntry(c, n, p)
  BY DEF CreateEntry
<1>2. /\ StoreTypeOK /\ TokensConsecutive /\ WaitingHasPosition
      /\ Len(entries) \in Nat /\ EntryIds = 1 .. Len(entries)
      /\ \A j \in EntryIds : Stage(entries[j].status) \in 0 .. 4
  BY Hypothesis, EntryType DEF IInv
<1>3. c \in Customers /\ p \in Nat /\ p >= 1 /\ n \in 1 .. Len(entries) + 1
  BY <1>1, Hypothesis DEF LocalsOK, Request
<1>4. n = Len(entries) + 1
  BY <1>1, <1>2, <1>3 DEF TokenTaken, TokensConsecutive
<1> HIDE DEF n, c, p
<1>5. /\ entries' \in Seq(Entry)
      /\ Len(entries') = Len(entries) + 1
      /\ \A j \in EntryIds : entries'[j] = entries[j]
      /\ entries'[Len(entries) + 1] =
           [customer |-> c, token |-> n, status |-> "waiting",
            position |-> p, deleted |-> FALSE]
  <2>1. n \in Nat \ {0}
    BY <1>2, <1>3
  <2> QED
    BY <1>1, <1>2, <1>3, <2>1, InsertEntryEffect
<1>6. EntryIds' = 1 .. Len(entries) + 1
  BY <1>5 DEF EntryIds
<1>7. StoreTypeOK'
  BY <1>1, <1>2, <1>5 DEF StoreTypeOK
<1>8. Onward
  BY <1>2, <1>5 DEF Onward
<1>9. TokensConsecutive'
  BY <1>2, <1>4, <1>5, <1>6 DEF TokensConsecutive
<1>10. WaitingHasPosition'
  BY <1>2, <1>3, <1>5, <1>6 DEF WaitingHasPosition
<1>11. PICK found \in BOOLEAN :
         Continue(r, Entered("join", Len(entries) + 1, "none", found))
  BY DEF CreateEntry, Recalculating, Entered
<1> DEFINE new == Entered("join", Len(entries) + 1, "none", found)
<1>12. /\ new \in Request
       /\ new.pc = "findActiveOrdered"
       /\ new.kind = "join"
       /\ new.writes = {}
       /\ new.attempt = 0
  <2>1. "join" \in Kinds /\ Len(entries) + 1 \in Nat
    BY <1>2 DEF Kinds
  <2> QED
    BY <2>1, EnteredOK
<1> HIDE DEF new
<1>13. Continue(r, new)
  BY <1>11 DEF new
<1>14. request'[r] = new
  BY <1>12, <1>13, ContinueEffect
<1>15. LocalsOK(request[r])' /\ CommitEffect(request[r], new)
  BY <1>12, <1>14 DEF LocalsOK, Committed, CommitEffect
<1> QED
  BY <1>7, <1>8, <1>9, <1>10, <1>12, <1>13, <1>15, WriteStep

\* The compare-and-set of transitionEntry (queueProcessingService.js:51).
LEMMA CommitWriteEffect ==
  ASSUME IInv, NEW r \in Requests, Commit(r)
  PROVE  StepEffect(r)
<1> DEFINE i == request[r].id
           to == request[r].to
           position == IF to = "skipped" THEN 0 ELSE entries[i].position
           document == [entries[i] EXCEPT !.status = to, !.position = position]
<1>1. request[r].pc = "commit" /\ UNCHANGED queue
  BY DEF Commit
<1>2. i \in EntryIds /\ <<request[r].seen, to>> \in allowed
  BY <1>1, Hypothesis DEF LocalsOK
<1>3. CASE EntryExists(i) /\ entries[i].status = request[r].seen
  <2> DEFINE new == [request[r] EXCEPT !.pc = "getQueue"]
  <2>1. Continue(r, new) /\ entries' = [entries EXCEPT ![i] = document]
    BY <1>3 DEF Commit, UpdateEntry, Await
  <2>2. /\ entries[i] \in Entry /\ entries[i].position \in Nat
        /\ Stage(entries[i].status) \in 0 .. 4
    BY <1>2, Hypothesis, EntryType
  <2>3. /\ to \in EntryStatuses /\ to # "waiting"
        /\ Stage(request[r].seen) < Stage(to) /\ Stage(to) \in 0 .. 4
    BY <1>2, StageFacts
  <2>4. position \in Nat
    BY <2>2
  <2> HIDE DEF to, position
  <2>5. /\ document \in Entry /\ document.status = to
        /\ document.token = entries[i].token
    BY <2>2, <2>3, <2>4 DEF Entry
  <2> HIDE DEF document
  <2>6. /\ StoreTypeOK' /\ Onward /\ TokensConsecutive' /\ WaitingHasPosition'
        /\ EntryIds' = EntryIds /\ entries'[i] = document
    <3>1. Stage(entries[i].status) <= Stage(document.status)
      BY <1>3, <2>2, <2>3, <2>5
    <3> QED
      BY <1>1, <1>2, <2>1, <2>3, <2>5, <3>1, ReplaceEntry
  <2>7. /\ new \in Request /\ new.pc = "getQueue" /\ new.id = i
        /\ new.kind = request[r].kind /\ new.seen = request[r].seen
        /\ new.writes = request[r].writes
        /\ new.attempt = request[r].attempt /\ new.place = request[r].place
    <3>1. "getQueue" \in ProgramCounters
      BY DEF ProgramCounters
    <3> QED
      BY <3>1, Hypothesis DEF Request
  <2> HIDE DEF new
  <2>8. request'[r] = new
    BY <2>1, <2>7, ContinueEffect
  <2>9. PICK x \in Request : x = request[r]
    BY Hypothesis
  <2>10. LocalsOK(x) /\ LocalsOK(x)'
    BY <2>6, <2>9, Hypothesis, Kept
  <2>11. LocalsOK(request[r])'
    BY <1>1, <1>2, <2>3, <2>5, <2>6, <2>7, <2>8, <2>9, <2>10
    DEF LocalsOK, Committed
  <2>12. CommitEffect(request[r], new)
    BY <1>2, <1>3, <2>7 DEF CommitEffect
  <2> QED
    BY <2>1, <2>6, <2>7, <2>11, <2>12, WriteStep
<1>4. CASE ~(EntryExists(i) /\ entries[i].status = request[r].seen)
  BY <1>1, <1>4, Hypothesis, RespondStep DEF Commit, UpdateEntry
<1> QED
  BY <1>3, <1>4

\* One of the position updates of recalculate
\* (queueProcessingService.js:30-35).
LEMMA WritePositionEffect ==
  ASSUME IInv, NEW r \in Requests, NEW write \in request[r].writes,
         WritePosition(r, write)
  PROVE  StepEffect(r)
<1> DEFINE i == write[1]
           document == [entries[i] EXCEPT !.position = write[2]]
           left == request[r].writes \ {write}
           pc == IF left = {} THEN "count" ELSE request[r].pc
           new == [request[r] EXCEPT !.writes = left, !.pc = pc]
<1>1. /\ request[r].pc = "writePositions" /\ UNCHANGED queue
      /\ Continue(r, new)
      /\ UpdateEntry(i, TRUE, document)
  BY DEF WritePosition
<1>2. /\ i \in EntryIds /\ write[2] \in Nat
      /\ entries[i].status = "waiting" => write[2] >= 1
  BY Hypothesis DEF LocalsOK, Request
<1>3. /\ left \subseteq request[r].writes /\ left \in SUBSET (Nat \X Nat)
      /\ pc \in {"count", "writePositions"} /\ pc \in ProgramCounters
  BY <1>1, Hypothesis DEF Request, ProgramCounters
<1> HIDE DEF left, pc
<1>4. /\ new \in Request /\ new.pc = pc /\ new.writes = left
      /\ new.kind = request[r].kind /\ new.seen = request[r].seen
      /\ new.id = request[r].id
      /\ new.attempt = request[r].attempt /\ new.place = request[r].place
  BY <1>3, Hypothesis, ZenonT(40) DEF Request
<1> HIDE DEF new
<1>5. CommitEffect(request[r], new)
  BY <1>1, <1>4 DEF CommitEffect, Committed
<1>6. CASE EntryExists(i)
  <2>1. entries' = [entries EXCEPT ![i] = document]
    BY <1>1, <1>6 DEF UpdateEntry
  <2>2. entries[i] \in Entry /\ Stage(entries[i].status) \in 0 .. 4
    BY <1>2, Hypothesis, EntryType
  <2>3. /\ document \in Entry /\ document.status = entries[i].status
        /\ document.token = entries[i].token
        /\ document.position = write[2]
    BY <1>2, <2>2 DEF Entry
  <2> HIDE DEF document
  <2>4. /\ StoreTypeOK' /\ Onward /\ TokensConsecutive' /\ WaitingHasPosition'
        /\ EntryIds' = EntryIds
    <3>1. Stage(entries[i].status) <= Stage(document.status)
      BY <2>2, <2>3
    <3> QED
      BY <1>1, <1>2, <2>1, <2>2, <2>3, <3>1, ReplaceEntry
  <2>5. request'[r] = new
    BY <1>1, <1>4, ContinueEffect
  <2>6. PICK x \in Request : x = request[r]
    BY Hypothesis
  <2>7. LocalsOK(x) /\ LocalsOK(x)'
    BY <2>4, <2>6, Hypothesis, Kept
  <2>8. LocalsOK(request[r])'
    BY <1>1, <1>3, <1>4, <2>5, <2>6, <2>7 DEF LocalsOK, Committed
  <2> QED
    BY <1>1, <1>4, <1>5, <2>4, <2>8, WriteStep
<1>7. CASE ~EntryExists(i)
  <2>1. UNCHANGED entries
    BY <1>1, <1>7 DEF UpdateEntry
  <2>2. LocalsOK(new)
    BY <1>1, <1>3, <1>4, Hypothesis DEF LocalsOK, Committed
  <2> QED
    BY <1>1, <1>4, <1>5, <2>1, <2>2, Hypothesis, ReadStep
<1> QED
  BY <1>6, <1>7

\* The write of leave or cancel (queueEntryService.js:57, 66).
LEMMA WriteWithdrawalEffect ==
  ASSUME IInv, NEW r \in Requests, WriteWithdrawal(r)
  PROVE  StepEffect(r)
<1> DEFINE i == request[r].id
           to == request[r].to
           document == [entries[i] EXCEPT !.status = to, !.position = 0]
           new == [request[r] EXCEPT !.pc = "findQueue"]
<1>1. /\ request[r].pc = "withdraw" /\ UNCHANGED queue
      /\ Continue(r, new)
      /\ UpdateEntry(i, TRUE, document)
  BY DEF WriteWithdrawal, Await
<1>2. i \in EntryIds /\ to \in {"left", "cancelled"}
  BY <1>1, Hypothesis DEF LocalsOK
<1>3. /\ new \in Request /\ new.pc = "findQueue" /\ new.id = i
      /\ new.kind = request[r].kind /\ new.seen = request[r].seen
      /\ new.writes = request[r].writes
      /\ new.attempt = request[r].attempt /\ new.place = request[r].place
  <2>1. "findQueue" \in ProgramCounters
    BY DEF ProgramCounters
  <2> QED
    BY <2>1, Hypothesis DEF Request
<1> HIDE DEF new
<1>4. CommitEffect(request[r], new)
  BY <1>1, <1>3 DEF CommitEffect, Committed
<1>5. CASE EntryExists(i)
  <2>1. entries' = [entries EXCEPT ![i] = document]
    BY <1>1, <1>5 DEF UpdateEntry
  <2>2. entries[i] \in Entry /\ Stage(entries[i].status) \in 0 .. 4
    BY <1>2, Hypothesis, EntryType
  <2>3. to \in EntryStatuses /\ to # "waiting" /\ Stage(to) = 4
    BY <1>2, StageFacts DEF EntryStatuses, TerminalStatuses
  <2> HIDE DEF to
  <2>4. /\ document \in Entry /\ document.status = to
        /\ document.token = entries[i].token
    BY <2>2, <2>3 DEF Entry
  <2> HIDE DEF document
  <2>5. /\ StoreTypeOK' /\ Onward /\ TokensConsecutive' /\ WaitingHasPosition'
        /\ EntryIds' = EntryIds
    <3>1. Stage(entries[i].status) <= Stage(document.status)
      BY <2>2, <2>3, <2>4
    <3> QED
      BY <1>1, <1>2, <2>1, <2>3, <2>4, <3>1, ReplaceEntry
  <2>6. request'[r] = new
    BY <1>1, <1>3, ContinueEffect
  <2>7. PICK x \in Request : x = request[r]
    BY Hypothesis
  <2>8. LocalsOK(x) /\ LocalsOK(x)'
    BY <2>5, <2>7, Hypothesis, Kept
  <2>9. LocalsOK(request[r])'
    BY <1>1, <1>2, <1>3, <2>5, <2>6, <2>7, <2>8 DEF LocalsOK, Committed
  <2> QED
    BY <1>1, <1>3, <1>4, <2>5, <2>9, WriteStep
<1>6. CASE ~EntryExists(i)
  <2>1. UNCHANGED entries
    BY <1>1, <1>6 DEF UpdateEntry
  <2>2. LocalsOK(new)
    BY <1>1, <1>2, <1>3, Hypothesis DEF LocalsOK, Committed
  <2> QED
    BY <1>1, <1>3, <1>4, <2>1, <2>2, Hypothesis, ReadStep
<1> QED
  BY <1>5, <1>6

\* The soft delete of remove (queueEntryService.js:72).
LEMMA WriteRemovalEffect ==
  ASSUME IInv, NEW r \in Requests, WriteRemoval(r)
  PROVE  StepEffect(r)
<1> DEFINE i == request[r].id
           document == [entries[i] EXCEPT !.deleted = TRUE]
<1>1. /\ request[r].pc = "remove" /\ UNCHANGED queue /\ Respond(r)
      /\ UpdateEntry(i, TRUE, document)
  BY DEF WriteRemoval
<1>2. i \in EntryIds
  BY <1>1, Hypothesis DEF LocalsOK
<1>3. CASE EntryExists(i)
  <2>1. entries' = [entries EXCEPT ![i] = document]
    BY <1>1, <1>3 DEF UpdateEntry
  <2>2. /\ entries[i] \in Entry /\ Stage(entries[i].status) \in 0 .. 4
        /\ entries[i].status = "waiting" => entries[i].position >= 1
    BY <1>2, Hypothesis, EntryType DEF IInv, WaitingHasPosition
  <2>3. /\ document \in Entry /\ document.status = entries[i].status
        /\ document.token = entries[i].token
        /\ document.position = entries[i].position
    BY <2>2 DEF Entry
  <2> HIDE DEF document
  <2>4. /\ StoreTypeOK' /\ Onward /\ TokensConsecutive' /\ WaitingHasPosition'
    <3>1. Stage(entries[i].status) <= Stage(document.status)
      BY <2>2, <2>3
    <3> QED
      BY <1>1, <1>2, <2>1, <2>2, <2>3, <3>1, ReplaceEntry
  <2>5. request'[r] = Idle
    BY <1>1, IdleOK, ContinueEffect DEF Respond
  <2>6. LocalsOK(request[r])' /\ CommitEffect(request[r], Idle)
    BY <2>5 DEF Idle, LocalsOK, Committed, CommitEffect
  <2> QED
    BY <1>1, <2>4, <2>6, IdleOK, WriteStep DEF Respond
<1>4. CASE ~EntryExists(i)
  BY <1>1, <1>4, Hypothesis, RespondStep DEF UpdateEntry
<1> QED
  BY <1>3, <1>4

-----------------------------------------------------------------------------
(* The invariant is inductive.                                             *)

\* Every action of a request, whichever it is.
LEMMA RequestEffect ==
  ASSUME IInv, NEW r \in Requests,
         EntryRequest(r) \/ ProcessingRequest(r) \/ Step(r)
  PROVE  StepEffect(r)
<1>1. CASE EntryRequest(r)
  BY <1>1, JoinEffect, WithdrawEffect, RemoveEffect DEF EntryRequest
<1>2. CASE ProcessingRequest(r)
  BY <1>2, CallNextEffect, ProcessEntryEffect DEF ProcessingRequest
<1>3. CASE JoinStep(r)
  BY <1>3, CheckCustomerEffect, CheckCapacityEffect, ReadTokenEffect,
     ReadPositionEffect, CreateEntryEffect, TokenConflictEffect DEF JoinStep
<1>4. CASE WithdrawStep(r)
  BY <1>4, WriteWithdrawalEffect, FindQueueEffect, WriteRemovalEffect
  DEF WithdrawStep
<1>5. CASE TransitionStep(r)
  BY <1>5, FindNextWaitingEffect, CommitWriteEffect, GetQueueEffect
  DEF TransitionStep
<1>6. CASE RecalculateStep(r)
  BY <1>6, FindActiveOrderedEffect, WritePositionEffect, CountEffect,
     WriteStatisticsEffect DEF RecalculateStep
<1> QED
  BY <1>1, <1>2, <1>3, <1>4, <1>5, <1>6 DEF Step

\* No two requests win with the same entry in the same status: who wins finds
\* the status it read, and a former winner has moved the entry past it.
LEMMA OneWinnerKept ==
  ASSUME IInv, NEW r \in Requests, StepEffect(r)
  PROVE  OneWinner'
<1>1. AfterCommit(r)' = Committed(request'[r])
  BY DEF AfterCommit, Committed
<1>2. ASSUME NEW q \in Requests \ {r}, AfterCommit(q)', AfterCommit(r)',
             request'[q].id = request'[r].id,
             request'[q].seen = request'[r].seen
      PROVE  FALSE
  <2>1. /\ request'[q] = request[q] /\ Committed(request[q])
        /\ request[q].id = request'[r].id
        /\ request[q].seen = request'[r].seen
        /\ Committed(request'[r])
    BY <1>2 DEF StepEffect, AfterCommit, Committed
  <2>2. CASE /\ Committed(request[r])
             /\ request'[r].id = request[r].id
             /\ request'[r].seen = request[r].seen
    BY <2>1, <2>2 DEF IInv, OneWinner, AfterCommit, Committed
  <2>3. CASE entries[request'[r].id].status = request'[r].seen
    <3>1. LocalsOK(request[q]) /\ request[q] \in Request
      BY Hypothesis
    <3>2. Stage(request[q].seen) < Stage(entries[request[q].id].status)
      BY <2>1, <3>1 DEF LocalsOK
    <3>3. Stage(request[q].seen) < Stage(request[q].seen)
      BY <2>1, <2>3, <3>2
    <3>4. Stage(request[q].seen) \in 0 .. 4
      BY <3>1, StageFacts DEF Request
    <3> QED
      BY <3>3, <3>4
  <2> QED
    BY <2>1, <2>2, <2>3 DEF StepEffect, CommitEffect
<1>3. ASSUME NEW r1 \in Requests, NEW r2 \in Requests,
             AfterCommit(r1)', AfterCommit(r2)',
             request'[r1].id = request'[r2].id,
             request'[r1].seen = request'[r2].seen
      PROVE  r1 = r2
  <2>1. CASE r1 = r /\ r2 # r
    BY <1>2, <1>3, <2>1
  <2>2. CASE r2 = r /\ r1 # r
    BY <1>2, <1>3, <2>2
  <2>3. CASE r1 # r /\ r2 # r
    <3>1. request'[r1] = request[r1] /\ request'[r2] = request[r2]
      BY <2>3 DEF StepEffect
    <3> QED
      BY <1>3, <3>1 DEF IInv, OneWinner, AfterCommit
  <2> QED
    BY <2>1, <2>2, <2>3
<1> QED
  BY <1>3 DEF OneWinner

LEMMA InitIInv == Init => IInv
<1> SUFFICES ASSUME Init PROVE IInv
  OBVIOUS
<1>1. entries = <<>> /\ EntryIds = {}
  BY DEF Init, EntryIds
<1>2. TypeOK
  <2>1. queue \in Queue
    BY DEF Init, Queue, QueueStatuses
  <2>2. request \in [Requests -> Request]
    BY IdleOK DEF Init
  <2> QED
    BY <1>1, <2>1, <2>2 DEF TypeOK, StoreTypeOK
<1>3. TokensConsecutive /\ WaitingHasPosition
  BY <1>1 DEF TokensConsecutive, WaitingHasPosition
<1>4. OneWinner
  BY DEF Init, OneWinner, AfterCommit, Idle
<1>5. \A r \in Requests : LocalsOK(request[r])
  BY IdleOK DEF Init
<1> QED
  BY <1>2, <1>3, <1>4, <1>5 DEF IInv

LEMMA NextIInv == IInv /\ [Next]_vars => IInv'
<1> SUFFICES ASSUME IInv, [Next]_vars PROVE IInv'
  OBVIOUS
<1>1. ASSUME NEW r \in Requests,
             EntryRequest(r) \/ ProcessingRequest(r) \/ Step(r)
      PROVE  IInv'
  <2>1. StepEffect(r)
    BY <1>1, RequestEffect
  <2>2. StoreTypeOK /\ StoreTypeOK' /\ Onward
    BY <2>1 DEF StepEffect, IInv, TypeOK
  <2>3. ASSUME NEW q \in Requests PROVE LocalsOK(request[q])'
    <3>1. CASE q = r
      BY <2>1, <3>1 DEF StepEffect
    <3>2. CASE q # r
      <4>1. PICK x \in Request : x = request[q] /\ x = request'[q]
        BY <2>1, <3>2, Hypothesis DEF StepEffect
      <4>2. LocalsOK(x)'
        BY <2>2, <4>1, Hypothesis, Kept
      <4> QED
        BY <4>1, <4>2 DEF LocalsOK, Committed
    <3> QED
      BY <3>1, <3>2
  <2>4. OneWinner'
    BY <2>1, OneWinnerKept
  <2> QED
    BY <2>1, <2>3, <2>4 DEF StepEffect, IInv
<1>2. CASE Crash
  <2>1. request' = [r \in Requests |-> Idle] /\ UNCHANGED <<queue, entries>>
    BY <1>2 DEF Crash, store
  <2>2. TypeOK'
    BY <2>1, IdleOK DEF IInv, TypeOK, StoreTypeOK
  <2>3. TokensConsecutive' /\ WaitingHasPosition'
    BY <2>1 DEF IInv, TokensConsecutive, WaitingHasPosition, EntryIds
  <2>4. OneWinner'
    BY <2>1 DEF OneWinner, AfterCommit, Idle
  <2>5. \A r \in Requests : LocalsOK(request[r])'
    BY <2>1 DEF LocalsOK, Committed, Idle
  <2> QED
    BY <2>2, <2>3, <2>4, <2>5 DEF IInv
<1>3. CASE UNCHANGED vars
  BY <1>3 DEF vars, IInv, TypeOK, StoreTypeOK, TokensConsecutive,
              WaitingHasPosition, EntryIds, OneWinner, AfterCommit, LocalsOK,
              Committed
<1> QED
  BY <1>1, <1>2, <1>3 DEF Next

LEMMA Invariance == Spec => []IInv
  BY InitIInv, NextIInv, PTL DEF Spec

-----------------------------------------------------------------------------
(* The theorems.                                                           *)

\* Every reachable state is well-typed; in particular every number that
\* `recalculate' or `join' computes is a natural number.
THEOREM TypeCorrect == Spec => []TypeOK
<1>1. IInv => TypeOK
  BY DEF IInv
<1> QED
  BY <1>1, Invariance, PTL

\* Whatever joins, removals and crashes interleave, tokens are 1, 2, 3, ... in
\* the order of the documents (queueEntryService.js:32-46).
THEOREM TokensUnique == Spec => []TokensConsecutive
<1>1. IInv => TokensConsecutive
  BY DEF IInv
<1> QED
  BY <1>1, Invariance, PTL

\* No recalculation takes the place of an entry that is still waiting
\* (queueProcessingService.js:25-37).
THEOREM WaitingKeepsPosition == Spec => []WaitingHasPosition
<1>1. IInv => WaitingHasPosition
  BY DEF IInv
<1> QED
  BY <1>1, Invariance, PTL

\* Of any number of operators who read an entry in the same status only one
\* changes it (queueEntryRepository.js:26-33).
THEOREM CompareAndSetHasOneWinner == Spec => []OneWinner
<1>1. IInv => OneWinner
  BY DEF IInv
<1> QED
  BY <1>1, Invariance, PTL

-----------------------------------------------------------------------------
(* QueueEntries implements TicketLifecycle.                                *)

\* The tickets of the refinement mapping.
Ticket(e) == [status |-> e.status, gone |-> e.deleted]

Tickets == [i \in EntryIds |-> Ticket(entries[i])]

-----------------------------------------------------------------------------
(* How writes to the entries look through the mapping.                     *)

LEMMA UnchangedTickets ==
  ASSUME UNCHANGED entries
  PROVE  Tickets' = Tickets
BY DEF Tickets, Ticket, EntryIds

LEMMA ReplacedTicket ==
  ASSUME StoreTypeOK, NEW i \in EntryIds, NEW document,
         entries' = [entries EXCEPT ![i] = document]
  PROVE  Tickets' = [Tickets EXCEPT ![i] = Ticket(document)]
<1>1. entries \in [1 .. Len(entries) -> Entry] /\ EntryIds = 1 .. Len(entries)
  BY LenProperties DEF StoreTypeOK, EntryIds
<1>2. /\ EntryIds' = EntryIds
      /\ \A j \in EntryIds :
           entries'[j] = IF j = i THEN document ELSE entries[j]
  BY <1>1 DEF EntryIds
<1> DEFINE f == [Tickets EXCEPT ![i] = Ticket(document)]
<1>3. /\ f = [j \in EntryIds |-> f[j]]
      /\ \A j \in EntryIds :
           f[j] = Ticket(IF j = i THEN document ELSE entries[j])
  BY DEF Tickets
<1>4. /\ Tickets' = [j \in EntryIds |-> Tickets'[j]]
      /\ \A j \in EntryIds :
           Tickets'[j] = Ticket(IF j = i THEN document ELSE entries[j])
  BY <1>2 DEF Tickets
<1> HIDE DEF f
<1>5. Tickets' = f
  BY <1>3, <1>4
<1> QED
  BY <1>5 DEF f

LEMMA NewTicket ==
  ASSUME StoreTypeOK, NEW c, NEW n, NEW p, InsertEntry(c, n, p)
  PROVE  Tickets' = Append(Tickets, [status |-> "waiting", gone |-> FALSE])
<1> DEFINE e == [customer |-> c, token |-> n, status |-> "waiting",
                 position |-> p, deleted |-> FALSE]
           new == [status |-> "waiting", gone |-> FALSE]
           S == {Ticket(entries[i]) : i \in EntryIds} \cup {new}
<1>1. /\ entries \in Seq(Entry) /\ Len(entries) \in Nat
      /\ EntryIds = 1 .. Len(entries)
  BY LenProperties DEF StoreTypeOK, EntryIds
<1>2. entries' = Append(entries, e)
  BY DEF InsertEntry
<1>3. Ticket(e) = new
  BY DEF Ticket
<1> HIDE DEF e
<1>4. /\ EntryIds' = 1 .. Len(entries) + 1
      /\ \A j \in 1 .. Len(entries) : entries'[j] = entries[j]
      /\ entries'[Len(entries) + 1] = e
  BY <1>1, <1>2 DEF EntryIds
<1>5. Tickets \in [1 .. Len(entries) -> S] /\ new \in S
  BY <1>1 DEF Tickets
<1> HIDE DEF new, S
<1>6. Tickets \in Seq(S)
  BY <1>1, <1>5, SeqDef
<1>7. Len(Tickets) = Len(entries)
  BY <1>1, <1>5, <1>6, LenProperties
<1>8. /\ Append(Tickets, new) \in [1 .. Len(entries) + 1 -> S]
      /\ \A j \in 1 .. Len(entries) : Append(Tickets, new)[j] = Tickets[j]
      /\ Append(Tickets, new)[Len(entries) + 1] = new
  <2>1. /\ Append(Tickets, new) \in Seq(S)
        /\ Len(Append(Tickets, new)) = Len(entries) + 1
        /\ \A j \in 1 .. Len(entries) : Append(Tickets, new)[j] = Tickets[j]
        /\ Append(Tickets, new)[Len(entries) + 1] = new
    BY <1>5, <1>6, <1>7, AppendProperties
  <2> QED
    BY <2>1, LenProperties
<1>9. \A j \in 1 .. Len(entries) + 1 : Tickets'[j] = Append(Tickets, new)[j]
  BY <1>1, <1>3, <1>4, <1>8 DEF Tickets
<1>10. Tickets' = Append(Tickets, new)
  BY <1>4, <1>8, <1>9 DEF Tickets
<1> QED
  BY <1>10 DEF new

-----------------------------------------------------------------------------
(* The steps of TicketLifecycle, in terms of Tickets.                      *)

LEMMA TicketsFacts ==
  /\ DOMAIN Tickets = EntryIds
  /\ \A i \in EntryIds : Tickets[i] = Ticket(entries[i])
BY DEF Tickets

LEMMA IssueStep ==
  ASSUME Tickets' = Append(Tickets, [status |-> "waiting", gone |-> FALSE])
  PROVE  Lifecycle!Next
BY DEF Lifecycle!Next, Lifecycle!Issue, Tickets, Ticket

\* A ticket in a new status, not removed.
LEMMA StatusStep ==
  ASSUME NEW i \in EntryIds, NEW to, ~entries[i].deleted,
         Tickets' = [Tickets EXCEPT ![i] = [status |-> to,
                                            gone |-> entries[i].deleted]],
         \/ to \in {"left", "cancelled"}
         \/ /\ to \in {"called", "recalled", "in_service"} \cup Lifecycle!Final
            /\ Lifecycle!Forward(entries[i].status, to)
  PROVE  Lifecycle!Next
<1>1. [status |-> to, gone |-> entries[i].deleted]
        = [Tickets[i] EXCEPT !.status = to]
  BY TicketsFacts DEF Ticket
<1>2. Tickets' = [Tickets EXCEPT ![i] = [Tickets[i] EXCEPT !.status = to]]
  BY <1>1
<1>3. /\ ~Tickets[i].gone /\ i \in DOMAIN Tickets
      /\ Tickets[i].status = entries[i].status
  BY TicketsFacts DEF Ticket
<1>4. CASE to \in {"left", "cancelled"}
  <2>1. Lifecycle!Withdraw(i)
    BY <1>2, <1>3, <1>4 DEF Lifecycle!Withdraw, Tickets, Ticket
  <2> QED
    BY <1>3, <2>1 DEF Lifecycle!Next, Tickets, Ticket
<1>5. CASE /\ to \in {"called", "recalled", "in_service"} \cup Lifecycle!Final
           /\ Lifecycle!Forward(entries[i].status, to)
  <2>1. Lifecycle!Advance(i)
    BY <1>2, <1>3, <1>5 DEF Lifecycle!Advance, Tickets, Ticket
  <2> QED
    BY <1>3, <2>1 DEF Lifecycle!Next, Tickets, Ticket
<1> QED
  BY <1>4, <1>5

LEMMA DiscardStep ==
  ASSUME NEW i \in EntryIds, ~entries[i].deleted, NEW gone, gone = TRUE,
         Tickets' = [Tickets EXCEPT ![i] = [status |-> entries[i].status,
                                            gone |-> gone]]
  PROVE  Lifecycle!Next
<1>1. [status |-> entries[i].status, gone |-> gone]
        = [Tickets[i] EXCEPT !.gone = gone]
  BY ONLY TicketsFacts, i \in EntryIds DEF Ticket
<1>2. Tickets' = [Tickets EXCEPT ![i] = [Tickets[i] EXCEPT !.gone = gone]]
  BY <1>1
<1>3. ~Tickets[i].gone /\ i \in DOMAIN Tickets
  BY TicketsFacts DEF Ticket
<1>4. Lifecycle!Discard(i)
  BY <1>2, <1>3 DEF Lifecycle!Discard, Tickets, Ticket
<1> QED
  BY <1>3, <1>4 DEF Lifecycle!Next, Tickets, Ticket

-----------------------------------------------------------------------------
(* What each action does to the tickets.                                   *)

\* A step of the abstract specification, or none.
TicketStep == Lifecycle!Next \/ UNCHANGED Tickets

LEMMA CreateEntryTicket ==
  ASSUME IInv, NEW r \in Requests, CreateEntry(r)
  PROVE  TicketStep
<1>1. StoreTypeOK
  BY Hypothesis
<1>2. InsertEntry(request[r].customer, request[r].token, request[r].place)
  BY DEF CreateEntry
<1> QED
  BY <1>1, <1>2, NewTicket, IssueStep DEF TicketStep

\* The compare-and-set moves the entry along an edge of `allowed', and all
\* these edges lead forward (queueProcessingService.js:13-18, 45-52).
LEMMA CommitTicket ==
  ASSUME IInv, NEW r \in Requests, Commit(r)
  PROVE  TicketStep
<1> DEFINE i == request[r].id
           to == request[r].to
           position == IF to = "skipped" THEN 0 ELSE entries[i].position
           document == [entries[i] EXCEPT !.status = to, !.position = position]
<1>1. /\ request[r].pc = "commit"
      /\ UpdateEntry(i, entries[i].status = request[r].seen, document)
  BY DEF Commit
<1>2. i \in EntryIds /\ <<request[r].seen, to>> \in allowed
  BY <1>1, Hypothesis DEF LocalsOK
<1>3. CASE EntryExists(i) /\ entries[i].status = request[r].seen
  <2>1. entries' = [entries EXCEPT ![i] = document]
    BY <1>1, <1>3 DEF UpdateEntry
  <2>2. entries[i] \in Entry
    BY <1>2, Hypothesis, EntryType
  <2>3. <<entries[i].status, to>> \in allowed
    BY <1>2, <1>3
  <2> HIDE DEF to, position
  <2>4. Ticket(document) = [status |-> to, gone |-> entries[i].deleted]
    BY <2>2 DEF Ticket, Entry
  <2> HIDE DEF document
  <2>5. Tickets' = [Tickets EXCEPT ![i] = [status |-> to,
                                           gone |-> entries[i].deleted]]
    BY <1>2, <2>1, <2>4, ReplacedTicket, Hypothesis
  <2>6. /\ to \in {"called", "recalled", "in_service"} \cup Lifecycle!Final
        /\ Lifecycle!Forward(entries[i].status, to)
    BY <2>3 DEF allowed, Lifecycle!Final, Lifecycle!Forward, Lifecycle!Stage
  <2>7. ~entries[i].deleted
    BY <1>3 DEF EntryExists
  <2> HIDE DEF i
  <2> QED
    BY <1>2, <2>5, <2>6, <2>7, StatusStep DEF TicketStep
<1>4. CASE ~(EntryExists(i) /\ entries[i].status = request[r].seen)
  BY <1>1, <1>4, UnchangedTickets DEF UpdateEntry, TicketStep
<1> QED
  BY <1>3, <1>4

\* A withdrawal is unconditional, and final (queueEntryService.js:57, 66).
LEMMA WriteWithdrawalTicket ==
  ASSUME IInv, NEW r \in Requests, WriteWithdrawal(r)
  PROVE  TicketStep
<1> DEFINE i == request[r].id
           to == request[r].to
           document == [entries[i] EXCEPT !.status = to, !.position = 0]
<1>1. request[r].pc = "withdraw" /\ UpdateEntry(i, TRUE, document)
  BY DEF WriteWithdrawal
<1>2. i \in EntryIds /\ to \in {"left", "cancelled"}
  BY <1>1, Hypothesis DEF LocalsOK
<1>3. CASE EntryExists(i)
  <2>1. entries' = [entries EXCEPT ![i] = document]
    BY <1>1, <1>3 DEF UpdateEntry
  <2>2. entries[i] \in Entry
    BY <1>2, Hypothesis, EntryType
  <2> HIDE DEF to
  <2>3. Ticket(document) = [status |-> to, gone |-> entries[i].deleted]
    BY <2>2 DEF Ticket, Entry
  <2> HIDE DEF document
  <2>4. Tickets' = [Tickets EXCEPT ![i] = [status |-> to,
                                           gone |-> entries[i].deleted]]
    BY <1>2, <2>1, <2>3, ReplacedTicket, Hypothesis
  <2>5. ~entries[i].deleted
    BY <1>3 DEF EntryExists
  <2> HIDE DEF i
  <2> QED
    BY <1>2, <2>4, <2>5, StatusStep DEF TicketStep
<1>4. CASE ~EntryExists(i)
  BY <1>1, <1>4, UnchangedTickets DEF UpdateEntry, TicketStep
<1> QED
  BY <1>3, <1>4

\* A removal keeps the status (queueEntryService.js:72).
LEMMA WriteRemovalTicket ==
  ASSUME IInv, NEW r \in Requests, WriteRemoval(r)
  PROVE  TicketStep
<1>1. PICK gone \in BOOLEAN : gone = TRUE
  OBVIOUS
<1> DEFINE i == request[r].id
           document == [entries[i] EXCEPT !.deleted = gone]
<1>2. request[r].pc = "remove" /\ UpdateEntry(i, TRUE, document)
  BY <1>1 DEF WriteRemoval
<1>3. i \in EntryIds
  BY <1>2, Hypothesis DEF LocalsOK
<1>4. CASE EntryExists(i)
  <2>1. entries' = [entries EXCEPT ![i] = document]
    BY <1>2, <1>4 DEF UpdateEntry
  <2>2. entries[i] \in Entry
    BY <1>3, Hypothesis, EntryType
  <2>3. Ticket(document) = [status |-> entries[i].status, gone |-> gone]
    BY ONLY <2>2, gone \in BOOLEAN DEF Ticket, Entry
  <2> HIDE DEF document
  <2>4. Tickets' = [Tickets EXCEPT ![i] = [status |-> entries[i].status,
                                           gone |-> gone]]
    BY <1>3, <2>1, <2>3, ReplacedTicket, Hypothesis
  <2>5. ~entries[i].deleted
    BY <1>4 DEF EntryExists
  <2> HIDE DEF i
  <2> QED
    BY <1>1, <1>3, <2>4, <2>5, DiscardStep DEF TicketStep
<1>5. CASE ~EntryExists(i)
  BY <1>2, <1>5, UnchangedTickets DEF UpdateEntry, TicketStep
<1> QED
  BY <1>4, <1>5

\* A position is no part of a ticket (queueProcessingService.js:30-35).
LEMMA WritePositionTicket ==
  ASSUME IInv, NEW r \in Requests, NEW write \in request[r].writes,
         WritePosition(r, write)
  PROVE  TicketStep
<1> DEFINE i == write[1]
           document == [entries[i] EXCEPT !.position = write[2]]
<1>1. UpdateEntry(i, TRUE, document)
  BY DEF WritePosition
<1>2. i \in EntryIds
  BY Hypothesis DEF LocalsOK
<1>3. CASE EntryExists(i)
  <2>1. entries' = [entries EXCEPT ![i] = document]
    BY <1>1, <1>3 DEF UpdateEntry
  <2>2. entries[i] \in Entry
    BY <1>2, Hypothesis, EntryType
  <2>3. Ticket(document) = Ticket(entries[i])
    BY <2>2 DEF Ticket, Entry
  <2> HIDE DEF document
  <2>4. Tickets' = [Tickets EXCEPT ![i] = Tickets[i]]
    BY <1>2, <2>1, <2>3, ReplacedTicket, TicketsFacts, Hypothesis
  <2>5. Tickets' = Tickets
    BY <2>4 DEF Tickets
  <2> QED
    BY <2>5 DEF TicketStep
<1>4. CASE ~EntryExists(i)
  BY <1>1, <1>4, UnchangedTickets DEF UpdateEntry, TicketStep
<1> QED
  BY <1>3, <1>4

\* The other actions write no entry.
LEMMA RequestTicket ==
  ASSUME IInv, NEW r \in Requests,
         EntryRequest(r) \/ ProcessingRequest(r) \/ Step(r)
  PROVE  TicketStep
<1> USE UnchangedTickets DEF TicketStep, store
<1>1. CASE EntryRequest(r)
  BY <1>1 DEF EntryRequest, Join, Withdraw, Remove
<1>2. CASE ProcessingRequest(r)
  BY <1>2 DEF ProcessingRequest, CallNext, ProcessEntry
<1>3. CASE JoinStep(r)
  BY <1>3, CreateEntryTicket
  DEF JoinStep, CheckCustomer, CheckCapacity, ReadToken, ReadPosition,
      TokenConflict
<1>4. CASE WithdrawStep(r)
  BY <1>4, WriteWithdrawalTicket, WriteRemovalTicket
  DEF WithdrawStep, FindQueue
<1>5. CASE TransitionStep(r)
  BY <1>5, CommitTicket DEF TransitionStep, FindNextWaiting, GetQueue
<1>6. CASE RecalculateStep(r)
  BY <1>6, WritePositionTicket
  DEF RecalculateStep, FindActiveOrdered, Count, WriteStatistics
<1> QED
  BY <1>1, <1>2, <1>3, <1>4, <1>5, <1>6 DEF Step

LEMMA NextTicket ==
  ASSUME IInv, [Next]_vars
  PROVE  TicketStep
<1>1. CASE Crash \/ UNCHANGED vars
  BY <1>1, UnchangedTickets DEF Crash, vars, store, TicketStep
<1> QED
  BY <1>1, RequestTicket DEF Next

LEMMA InitTickets == Init => Lifecycle!Init
BY DEF Init, Lifecycle!Init, EntryIds

-----------------------------------------------------------------------------
\* Whatever requests and crashes interleave, a ticket is issued waiting, only
\* moves forward, is served only after it was called, is over once it is over
\* and no longer changes when it has been removed (docs/queues.md:23-36).
THEOREM Refinement == Spec => ImplementsLifecycle
<1>1. IInv /\ [Next]_vars => [Lifecycle!Next]_Tickets
  BY NextTicket DEF TicketStep
<1> QED
  BY <1>1, InitTickets, Invariance, PTL
  DEF Spec, ImplementsLifecycle, Lifecycle!Spec, Tickets, Ticket
=============================================================================
