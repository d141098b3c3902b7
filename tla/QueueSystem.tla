---------------------------- MODULE QueueSystem -----------------------------
(***************************************************************************)
(* One queue with everybody who works on it: the requests of customers and *)
(* operators (QueueEntries) and those of managers (QueueAdmin), over the   *)
(* same documents.  Crashes are left to QueueEntries.                      *)
(***************************************************************************)
EXTENDS QueueEntries, QueueAdmin

VARIABLE given            \* see LiveQueueConsistent

systemVars == <<queue, entries, request, admin, given>>

NamesStatistics(body) == body.length # NotNamed \/ body.served # NotNamed

\* queueService.create takes any status and any isActive, and the fields of its
\* body.
Created(body, isActive) ==
  With([status |-> "active", isActive |-> isActive, deleted |-> FALSE,
        length |-> 0, served |-> 0], body, isActive)

SystemInit ==
  /\ \E body \in Bodies, isActive \in BOOLEAN :
       /\ queue = Created(body, isActive)
       /\ given = NamesStatistics(body)
  /\ entries = <<>>
  /\ request = [r \in Requests |-> Idle]
  /\ AdminInit

\* A customer or an operator.
Serve(r) ==
  /\ EntryRequest(r) \/ ProcessingRequest(r) \/ Step(r)
  /\ given' = (given /\ request[r].pc # "writeStatistics")
  /\ UNCHANGED admin

Manage ==
  /\ AdminNext
  /\ given' = (given \/ \E m \in Managers : /\ admin[m].pc = "write"
                                            /\ admin'[m].pc = "idle"
                                            /\ NamesStatistics(admin[m].body))
  /\ UNCHANGED request

SystemNext == (\E r \in Requests : Serve(r)) \/ Manage

SystemSpec == SystemInit /\ [][SystemNext]_systemVars

-----------------------------------------------------------------------------
SystemTypeOK == TypeOK /\ AdminTypeOK /\ given \in BOOLEAN

\* Once the queue is deleted, by the operation or by an update that names
\* deletedAt, neither a late recalculation nor a late manager changes its
\* document any more (queueRepository.js:22, 25; queueProcessingService.js:43).
DeletedIsFinal == [][queue.deleted => queue' = queue]_systemVars

\* With requests one at a time, and managers at any moment in between: a
\* queue that has not been deleted has its positions and statistics right
\* between requests.  Pausing, closing or archiving it does not keep the
\* recalculation that follows an operation from being done
\* (queueProcessingService.js:53-54, queueEntryService.js:58, 67).  Only
\* statistics that were given in the body of create or update are wrong, until
\* the next recalculation replaces them (queueService.js:16, 28).
LiveQueueConsistent ==
  ~queue.deleted => PositionsInOrder /\ (~given => StatisticsExact)
=============================================================================
