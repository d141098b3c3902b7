----------------------------- MODULE QueueAdmin -----------------------------
(***************************************************************************)
(* Managers changing the lifecycle of a queue (services/queueService.js).  *)
(* Every handler reads the queue, checks what it read, and writes in a     *)
(* later call that expects nothing of the document but that it has not     *)
(* been soft-deleted.  Several managers do so at the same time.            *)
(*                                                                         *)
(* The document is the one of QueueStore.  create and update write every   *)
(* field of the schema that the body names, the statistics and deletedAt   *)
(* included.  Of the other fields that a body may change, names, hours and *)
(* the like are left out, and so are the capacity and a move to another    *)
(* organization, branch or venue.                                          *)
(***************************************************************************)
EXTENDS QueueStore

CONSTANTS
  Managers,               \* the management requests in flight together
  AdminOperations,        \* the operations that are asked for
  Bodies                  \* the bodies of create and update

VARIABLE admin

-----------------------------------------------------------------------------
ALLOWED_STATUS_TRANSITIONS ==
       {"draft"} \X {"active", "archived"}
  \cup {"active"} \X {"paused", "closed", "archived"}
  \cup {"paused"} \X {"active", "closed", "archived"}
  \cup {"closed"} \X {"archived"}
  \cup {"archived"} \X {"closed"}

\* What a body names: a status (or none), deletedAt, and the statistics.
NotNamed == -1

Body == [status : QueueStatuses \cup {"none"}, deleted : BOOLEAN,
         length : Nat \cup {NotNamed}, served : Nat \cup {NotNamed}]

ASSUME BodiesAssumption == Bodies \subseteq Body

Only(status) == [status |-> status, deleted |-> FALSE,
                 length |-> NotNamed, served |-> NotNamed]

\* What a handler is going to write.
AdminRequest == [pc : {"idle", "write"}, body : Body, isActive : BOOLEAN]

AdminIdle == [pc |-> "idle", body |-> Only("none"), isActive |-> FALSE]

Writing(m, body, isActive) ==
  admin' = [admin EXCEPT ![m] =
              [pc |-> "write", body |-> body, isActive |-> isActive]]

Asked(m, op) ==
  /\ admin[m].pc = "idle"
  /\ op \in AdminOperations
  /\ QueueExists
  /\ UNCHANGED store

Mutable == queue.status # "archived"    \* assertMutable

-----------------------------------------------------------------------------
\* activate, pause, resume, close and archive.
Transition(m, status) ==
  /\ Asked(m, "transition") /\ Mutable
  /\ <<queue.status, status>> \in ALLOWED_STATUS_TRANSITIONS
  /\ Writing(m, Only(status), status = "active")

\* Mutant: a status that is not named is written as undefined.
Update_Undefined(m, body) ==
  /\ Asked(m, "update") /\ Mutable
  /\ body.status = "none"
  /\ Writing(m, [body EXCEPT !.status = "undefined"], queue.isActive)

\* A status may be the old one; without one, the isActive that was read is
\* written back.  Whatever else the body names goes unchecked.
Update(m, body) ==
  /\ Asked(m, "update") /\ Mutable
  /\ \/ body.status \in {"none", queue.status}
     \/ <<queue.status, body.status>> \in ALLOWED_STATUS_TRANSITIONS
  /\ Writing(m, body, IF body.status = "none" THEN queue.isActive
                                             ELSE body.status = "active")

Restore(m) ==
  /\ Asked(m, "restore")
  /\ queue.status = "archived"
  /\ Writing(m, Only("closed"), FALSE)

SoftDelete(m) ==
  /\ Asked(m, "softDelete")
  /\ Writing(m, [Only("none") EXCEPT !.deleted = TRUE], FALSE)

Or(number, default) == IF number = NotNamed THEN default ELSE number

\* The queue with the fields of a body.
With(document, body, isActive) ==
  [document EXCEPT !.status = IF body.status = "none" THEN @ ELSE body.status,
                   !.isActive = isActive,
                   !.deleted = body.deleted,
                   !.length = Or(body.length, @),
                   !.served = Or(body.served, @)]

\* The write of any of them, which a deleted queue is spared.
WriteQueue(m) ==
  /\ admin[m].pc = "write"
  /\ queue' = IF queue.deleted THEN queue
              ELSE With(queue, admin[m].body, admin[m].isActive)
  /\ admin' = [admin EXCEPT ![m] = AdminIdle]
  /\ UNCHANGED entries

-----------------------------------------------------------------------------
AdminInit == admin = [m \in Managers |-> AdminIdle]

AdminNext ==
  \E m \in Managers :
    \/ \E status \in QueueStatuses : Transition(m, status)
    \/ \E body \in Bodies : Update(m, body)
    \/ Restore(m)
    \/ SoftDelete(m)
    \/ WriteQueue(m)

AdminTypeOK == admin \in [Managers -> AdminRequest]
=============================================================================
