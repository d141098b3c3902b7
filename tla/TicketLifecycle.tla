--------------------------- MODULE TicketLifecycle --------------------------
(***************************************************************************)
(* What the holder of a ticket may rely on, whatever requests, crashes and *)
(* operators do: tickets are issued waiting, only move forward, are served *)
(* only after they were called, are over once they are over, and no longer *)
(* change when they have been removed.  docs/queues.md, lines 36 and       *)
(* 23-34, describes this lifecycle; QueueEntries implements it.            *)
(***************************************************************************)
EXTENDS Naturals, Sequences

VARIABLE tickets          \* a sequence of [status, gone] records

Final == {"completed", "skipped", "left", "cancelled", "no_show", "expired"}

Stage(status) ==
  CASE status = "waiting"    -> 0
    [] status = "called"     -> 1
    [] status = "recalled"   -> 2
    [] status = "in_service" -> 3
    [] OTHER                 -> 4

Forward(from, to) ==
  /\ Stage(from) < Stage(to)
  /\ to = "in_service" => from \in {"called", "recalled"}
  /\ to = "completed" => from = "in_service"

Init == tickets = <<>>

Issue == tickets' = Append(tickets, [status |-> "waiting", gone |-> FALSE])

Advance(i) ==
  /\ ~tickets[i].gone
  /\ \E to \in {"called", "recalled", "in_service"} \cup Final :
       /\ Forward(tickets[i].status, to)
       /\ tickets' = [tickets EXCEPT ![i].status = to]

\* A withdrawal is final as well, but may replace another final status.
Withdraw(i) ==
  /\ ~tickets[i].gone
  /\ \E to \in {"left", "cancelled"} :
       tickets' = [tickets EXCEPT ![i].status = to]

Discard(i) ==
  /\ ~tickets[i].gone
  /\ tickets' = [tickets EXCEPT ![i].gone = TRUE]

Next ==
  \/ Issue
  \/ \E i \in DOMAIN tickets : Advance(i) \/ Withdraw(i) \/ Discard(i)

Spec == Init /\ [][Next]_tickets
=============================================================================
