----------------------------- MODULE LiveQueue ------------------------------
(***************************************************************************)
(* The live view of a queue: what the handlers of QueueEntries broadcast   *)
(* when they are done (queueProcessingService.js, queueEntryService.js),   *)
(* and what one open page of the frontend makes of it                      *)
(* (hooks/useRealtimeSocket.js, store/realtimeSlice.js,                    *)
(* pages/business/QueuePages.jsx).                                         *)
(*                                                                         *)
(* Of an entry a page shows the cached broadcast first, and the REST       *)
(* answer only for what was never broadcast: a reload does not change the  *)
(* cache, and only its beginning and its end are modelled.  The socket     *)
(* delivers in order, and loses everything while it is disconnected.       *)
(***************************************************************************)
EXTENDS QueueEntries

CONSTANTS
  MaxUnread,              \* bound: no request while so many broadcasts are unread
  MaxReloads              \* bound: the reloads in flight

ASSUME ReloadsAssumption == MaxReloads \in Nat

VARIABLES
  outbox,                 \* what the handler of a request has still to broadcast
  connected,
  channel,                \* broadcasts on their way to the page
  live,                   \* realtime.entries: the cached broadcasts, by entry
  liveLength,             \* realtime.queues[id].statistics.currentQueueLength
  reloads,                \* reloads in flight
  refreshing,             \* realtime.refreshing: "Syncing..." in the header
  missed                  \* the entries whose last broadcast was lost; 0: the queue

page == <<live, liveLength, reloads, refreshing>>
liveVars == <<queue, entries, request, outbox, connected, channel, page, missed>>

-----------------------------------------------------------------------------
Unsaid == -1

\* entry 0: LIVE_QUEUE_UPDATE with the counts of a recalculation.
Broadcast == [entry : Nat, status : EntryStatuses \cup {"none"}, position : Nat,
              length : Nat \cup {Unsaid}]

LiveUpdate(length) ==
  [entry |-> 0, status |-> "none", position |-> 0, length |-> length]

\* `updated' or the created entry: the document before it is recalculated.
EntryEvent(i, document) ==
  [entry |-> i, status |-> document.status, position |-> document.position,
   length |-> Unsaid]

\* The events among SOCKET_EVENTS, to which the page listens.  That an entry
\* has expired comes as a LIVE_QUEUE_UPDATE.
Heard(message) == message.status \notin {"in_service", "no_show"}

-----------------------------------------------------------------------------
(* The server.                                                             *)

\* Mutant: the document is read before it is written.
Written_Before(r) == IF request[r].id = 0 THEN <<>>
                     ELSE <<EntryEvent(request[r].id, entries[request[r].id])>>

\* What the write of this step will be announced with; a conflict is not.
Written(r) ==
  LET i == request'[r].id
  IN  IF i = 0 THEN <<>> ELSE <<EntryEvent(i, entries'[i])>>

\* A handler that throws announces nothing.
Announce(r) ==
  outbox' = [outbox EXCEPT ![r] =
    CASE request[r].pc \in {"create", "commit", "withdraw"} -> Written(r)
      [] request[r].pc = "writeStatistics" /\ request[r].hasQueue ->
           <<LiveUpdate(request[r].length)>> \o @
      [] OTHER -> IF request'[r].pc = "idle" THEN <<>> ELSE @]

LiveStep(r) ==
  /\ Step(r)
  /\ Announce(r)
  /\ UNCHANGED <<connected, channel, page, missed>>

Subjects(messages) == {messages[n].entry : n \in DOMAIN messages}

\* The broadcasts follow the last write, one after the other.
Publish(r) ==
  LET message == Head(outbox[r])
  IN  /\ request[r].pc = "idle" /\ outbox[r] # <<>>
      /\ outbox' = [outbox EXCEPT ![r] = Tail(@)]
      /\ IF connected
         THEN /\ channel' = IF Heard(message) THEN Append(channel, message)
                                              ELSE channel
              /\ UNCHANGED missed
         ELSE missed' = missed \cup {message.entry} /\ UNCHANGED channel
      /\ UNCHANGED <<queue, entries, request, connected, page>>

\* A request is answered when all is broadcast.
LiveRequest(r) ==
  /\ outbox[r] = <<>>
  /\ Len(channel) < MaxUnread
  /\ EntryRequest(r) \/ ProcessingRequest(r)
  /\ UNCHANGED <<outbox, connected, channel, page, missed>>

-----------------------------------------------------------------------------
(* The page.                                                               *)

\* Mutant: what is cached is not replaced.
Cache_Keeps(message) ==
  [i \in DOMAIN live \cup {message.entry} |->
     IF i \in DOMAIN live THEN live[i]
     ELSE [status |-> message.status, position |-> message.position]]

Cache(message) ==
  [i \in DOMAIN live \cup {message.entry} |->
     IF i = message.entry
     THEN [status |-> message.status, position |-> message.position]
     ELSE live[i]]

\* Mutant: the counts are those of the first live update.
ShowLength_First(message) ==
  IF message.length = Unsaid \/ liveLength # 0 THEN liveLength ELSE message.length

\* Mutant: without the `??'.
ShowLength_NoDefault(message) == message.length

\* payload.queueLength ?? what is known.
ShowLength(message) ==
  IF message.length = Unsaid THEN liveLength ELSE message.length

\* receiveSocketEvent, and the effect that follows: a reload.
Receive ==
  LET message == Head(channel)
  IN  /\ channel # <<>>
      /\ reloads < MaxReloads
      /\ channel' = Tail(channel)
      /\ live' = IF message.entry # 0 /\ message.status # "expired"
                 THEN Cache(message) ELSE live
      /\ liveLength' = ShowLength(message)
      /\ missed' = missed \ {message.entry}
      /\ reloads' = reloads + 1
      /\ refreshing' = TRUE
      /\ UNCHANGED <<queue, entries, request, outbox, connected>>

\* Mutant: then in the place of finally.
ReloadSettles_OnlySuccess(succeeds) ==
  /\ reloads > 0
  /\ reloads' = reloads - 1
  /\ refreshing' = (refreshing /\ ~succeeds)
  /\ UNCHANGED <<queue, entries, request, outbox, connected, channel, live,
                 liveLength, missed>>

\* refreshSettled, by finally: also of an answer that is late or an error.
ReloadSettles(succeeds) ==
  /\ reloads > 0
  /\ reloads' = reloads - 1
  /\ refreshing' = FALSE
  /\ UNCHANGED <<queue, entries, request, outbox, connected, channel, live,
                 liveLength, missed>>

-----------------------------------------------------------------------------
(* Faults.  A reconnected page asks for nothing that it has missed.        *)

Disconnect ==
  /\ connected
  /\ connected' = FALSE
  /\ missed' = missed \cup Subjects(channel)
  /\ channel' = <<>>
  /\ UNCHANGED <<queue, entries, request, outbox, page>>

Reconnect ==
  /\ ~connected
  /\ connected' = TRUE
  /\ UNCHANGED <<queue, entries, request, outbox, channel, page, missed>>

-----------------------------------------------------------------------------
\* The page is opened on a queue without entries.
LiveInit ==
  /\ Init
  /\ outbox = [r \in Requests |-> <<>>]
  /\ connected = TRUE
  /\ channel = <<>>
  /\ live = <<>> /\ liveLength = 0
  /\ reloads = 0 /\ refreshing = FALSE
  /\ missed = {}

Browser ==
  \/ Receive
  \/ \E succeeds \in BOOLEAN : ReloadSettles(succeeds)

LiveNext ==
  \/ \E r \in Requests : LiveRequest(r) \/ LiveStep(r) \/ Publish(r)
  \/ Browser
  \/ Disconnect \/ Reconnect

LiveSpec == LiveInit /\ [][LiveNext]_liveVars

\* The server goes on with a request in flight, socket.io delivers, and every
\* reload is answered or fails.  Nobody has to send a request or to reconnect.
LiveFairness ==
  /\ \A r \in Requests : WF_liveVars(LiveStep(r) \/ Publish(r))
  /\ WF_liveVars(Receive)
  /\ WF_liveVars(\E succeeds \in BOOLEAN : ReloadSettles(succeeds))

FairLiveSpec == LiveSpec /\ LiveFairness

-----------------------------------------------------------------------------
LiveTypeOK ==
  /\ TypeOK
  /\ outbox \in [Requests -> Seq(Broadcast)]
  /\ connected \in BOOLEAN
  /\ channel \in Seq(Broadcast)
  /\ DOMAIN live \subseteq EntryIds
  /\ \A i \in DOMAIN live :
       live[i] \in [status : EntryStatuses, position : Nat]
  /\ liveLength \in Nat
  /\ reloads \in 0 .. MaxReloads /\ refreshing \in BOOLEAN
  /\ missed \subseteq {0} \cup EntryIds

\* Nothing is under way.
Quiet ==
  /\ AtRest /\ channel = <<>> /\ reloads = 0
  /\ \A r \in Requests : outbox[r] = <<>>

\* The statuses of which the page hears.
Announced ==
  {"waiting", "called", "recalled", "completed", "skipped", "left", "cancelled"}

\* Of requests handled one after the other, the page ends up with the status
\* the entry has, if it hears of that status at all and did not miss the last
\* broadcast of that entry; one missed before does no harm
\* (queueProcessingService.js:55-57, queueEntryService.js:49, 60, 69,
\* realtimeSlice.js:31).
QuietStatusShown ==
  Quiet => \A i \in EntryIds :
    (entries[i].status \in Announced /\ i \notin missed) =>
      i \in DOMAIN live /\ live[i].status = entries[i].status

\* So does the length of the queue: the one in the database, since the counts
\* that are broadcast are those that were written
\* (queueProcessingService.js:38-44).
QuietLengthShown ==
  (Quiet /\ 0 \notin missed) => liveLength = queue.length

\* "Syncing..." comes to an end, whether or not the reload succeeds
\* (QueuePages.jsx:23).
SyncingEnds == refreshing ~> ~refreshing

\* What is written is shown sooner or later: a status of which the page hears
\* reaches it, unless it is replaced before or its broadcast is lost.
StatusReachesPage ==
  \A i \in 1 .. MaxEntries :
    []<>(i \in EntryIds /\ entries[i].status \in Announced =>
           \/ entries[i].deleted \/ i \in missed
           \/ i \in DOMAIN live /\ live[i].status = entries[i].status)

\* Pages "merge the live cache with REST responses so queue position, ... and
\* personal entry status update without a page refresh" and "REST reloads keep
\* live state consistent with API responses" (frontend/README.md:78, 80).
PositionsShown ==
  (Quiet /\ missed = {}) => \A i \in DOMAIN live :
    entries[i].status = "waiting" => live[i].position = entries[i].position
=============================================================================
