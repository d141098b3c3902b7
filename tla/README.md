# QueueIT: TLA+ models of the backend and the frontend

QueueIT is a queue management service: customers take numbered tickets for a
queue, counter operators call and serve them, managers open and close the
queue. The backend is an Express application over MongoDB (Mongoose) with a
Socket.IO channel; the frontend is a React application. Paths below are
relative to `src/`; `S/` stands for `backend/src/services/`, `R/` for
`backend/src/repositories/` and `F/` for `frontend/src/`.

What makes this program hard is one fact: **a request is a sequence of
database calls, other requests run between any two of them, and there are no
transactions.** Every handler reads, checks what it read, and writes later; the
browser does the same with answers and socket events. The models keep exactly
that: one action per database call (or per callback in the browser), with the
local variables of the handler carried from one to the next.

## The system

| Component | Code | State | Operations | Hard behaviour | What makes it correct | Module |
|---|---|---|---|---|---|---|
| Queue entries | `S/queueEntryService.js` | QueueEntry documents | join, leave, cancel, remove | checks and writes apart; token race with retry | unique tokens, capacity, one ticket per customer, legal lifecycle | `QueueEntries` |
| Queue processing | `S/queueProcessingService.js` | entries; statistics of the queue | callNext, recall, skip, startService, completeService, noShow, expire, `recalculate` | compare-and-set; positions written in parallel from stale reads | one winner, FIFO, positions and statistics right | `QueueProcessing` |
| Queue administration | `S/queueService.js`, `constants/queueConstants.js` | Queue document | create, update, activate, pause, resume, close, archive, restore, delete | stale checks of two managers; deletion under running requests | a deleted queue stays as it is; the line is right whatever managers do, and the statistics unless a body names them | `QueueAdmin`, `QueueSystem` |
| Store | `R/*`, `models/Queue*.js` | the two collections | single driver calls | unique indexes over soft-deleted documents | see above | `QueueStore` |
| Sessions | `S/authService.js`, `S/tokenService.js`, `middlewares/auth.js` | Session | login, refresh, logout, revocation | rotation against logout | revoked stays revoked | `Sessions` |
| Accounts | `S/authService.js` | User, AuthToken, Session | register, verify, login, forgot, reset, change | single-use tokens checked and used apart; a crash in the middle | a used token had its effect; the old password is out | `Accounts` |
| E-mail | `S/emailService.js` | a socket | an SMTP dialogue of up to fourteen steps | refusals, resets, silence, closes | "sent" means accepted; it ends | `Mail` |
| API client | `F/services/apiClient.js`, `F/services/tokenStorage.js`, `F/features/auth/authSlice.js` | stored tokens, cookies, the shared refresh | request, refresh, retry, sign in and out | calls refused together, lost answers | no lost wake-up; the stored token is the current one | `ApiClient` |
| Realtime server | `backend/src/socket/*` | rooms, presence, counters, recentEvents | connect, join and leave rooms, counter:active, disconnect, broadcast | several sockets of one user; a Map trimmed while it is iterated | presence mirrors connections; rooms asked for by name are authorized; memory is bounded | `Realtime` |
| Process | `backend/src/server.js`, `backend/src/database/connection.js`, `backend/src/config/env.js` | stage of start-up, timer | start, retry, listen, shutdown, restart | a signal at any moment | a successful shutdown cuts nobody off; every shutdown ends | `Server` |
| Live pages | `F/store/realtimeSlice.js`, `F/hooks/useRealtimeSocket.js`, `F/pages/business/QueuePages.jsx` | cache of broadcasts | receive, reload, reconnect | lost broadcasts; a cache beside REST answers | the page shows what is stored | `LiveQueue` |
| Notifications | `S/notificationService.js`, `F/features/notifications/*` | Notification documents; the slice | create, list, mark, remove, clear, preferences | answers that overtake each other; a torn list; one page of many documents | badge and list agree with each other and the server | `Notifications` |
| Organizations | `S/organizationService.js` | Organization, User.organizationId | create | slug probing; two documents, no transaction | one organization per organizer | `Organizations` |
| Knowledge base | `backend/src/ai/ragService.js` | KnowledgeDocument, KnowledgeChunk | ingest, remove | two collections, no transaction | chunks belong to ready documents | `Knowledge` |
| Roles, audit, HTTP layer, data hook, pages, deployment | see "Not modelled" | | | | | |

Interaction. HTTP routes call the services; `queueEntryService` calls
`queueProcessingService.recalculate` after join, leave and cancel;
`transitionEntry` calls it after every operator action; all of them share the
two collections through the repositories. Services append to the audit log and
broadcast socket events **after** their last write: `LiveQueue` adds exactly
these broadcasts to `QueueEntries`. `forgotPassword` waits for the mail server
inside a request (`Accounts` over `Mail`). A WebSocket is a connection of the
HTTP server that a shutdown waits for (`Server` over `Realtime`). Who creates
an organization may afterwards ingest documents for it (`Knowledge` over
`Organizations`). The browser sends every request through one client that
refreshes and retries (`ApiClient` over `Sessions`).

## Modules

| Module | Models | Extends |
|---|---|---|
| `QueueStore` | the documents of one queue and the driver calls on them | |
| `QueueProcessing` | operators' requests and `recalculate` | `QueueStore` |
| `QueueEntries` | customers' requests; `Init`, `Next`, crashes; the properties | `QueueProcessing` |
| `TicketLifecycle` | the abstract specification: what the holder of a ticket may rely on | |
| `QueueAdmin` | managers' requests | `QueueStore` |
| `QueueSystem` | customers, operators and managers on one queue | `QueueEntries`, `QueueAdmin` |
| `LiveQueue` | the broadcasts of `QueueEntries` and a page that shows them | `QueueEntries` |
| `Sessions` | handlers that depend on sessions | |
| `ApiClient` | the browser's tokens, refresh and retry | `Sessions` |
| `Mail` | `sendSmtp` | |
| `Accounts` | registration to password change | `Mail` |
| `Realtime` | the sockets of the server | |
| `Server` | the process | `Realtime` |
| `Notifications` | documents, service and slice | |
| `Organizations` | creation of organizations | |
| `Knowledge` | the knowledge base | `Organizations` |
| `MC...` | instances for TLC | |
| `QueueEntriesProofs`, `SystemProofs`, `ApiClientProofs`, `AccountsProofs`, `ServerProofs`, `KnowledgeProofs`, `NotificationsProofs`, `LiveQueueProofs` | theorems | the module they are about |

### State

* `queue`: the Queue document: `status`, `isActive`, whether `deletedAt` is
  set, and the two statistics `length` (currentQueueLength) and `served`
  (customersServed). A body of `create` or `update` (`Bodies`) may name any of
  them; `isActive` counts in that of `create` only.
* `entries`: the QueueEntry documents in the order of insertion; an `_id` is an
  index. Nothing is ever taken out of the collection (deletes are soft).
* `request[r]`: a request in flight. `pc` names the database call it awaits
  next, the other fields are the local variables that the code still uses.
  `Idle` when it has been answered, with or without an error. `admin[m]`
  (managers, one read and one write), `http[k]` (`Sessions`), `job[r]`
  (`Accounts`) and `task[r]` (`Organizations`, `Knowledge`) are the same for the
  other handlers.
* `Sessions`, `ApiClient`: `sessions` the documents; `family[n]` the session of
  token pair `n`, which is a number; `valid` the access tokens that have not
  expired; `stored` and `cookie` what the browser holds. The slot of a tab in
  `http` is its `refreshPromise`.
* `Mail`: `smtp[r]`, the line of the dialogue and whether the body was accepted.
* `Accounts`: `user`, `tokens`, `logins`, the three documents.
* `Realtime`, `Server`: `client[s]` is `socket.data` with the socket's rooms. What
  a client names as a room is a `Target`: the scope and id that `canJoinRoom`
  reads of it as a string, and the rooms that `socket.join` takes it for; for the
  `Name` of a room they are the same.
  `presence` and `counters` are the Maps of `presence.js`, and `recent` is the
  Map `recentEvents` in its order of insertion; `stage`, `attempt`, `drain` say
  where `start` and `shutdown` are, `http` which connections are open.
* `LiveQueue`: `outbox[r]`, what a handler has still to broadcast; `channel`;
  `live` and `liveLength`, the caches of `realtimeSlice`; `reloads` and
  `refreshing`.
* `Notifications`: `notes` the documents; `items`, `badge`, `loading` the slice;
  `thunk[t]` a thunk from dispatch to its reducer.
* `Organizations`, `Knowledge`: `organizations`, `belongs` (User.organizationId),
  `documents`, and `chunks`, how many each document has.

A few variables are history: `overlapped` (two refreshes were in flight
together), `effective` (tokens that have had their effect), `strays` (sessions
that a reset has missed), `missed` (entries whose last broadcast was lost),
`inStep` and the two `torn`, `spoiled`, `early`, `given` (statistics that a body
has named), `byName` (a socket has asked for rooms by their names only). No guard reads them; they say
in a property which exceptions the code makes, and "Known differences" lists
each of these exceptions.

### Actions

| Action | Code |
|---|---|
| `Join`, `CheckCustomer`, `CheckCapacity`, `ReadToken`, `ReadPosition`, `CreateEntry`, `TokenConflict` | `join`, the awaits of lines 24, 30, 31, 32/39, 33 and 41 and the catch of line 44 |
| `Withdraw`, `WriteWithdrawal`, `FindQueue`; `Remove`, `WriteRemoval` | `leave` and `cancel`; `remove` |
| `CallNext`, `FindNextWaiting`; `ProcessEntry` | `callNext`; the read and `assertTransition` of recall, skip, startService, completeService, noShow, expire |
| `Commit`, `GetQueue` | the compare-and-set of `transitionEntry`, and what follows it |
| `FindActiveOrdered`, `WritePosition`, `Count`, `WriteStatistics` | `recalculate`; the updates of a `Promise.all` land in any order |
| `Transition`, `Update`, `Restore`, `SoftDelete`, `WriteQueue` | `queueService.js` |
| `Authenticate`, `RevokeByToken`; `FindSession`, `SaveSession`, `RevokeFamily`; `CreateSession` | `authenticate` and `logout`; `rotateRefreshToken`; `createSession` |
| `Call`, `SignIn`, `SignOut`, `Start` | a request of a page, the thunks `login`, `logout`, `refreshSession` |
| `JoinRefresh`, `RefreshSucceeded`, `RefreshFailed`, `Settle` | the response interceptor: a first 401, the end of the shared refresh, what the caller gets |
| `GoodReply`, `BadReply`, `SocketError`, `NeverSettles` | `readResponse` and `command` for the line the dialogue is at |
| `FindUser`, `CreateUser`, `IssueAuthToken`, `MailOver`, `FindToken`, `LoadUser`, `SaveUser`, `MarkUsed`, `RevokeSessions` | `register`, `login`, `forgotPassword`, `resetPassword`, `changePassword`, `verifyEmail`, one await each |
| `Connect`, `RoomJoin`, `RoomLeave`, `CounterActive`, `Disconnect`, `Broadcast` | the handlers of `socket/index.js` and what they do in `presence.js` |
| `Validate`, `ConnectDatabase`, `InitSockets`, `Listen`; `Shutdown`, `Closed`, `DisconnectDatabase`, `Timeout` | `start`; `shutdown`, its callback and its timer |
| `LiveStep`, `Publish`; `Receive`, `ReloadSettles` | the broadcasts at the end of the handlers; `receiveSocketEvent`, `refreshSettled` |
| `ReadPreferences`, `CreateNotification`, `UpdatePreferences`, `ReadItems`, `ReadCount`, `Update`; `Dispatch`, `Receive`, `Fulfilled`, `Rejected` | `notificationService.js`; the slice |
| `Create`, `Probe`, `Insert`, `Link`; `Ingest`, `CreateDocument`, `InsertChunk`, `Remove`, `MarkDeleted`, `DeleteChunks` | `create` of `organizationService.js`; `ragService.js` |
| `Crash`, `Restart`, `NetworkError`, `Disconnect`, `Abort`, `Age`, `ExpireAccess`, `EndSession` | faults, time and other devices |

The first action of a request takes its first read with it where nothing the
properties tell apart can happen between them: the handler has no state before
that.

### Abstractions

* One queue, one user's browser, one account. The queries of the modelled code
  name the queue, the entry, the user or the session, so that others do not
  interact.
* Estimated waits and time stamps follow from modelled fields or are written
  and never read. `joinedAt`, the third sort key, never decides: token numbers
  are unique.
* Ownership, role and tenant checks of the services only refuse requests; the
  models let anyone ask, which allows more behaviours. `Realtime` keeps them,
  since its property is about them.
* `audit.record` and the broadcasts follow the last write. If one fails, the
  request fails after the work is done, which the models already answer.
* A driver call takes effect or not as a whole; `insertMany` is the exception
  (`InsertChunk`). Calls that fail for other reasons than a duplicate key (a
  lost connection) are covered by crashes only in part: a failed call ends one
  request where a crash ends all.
* Token pairs, passwords, ids of events and rooms are values that are equal or
  not. A slug is the pair of a base and a suffix; different pairs are taken to
  be different slugs (`a-2` is never the base of another name).
* An access token is refused when it has expired; that a session can expire,
  too, is answered like a revocation and modelled by `EndSession`.
* A line of the SMTP dialogue is its writing and the reading of its reply,
  whatever chunks the reply comes in.
* Of `update` of a queue the models keep the fields they have. A body that moves
  the queue to another tenant or changes its capacity is left out; the
  properties that count against the capacity would have to say which one.
* The list of notifications is its first page, the newest first, with any limit
  (8 for the bell, 20 unless the request says otherwise). Filters, the other
  order and further pages are left out: `InStep` is about the newest documents.
* Of what pages fetch `LiveQueue` models only that a reload begins and ends:
  fields from the cache take precedence over it.

## Runs

| Run | Distinct states | Shows |
|---|---|---|
| `operators` | 259 thousand | two requests over one customer's ticket, all interleavings, crashes: `WaitingHasPosition`, `OneWinner`, refinement of `TicketLifecycle` (`ImplementsLifecycle`), `EveryRequestAnswered` |
| `joins` | 130 thousand | joins and removals racing: `TypeOK`, `TokensConsecutive`, `OverbookingBounded` |
| `system` | 2.4 million | three customers and the operators one request at a time, one manager at any moment in between, whose updates may name statistics and `deletedAt`: `SystemTypeOK`, `LiveQueueConsistent`, `CapacityRespected`, `OneTicketPerCustomer`, `CallsInOrder`, `DeletedIsFinal` |
| `sessions` | 159 thousand | two calls that share a refresh, a refresh at start, logins and logouts, lost requests and answers, revocation from elsewhere: `WaitersHaveRefresh`, `StoredTokenCurrent`, `RevokedForGood`, `NoAccessAfterRevocation`, `EveryCallSettles` |
| `live` | 352 thousand | the page of a queue with disconnections and reloads: `LiveTypeOK`, `QuietStatusShown`, `QuietLengthShown`, `SyncingEnds`, `StatusReachesPage` |
| `notifications` | 830 thousand | two thunks, pages of one or two items, socket events, new documents, lost answers: `NoteTypeOK`, `BadgeCoversItems`, `InStep`, `LoadingEnds` |
| `accounts` | 345 thousand | two requests on one account over an arbitrary mail server, restarts: `SentMeansAccepted`, `UsedTokenTookEffect`, `OldPasswordIsOut`, `AccountRequestsEnd` |
| `server` | 554 thousand | the process with one request and two sockets that ask for rooms by name or with an array, signals at any moment: `NobodyCutOff`, `PresenceExact`, `RoomsAuthorized`, `RecentBounded`, `ShutdownEnds` |
| `knowledge` | 472 thousand | two organizers, one name, documents ingested as ready or as deleted and removed, crashes: `KnowledgeTypeOK`, `OneOrganizationEach`, `KnowledgeConsistent`, `KnowledgeRequestsEnd` |
| `overwritten` | | violation: leave overwrites a completed entry |
| `logout` | | violation: a logout that was refused, refreshed and retried revokes nothing |
| `frozen` | | violation: the page goes on showing the position an entry had when it joined |

`system` and the race of two joins in `joins` are a deliberate pair: with
requests one after the other the capacity is respected, with two in flight it
is exceeded by one at most, so that the cause is the interleaving and nothing
else.

The state spaces of `operators`, `sessions`, `live`, `notifications`,
`accounts`, `server` and `knowledge` are explored without symmetry, because
liveness is checked in them.

`CHECK_DEADLOCK FALSE` is set where a state without successors is legitimate:
a bound is reached, nothing is in flight, and nobody has to ask for more. The
process of `Server` is restarted for ever, and `server` does check deadlock.

### Bounds

A bound stands only in the guard of a request that begins something, so that
every request that has begun can finish.

* `MaxEntries` bounds the documents a join may start from. Two requests in
  flight are enough for every race of the queue: each hazard is one request's
  check and write with another's write in between; `joins` gives a third entry
  to a second conflict of tokens. `operators` has one entry, which is where all
  of its properties play, so that `recalculate`, crashes and a whole lifecycle
  fit in. `system` has three customers, the least with which an order of
  positions and a full queue of capacity 2 with somebody outside both occur.
  `SomeBodies` holds every status alone, `deletedAt` on a queue that stays
  active, and a length. Operations that end or keep an entry as another one does
  are left out there (`CounterOperations`) and are in `operators`.
* `MaxPairs = 3`: a first pair, one rotation and a second rotation or login.
  That is a stale refresh token and a stale token of a stale token. One tab:
  the refresh at start overlaps the shared refresh as that of another tab would.
* `MaxUnread`, `MaxReloads` = 1: one broadcast on its way, one reload in flight.
  `MaxEntries = 2` is a line in which somebody moves up.
* `MaxItems = 2`, `MaxNotes = 2`, `MaxBadge = 2`: the limit of 100 items is
  reached and crossed with one socket event beside two documents. `Limits` is 1
  and 2: a page that shows less than there is, and one that shows all.
* `MaxTokens = 2`, `MaxLogins = 1`, two passwords: two requests with the same
  token, or one with each of two tokens; one session that a change of password
  has to end.
* `MaxRecent = 1`, three event ids: the memory is over its limit with the third
  event. One HTTP request, which is what a shutdown has to wait for beside
  sockets. Two sockets, of one user or two, that name two rooms, or an array
  with one of them that reads as another; `Users` holds an admin and the same
  person before and after they own an organization.
* `MaxOrganizations = 2` of one name: the slug has to be probed for;
  `MaxDocuments = 1`, `MaxChunks = 1`: one document in two requests' hands.

The theorems below hold for all values of these constants.

### Fairness

Weak fairness only, and only of steps that somebody else's progress does not
have to enable for ever:

* `FairSpec`: `Step(r)`, the next database call of a request in flight. Node's
  event loop runs a continuation that is ready, and the driver answers a call
  or rejects it. `EveryRequestAnswered` then says that handlers have no endless
  loop (the retry) and wait for nothing that does not come (`Promise.all`).
* `FairClientSpec`: the server handles a request and the browser runs the
  callback of its answer. A request the network has lost is given up
  (`NetworkError`), which is not assumed to happen or not to happen.
* `FairLiveSpec`: handlers go on, Socket.IO delivers while it is connected, and
  a reload is answered or fails. Nobody has to reconnect.
* `FairNoteSpec`, `FairKnowledgeSpec`: requests are answered or fail.
* `FairAccountSpec`: the database answers; the mail server does something or
  the timeout of the socket does (`emailService.js:35`). Which of its outcomes
  it is, is left open, a hang included.
* `FairServerSpec`: the timer of `shutdown` fires. Nothing else: a server with
  clients that never leave must stop all the same.

No fairness is assumed of users, managers, crashes or time.

## Proofs

| Theorem | Property | Module |
|---|---|---|
| `TypeCorrect`, `TokensUnique`, `WaitingKeepsPosition`, `CompareAndSetHasOneWinner` | `TypeOK`, `TokensConsecutive`, `WaitingHasPosition`, `OneWinner` of `QueueEntries` | `QueueEntriesProofs` |
| `Refinement` | `ImplementsLifecycle` | `QueueEntriesProofs` |
| `OverbookingIsBounded` | `OverbookingBounded` | `SystemProofs` |
| `SystemTypeCorrect`, `OneRequestKeepsCapacity`, `DeletionIsFinal` | `SystemTypeOK`, `CapacityRespected`, `DeletedIsFinal` of `QueueSystem` | `SystemProofs` |
| `OneRequestKeepsOrder`, `OneRequestCallsInOrder`, `OneRequestOneTicket` | `LiveQueueConsistent`, `CallsInOrder`, `OneTicketPerCustomer` of `QueueSystem` | `SystemProofs` |
| `LiveTypeCorrect`, `OneRequestStatusShown`, `OneRequestLengthShown` | `LiveTypeOK`, `QuietStatusShown`, `QuietLengthShown` of `LiveQueue` | `LiveQueueProofs` |
| `ClientTypeCorrect`, `NoLostWakeUp`, `RevocationIsFinal` | `ClientTypeOK`, `WaitersHaveRefresh`, `RevokedForGood` | `ApiClientProofs` |
| `RefreshKeepsSession`, `ShutOutStaysOut` | `StoredTokenCurrent`, `NoAccessAfterRevocation` | `ApiClientProofs` |
| `AccountTypeCorrect`, `UsedTokensTookEffect`, `SentMailWasAccepted`, `OldPasswordsAreOut` | `AccountTypeOK`, `UsedTokenTookEffect`, `SentMeansAccepted`, `OldPasswordIsOut` | `AccountsProofs` |
| `ServerTypeCorrect`, `GracefulShutdown`, `PresenceIsExact`, `RoomsAreAuthorized`, `RecentIsBounded` | `ServerTypeOK`, `NobodyCutOff`, `PresenceExact`, `RoomsAuthorized`, `RecentBounded` | `ServerProofs` |
| `KnowledgeTypeCorrect`, `OneOrganization`, `ChunksFollowDocuments` | `KnowledgeTypeOK`, `OneOrganizationEach`, `KnowledgeConsistent` | `KnowledgeProofs` |
| `NotesTypeCorrect`, `BadgeIsNeverShort`, `OneAfterTheOther` | `NoteTypeOK`, `BadgeCoversItems`, `InStep` | `NotificationsProofs` |

They hold for any customers, requests, managers, entries, capacity, tabs,
calls, sessions, passwords, mail configurations, sockets, users, rooms,
attempts, organizers, documents, chunks, thunks and notifications, and with
crashes where the module has them. The type invariants of `ApiClient`,
`Accounts` and `Server` are proved and therefore not repeated in the runs.

Assumptions, all in the modules that declare the constants: `MaximumCapacity` is
a positive number, the bounds are natural numbers, `"none"` is no customer and
`None` neither user nor counter, `Requests` of the queue is finite (it is
counted), tabs and calls are different slots, the bodies name fields with values of their
types, limits are positive, the mail configuration consists of
Booleans, there is a password, and there are an organizer and a name
(`SomebodyAssumption`: the idle task holds one of each).
The six `OneRequest...` theorems assume one request in flight, besides: with two,
each of the six properties is false. `OneRequestKeepsOrder` and
`OneRequestCallsInOrder` also assume that `remove` is not among the operations:
it is the one that recalculates nothing, and leaves a gap in the line.

### Queue

None of the first four is inductive. The invariant `IInv` adds what every request
knows about its local variables (`LocalsOK`):

* a request that awaits a write to entry `i` holds an `i` that exists, because
  documents are never taken out of the collection;
* a join that is about to insert has a position of at least 1;
* the positions a recalculation still has to write are 1 or more, or are 0 and
  belong to an entry that has left `waiting`, **and no entry ever comes back to
  `waiting`**: this is why a stale write cannot do harm;
* a request that has passed its compare-and-set on status `s` knows that the
  entry is now beyond `s`. Statuses have a stage (`Stage`, of
  `TicketLifecycle`) that no write ever decreases, so a second request that read
  the same `s` will lose.

Every action gets a lemma `...Effect` that says what it does to entries and to
its own request; `Kept` says that the knowledge of the other requests survives
any step that appends entries or moves them onward; `NextIInv` puts them
together.

`OverbookingIsBounded`: a join is admitted while fewer than `MaximumCapacity`
entries are active, and there are at most as many admitted joins as requests,
so the bound holds when it is let in; it then counts as admitted until its entry
counts as active, and no status becomes active again. Every other step leaves
both sides alone or lowers the left one.

`Refinement`: under the mapping of `QueueEntries!Lifecycle` an insert is `Issue`,
a compare-and-set that wins is `Advance` (its edge is one of `allowed`, all of
which lead forward: the guard was checked when the request read the entry, and
`LocalsOK` carries it to the write), the write of leave or cancel is `Withdraw`,
that of remove is `Discard`, and everything else stutters, position updates
included.

`QueueSystem`: `IInv` and the bound on overbooking say nothing of the queue
document but its type, so managers do not disturb them (`QueueIsFree`), and with
one request the bound is the capacity. `DeletionIsFinal` is about steps: of a request's
calls only the last of `recalculate` writes the queue, and nothing to a deleted
document, and neither does the write of a manager, whatever body it carries and
whenever it was checked.

`OneRequestKeepsOrder` and `OneRequestCallsInOrder` rest on `LineInv`, which
follows the one request through its stages. Before it writes, the line of waiting
entries is numbered 1, 2, 3, ... by token, and the statistics are exact unless
a body has named them since they were last written (`given`). A join
appends its entry behind everybody; whoever leaves or is called makes a gap;
in between the line is no more than `Sorted`: of two waiting entries the one with
the smaller token does not have the greater position. That is all the recalculation needs,
since its sort by position is then the sort by token, and what it has still to
write (`Pending`) numbers the line. Once a manager has deleted the queue
the recalculation stops at `getQueue`, so only what `callNext` needs is left:
that a line that it may still read is sorted.

`OneRequestOneTicket`: a join that is past `findActiveByCustomer` has found no
active entry of its customer, and nobody is there to insert one in between
(`TicketInv`).

### Live pages

`LiveIInv` is `IInv` with what the outbox of a request says of its stage: it is
empty before the write and holds nothing about the queue during the
recalculation. It holds for any number of requests, and gives `LiveTypeCorrect`.
`ServerEffect` sums up what a step of the server is to the page: it is silent,
or announces the one entry it writes, or announces the counts it writes.

`OneRequestStatusShown` and `OneRequestLengthShown` need `ShownInv`: what is
still to be broadcast is true, because nobody writes in between; and of every
entry whose status the page hears, and of the queue, a broadcast is in an outbox,
or the last one on its way tells the truth, or none is on its way and it was
missed or is shown. When all is quiet only the last of these is left. With two
requests the later write may be broadcast first.

### Sessions and the browser

`ClientInv` adds to `ClientTypeOK` that a request which is about to save or to
revoke holds a session that exists (`Fine`), because sessions are never
deleted. `NoLostWakeUp`: the slot of a tab becomes idle in three steps only, and
each of them retries or fails all that wait for it. `RevocationIsFinal`: the
rotation writes the token and not `revokedAt`; every other write sets it or
appends.

`RefreshKeepsSession` needs `StoredInv`: which stages and pairs a request of
each kind can have (`KindInv`); while no two refreshes have overlapped there is
at most one, its answer carries the current pair of its session, and what is
stored is current as long as none is under way (`OneRefresh`); and the answer to
a login that the browser has not seen yet is current and known to nobody else
(`FreshLogin`), because it may become the stored pair at any moment, also
between the two ends of a refresh of the session before it.

`ShutOutStaysOut` is a property of single steps: when every session is revoked
and no rotation is past its read, `FindSession` refuses every pair there is, so
that only the creation of a session by a login ends that state.

### Accounts and mail

`AccountInv` says for every request which stage goes with which kind and that a
request at `markUsed` has had its effect (`JobsFine`): the only step that marks
a token comes after the one that writes the user, and a restart loses stages but
no effects. `SentMailWasAccepted` rests on the shape of `Dialogue` in all of its
configurations (`DialogueShape`: it ends with the body and QUIT, which occur
nowhere else) and on the invariant that a dialogue at QUIT has its body
accepted: QUIT alone has a catch.

`OldPasswordsAreOut`: sessions that a reset has to revoke are still there only
while a reset is between its write of the user and its revocation, or are among
the `strays`. `PasswordInv` adds that a request which is about to create a
session has found a user, and that there are no sessions without one.

### Process and sockets

`ServerInv` has `DrainInv`: once `server.close` has called back, and unless the
signal came before the server listened, nobody is connected and nobody can
connect any more. `PresenceExact` is inductive together with the types:
`authenticate` fixes a socket's user for its life, so that the group in which
it is entered is among those it is removed from. `RoomsAuthorized` follows a
socket from its connection: while `byName` holds, what it has joined is what
`canJoinRoom` was asked about. For `RecentBounded` the sweep
is shown to keep a suffix of at most `MaxRecent` events (`SweepKeepsSuffix`),
whichever of them have expired.

### Organizations and knowledge base

`KnowledgeInv` has three parts beside the types. `CreationInv`: an organizer who
is not `torn` has at most one creation under way; it owns nothing until the
insert, then exactly the organization that the creation is about to link, and
afterwards exactly the one it is linked to. `WorkInv`: the document in the hands
of a request exists, one request ingests it, and who deletes chunks has marked
the document deleted. `ChunksInv`: the chunks of a document are those that the
request in whose hands it is has still to account for (`Accounted`); a document that was
ingested as deleted is `spoiled` from its creation, until a removal has deleted
its chunks.

### Notifications

`NoteInv` says of a thunk that ran alone since the slice and the server last
agreed that what it carries is what the server has: the read items and count of
a fetch, or, for a change, that applying its reducer to the slice gives a list
and the count which the server will have (`Alone`, `Foreseen`). A list is one the
server has if it is `Shown`: the documents, as they are, of a set of existing ones
that leaves out none newer than a member. A page is such a set (`PageShown`),
reading keeps it, and deleting a member leaves one of what is left; that the
item in question is on the page is part of `Foreseen`, since the badge goes down
only for an item that is shown. The badge is
never below the unread items shown until a list and a count of different moments
have come together (`BadgeCoversItems`, `torn`), because every reducer
that takes an unread item away takes at most one from the badge, and takes one
only if the item was there.

The list operations are a recursive function over a list (`Keep`). What it
keeps is proved by induction, in the form in which the provers accept it: the
predicate is a set, and `SetInduction` and `ListInduction` follow from `<` on
the natural numbers being well founded.

### Model-checked only

Liveness (`EveryRequestAnswered`, `EveryCallSettles`, `SyncingEnds`,
`StatusReachesPage`, `LoadingEnds`, `AccountRequestsEnd`, `ShutdownEnds`,
`KnowledgeRequestsEnd`), which is out of the prover's reach.

## Known differences between code and documents

Shown by a violation run, each with its finding in PROJECT.json:

* `overwritten`: leave and cancel write without the status they checked
  (`S/queueEntryService.js:57`, 66), against `docs/PROJECT_HEALTH_CHECK.md:28`.
* `logout`: a retried logout carries the refresh token of before the rotation
  (`F/services/apiClient.js:17`), against `backend/README.md:23`.
* `frozen`: positions of those behind are never broadcast, and cached ones win
  over reloaded ones (`S/queueProcessingService.js:44`,
  `F/pages/business/QueuePages.jsx:23`), against `frontend/README.md:78`, 80.

Met while modelling, and not given a run of their own. They are in the models
(as an exception a property makes, or because no property forbids them) unless
said otherwise.

Queue:
* Two joins in flight pass the capacity check together, and two joins of one
  customer both find no ticket (`S/queueEntryService.js:30-31`;
  `backend/docs/queues.md:17`). `OverbookingBounded` says how far it goes.
* A join keeps the position it read over its retries, so with two in flight a
  later ticket can be called first (`S/queueEntryService.js:33`; `queues.md:19`).
* remove recalculates nothing (`S/queueEntryService.js:72`; `queues.md:19`).
* With two requests in flight the statistics can be left wrong
  (`S/queueProcessingService.js:38-43`).
* Two managers move a queue along an edge that the table lacks, and can leave
  `status` and `isActive` in disagreement (`S/queueService.js:28-29`;
  `queues.md:9`).
* A closed queue cannot be made active again, because the table has no edge from
  it but to archived (`queues.md:13`: "so managers can intentionally reactivate
  it later").
* `create` and `update` write every field of the schema that the body names,
  statistics and `deletedAt` included (`S/queueService.js:16`, 28;
  `backend/src/validators/queueValidators.js` checks fields and strips none).
  Statistics that were given stand until the next recalculation
  (`LiveQueueConsistent` excepts them by `given`), and a queue can be deleted and
  active. A capacity below the number of tickets is not modelled.
* A queue that is closed while a join is in flight still gets the entry
  (`S/queueEntryService.js:27`; `queues.md:17`).

Sessions, accounts and mail:
* Reuse of a refresh token is never detected: the rotation overwrites the hash
  it would be recognised by (`S/authService.js:13`; `backend/README.md:21`).
* The refresh at start does not share the promise of the interceptor, and tabs
  share none: two overlapping refreshes lose the session (`StoredTokenCurrent`
  excepts them by `overlapped`).
* A reset or verification link works twice for two requests at the same time
  (`S/authService.js:16`, 18).
* A reset that the server dies in leaves the sessions of the old password alive,
  as does a login that overlaps it (`strays`).
* A mail server that closes the connection in an orderly way leaves the request
  waiting for ever (`S/emailService.js:9-24`; `NeverSettles`).

Realtime, pages and process:
* `counter:active` with another counter leaves the socket at the earlier one
  (`backend/src/socket/index.js:71`): the count of counters only grows until the
  process ends.
* `broadcast` drops an event whose id it remembers; ids are made of name,
  resource and time stamp, and live updates of the same millisecond are taken
  for one. Identity of ids is given in `Realtime`; how they are made is not
  modelled. A room list with two rooms of one socket delivers an event twice
  (not modelled).
* `room:join` checks the first two parts of the value as a string and joins the
  value itself (`backend/src/socket/rooms.js:26`, `index.js:65-66`): for anything
  but the name of a room these need not be the same rooms
  (`backend/README.md:74`; `RoomsAuthorized` is about sockets that use names, see
  `byName`).
* The socket of somebody who creates an organization does not join its room
  until it reconnects (`client[s].user`).
* A reconnected page asks for nothing it has missed (`missed`). A live update
  carries the status that the queue had when the handler read it (not modelled:
  of the queue only the length is shown).
* Notifications that a socket event has put into the list have an id the server
  cannot cast, so marking them as read fails
  (`F/hooks/useRealtimeSocket.js:32`). `createNotification` has no caller; it is
  modelled as its callers would use it.
* The list of notifications is one page, and a deleted item is not made up for by
  the next document until the list is fetched again
  (`S/notificationService.js:45`, `F/features/notifications/notificationsSlice.js:24`;
  `InStep` asks for the newest documents, not for how many).
* An open WebSocket keeps `server.close` from calling back, so that a shutdown
  with anybody connected takes ten seconds and exits with 1.
* A signal, a port in use or a failure of Redis between the database and
  `listen` ends the process with code 0 (`early`).
* With `MONGODB_RETRY_ATTEMPTS=0` the server starts without a database.

Organizations and knowledge base:
* Two creations by one organizer, or a crash between the two writes, leave an
  organization without its owner (`S/organizationService.js:22`; `torn`).
* A document that is removed while it is ingested keeps the chunks that come
  later, a document that is ingested with the status deleted gets its chunks all
  the same (`backend/src/ai/ragService.js:11-13`), and a crash leaves a ready
  document with some of its chunks (`spoiled`, until the document is removed
  again).

Data hook: `F/hooks/useApiResource.js:9` does not tell an older answer from a
newer one (not modelled, see below).

## Not modelled

* **Roles and permissions**: read when a request is authenticated; nothing else
  depends on how they are expanded. What the modelled handlers need of them is
  in their guards.
* **Audit log**: append-only records that nothing in the code reads.
* **HTTP layer**: routing, validation, rate limits of a library, formatting of
  answers and errors. No state of its own that other parts rely on.
* **Data hook and pages**: a fetch into one state variable without an order
  between two of them promises nothing that could be checked; pages are
  presentation. `QueuePages.jsx` is modelled as far as it merges cache and
  answers.
* **Google sign-in, profile, password rules, lists of sessions**: an external
  verification and single reads or writes beside the modelled ones.
* **The assistant**: it reads the queue and the chunks, ranks them and calls an
  external language model. Its wording and ranking are no state.
* **Queue names, operating hours, templates, a changed capacity, a move to another
  tenant**: the other fields of `update`. Names are unique per venue by a check and an
  index that see case differently (`S/queueService.js:14`), which the list of
  hazards keeps.
* **Scripts and deployment**: seeds, containers, proxy and pipelines, but for
  the restart policy, which is an action of `Server`. The delivery of events
  between several servers through Redis is not modelled.
