--------------------------- MODULE Notifications ----------------------------
(***************************************************************************)
(* The notifications of one user: the documents and their service          *)
(* (services/notificationService.js), and the slice of the frontend that   *)
(* shows them (features/notifications/notificationsSlice.js).              *)
(*                                                                         *)
(* A thunk sends one request, the server answers it with one database call *)
(* (the list: with one for the items and one for the count, in parallel),  *)
(* and a reducer applies the answer.  Several thunks are in flight at      *)
(* once, requests and answers overtake each other or are lost, and socket  *)
(* events add items of their own, with ids that the server does not know.  *)
(*                                                                         *)
(* The bell and the page of all notifications ask for different numbers of *)
(* items, the newest first, and for nothing but the first page.            *)
(*                                                                         *)
(* Abstracted: titles and types, filters and the other order (the user     *)
(* looks at the newest of everything), and all preferences but one.        *)
(***************************************************************************)
EXTENDS Integers, Sequences, FiniteSets

CONSTANTS
  Thunks,                 \* the thunks that may be in flight together
  SocketIds,              \* ids made of the name and the time of an event
  Limits,                 \* how many a list asks for: 8, or 20 if it does not
  MaxItems,               \* the 100 of notificationReceived
  MaxNotes, MaxBadge      \* bounds: documents created; unread items counted

ASSUME SocketIdsAssumption == SocketIds \cap Nat = {}
ASSUME LimitsAssumption == Limits \subseteq Nat \ {0}
ASSUME MaxItemsAssumption == MaxItems \in Nat \ {0}
ASSUME MaxNotesAssumption == MaxNotes \in Nat

VARIABLES
  notes,                  \* the Notification documents, in order of insertion
  wanted,                 \* the preference for the category of the next one
  creating,               \* createNotification has read it
  thunk,
  items, badge, loading,  \* the slice: items, unreadCount, loading
  inStep,                 \* see InStep
  torn                    \* see BadgeCoversItems

server == <<notes, wanted, creating>>
slice == <<items, badge, loading>>
noteVars == <<server, thunk, slice, inStep, torn>>

-----------------------------------------------------------------------------
Ids == (1 .. MaxNotes) \cup SocketIds

Item == [id : Ids, read : BOOLEAN]

Kinds == {"fetch", "markRead", "markAllRead", "delete", "clear"}

Thunk ==
  [pc : {"idle", "sent", "fulfilled", "rejected"}, kind : Kinds,
   id : Ids \cup {0}, items : Seq(Item), count : Nat \cup {-1},
   listed : BOOLEAN, alone : BOOLEAN]

Settled ==
  [pc |-> "idle", kind |-> "fetch", id |-> 0, items |-> <<>>, count |-> -1,
   listed |-> FALSE, alone |-> FALSE]

Existing == {n \in DOMAIN notes : notes[n] # "deleted"}

\* What the first n of a list contribute to its filter(...): the items with an
\* id in ids.
Kept(list, ids) ==
  LET kept[n \in 0 .. Len(list)] ==
        IF n = 0 THEN <<>>
        ELSE IF list[n].id \in ids THEN Append(kept[n - 1], list[n])
        ELSE kept[n - 1]
  IN  kept

Keep(list, ids) == Kept(list, ids)[Len(list)]

\* The documents with these ids, sorted by createdAt, the newest first.
Documents(ids) ==
  LET newest(n) == Len(notes) + 1 - n
      all == [n \in DOMAIN notes |-> [id |-> newest(n),
                                      read |-> notes[newest(n)] = "read"]]
  IN  Keep(all, ids)

\* skip(0).limit(limit).
Page(limit) ==
  {n \in Existing : Cardinality({m \in Existing : m >= n}) <= limit}

Listed(limit) == Documents(Page(limit))

UnreadCount == Cardinality({n \in DOMAIN notes : notes[n] = "unread"})

UnreadItems(list) == Cardinality({n \in DOMAIN list : ~list[n].read})

Busy == {t \in Thunks : thunk[t].pc # "idle"}

-----------------------------------------------------------------------------
(* The server.                                                             *)

\* createNotification reads the preferences, and creates in a later call.
ReadPreferences ==
  /\ ~creating /\ Len(notes) < MaxNotes
  /\ wanted
  /\ creating' = TRUE
  /\ UNCHANGED <<notes, wanted, thunk, slice, inStep, torn>>

CreateNotification ==
  /\ creating
  /\ notes' = Append(notes, "unread")
  /\ creating' = FALSE
  /\ inStep' = FALSE
  /\ thunk' = [t \in Thunks |-> [thunk[t] EXCEPT !.alone = FALSE]]
  /\ UNCHANGED <<wanted, slice, torn>>

\* updatePreferences sets what it is given; nothing looks at what exists.  An
\* update between the two calls of createNotification is as good as one after.
UpdatePreferences(value) ==
  /\ ~creating /\ Len(notes) < MaxNotes
  /\ wanted' = value
  /\ UNCHANGED <<notes, creating, thunk, slice, inStep, torn>>

\* Promise.all: the items and the count are read at different moments.
ReadItems(t, limit) ==
  /\ thunk[t].pc = "sent" /\ thunk[t].kind = "fetch" /\ ~thunk[t].listed
  /\ thunk' = [thunk EXCEPT
                 ![t].items = Listed(limit), ![t].listed = TRUE,
                 ![t].pc = IF thunk[t].count = -1 THEN @ ELSE "fulfilled"]
  /\ UNCHANGED <<server, slice, inStep, torn>>

ReadCount(t) ==
  /\ thunk[t].pc = "sent" /\ thunk[t].kind = "fetch" /\ thunk[t].count = -1
  /\ thunk' = [thunk EXCEPT
                 ![t].count = UnreadCount,
                 ![t].pc = IF thunk[t].listed THEN "fulfilled" ELSE @]
  /\ UNCHANGED <<server, slice, inStep, torn>>

\* Mutant: markRead names no documents.
Updated_MarksAll(kind, id) ==
  [n \in DOMAIN notes |->
     CASE kind = "clear" \/ (kind = "delete" /\ n = id) -> "deleted"
       [] kind \in {"markAllRead", "markRead"} ->
            IF notes[n] = "unread" THEN "read" ELSE notes[n]
       [] OTHER -> notes[n]]

\* What updateMany, deleteOne or deleteMany makes of the documents.
Updated(kind, id) ==
  [n \in DOMAIN notes |->
     CASE kind = "clear" \/ (kind = "delete" /\ n = id) -> "deleted"
       [] kind = "markAllRead" \/ (kind = "markRead" /\ n = id) ->
            IF notes[n] = "unread" THEN "read" ELSE notes[n]
       [] OTHER -> notes[n]]

\* An id that is no ObjectId cannot be cast, and the request fails.
Update(t) ==
  /\ thunk[t].pc = "sent" /\ thunk[t].kind # "fetch"
  /\ IF thunk[t].id \in SocketIds
     THEN /\ thunk' = [thunk EXCEPT ![t].pc = "rejected"]
          /\ UNCHANGED notes
     ELSE /\ notes' = Updated(thunk[t].kind, thunk[t].id)
          /\ thunk' = [thunk EXCEPT ![t].pc = "fulfilled"]
  /\ UNCHANGED <<wanted, creating, slice, inStep, torn>>

-----------------------------------------------------------------------------
(* The slice.                                                              *)

\* The user asks for something.
Dispatch(t, kind, id) ==
  /\ thunk[t].pc = "idle"
  /\ id # 0 <=> kind \in {"markRead", "delete"}
  /\ id # 0 => \E n \in DOMAIN items : items[n].id = id
  /\ thunk' = [u \in Thunks |->
                 IF u = t
                 THEN [Settled EXCEPT !.pc = "sent", !.kind = kind, !.id = id,
                                      !.alone = Busy = {}]
                 ELSE [thunk[u] EXCEPT !.alone = FALSE]]
  /\ loading' = (loading \/ kind = "fetch")
  /\ UNCHANGED <<server, items, badge, inStep, torn>>

\* notificationReceived.
Receive(id) ==
  /\ badge < MaxBadge
  /\ LET others == Keep(items, Ids \ {id})
         all == <<[id |-> id, read |-> FALSE]>> \o others
     IN  items' = SubSeq(all, 1, IF Len(all) < MaxItems THEN Len(all)
                                                        ELSE MaxItems)
  /\ badge' = badge + 1
  /\ inStep' = FALSE
  /\ UNCHANGED <<server, thunk, loading, torn>>

\* Mutant: without Math.max.
Less_Unbounded(count) == count - 1

Less(count) == IF count = 0 THEN 0 ELSE count - 1

Held(id) == {n \in DOMAIN items : items[n].id = id}

UnreadHeld(id) == \E n \in Held(id) : ~items[n].read

\* Mutant: the badge goes down for items that were read before.
ApplyUpdate_CountsRead(kind, id) ==
  CASE kind = "markRead" ->
         /\ items' = [n \in DOMAIN items |->
                        [items[n] EXCEPT !.read = @ \/ items[n].id = id]]
         /\ badge' = Less(badge)
    [] kind = "delete" ->
         /\ items' = Keep(items, Ids \ {id})
         /\ badge' = Less(badge)
    [] kind = "markAllRead" ->
         /\ items' = [n \in DOMAIN items |-> [items[n] EXCEPT !.read = TRUE]]
         /\ badge' = 0
    [] kind = "clear" -> items' = <<>> /\ badge' = 0

\* The fulfilled reducers of the four thunks that change something.
ApplyUpdate(kind, id) ==
  CASE kind = "markRead" ->
         /\ items' = [n \in DOMAIN items |->
                        [items[n] EXCEPT !.read = @ \/ items[n].id = id]]
         /\ badge' = IF UnreadHeld(id) THEN Less(badge) ELSE badge
    [] kind = "delete" ->
         /\ items' = Keep(items, Ids \ {id})
         /\ badge' = IF UnreadHeld(id) THEN Less(badge) ELSE badge
    [] kind = "markAllRead" ->
         /\ items' = [n \in DOMAIN items |-> [items[n] EXCEPT !.read = TRUE]]
         /\ badge' = 0
    [] kind = "clear" -> items' = <<>> /\ badge' = 0

Fulfilled(t) ==
  /\ thunk[t].pc = "fulfilled"
  /\ IF thunk[t].kind = "fetch"
     THEN /\ items' = thunk[t].items
          /\ badge' = thunk[t].count
          /\ loading' = FALSE
          /\ torn' = (thunk[t].count < UnreadItems(thunk[t].items))
          /\ inStep' = thunk[t].alone
     ELSE /\ ApplyUpdate(thunk[t].kind, thunk[t].id)
          /\ inStep' = (inStep /\ thunk[t].alone)
          /\ UNCHANGED <<loading, torn>>
  /\ thunk' = [thunk EXCEPT ![t] = Settled]
  /\ UNCHANGED server

\* Mutant: a fetch that fails goes on loading.
Rejected_KeepsLoading(t) ==
  /\ thunk' = [thunk EXCEPT ![t] = Settled]
  /\ inStep' = FALSE
  /\ UNCHANGED <<server, items, badge, loading, torn>>

Rejected(t) ==
  /\ thunk' = [thunk EXCEPT ![t] = Settled]
  /\ loading' = (loading /\ thunk[t].kind # "fetch")
  /\ inStep' = FALSE
  /\ UNCHANGED <<server, items, badge, torn>>

\* A request or its answer is lost.
NetworkError(t) == thunk[t].pc \in {"sent", "fulfilled"} /\ Rejected(t)

-----------------------------------------------------------------------------
NoteInit ==
  /\ notes = <<>> /\ wanted = TRUE /\ creating = FALSE
  /\ thunk = [t \in Thunks |-> Settled]
  /\ items = <<>> /\ badge = 0 /\ loading = FALSE
  /\ inStep = TRUE /\ torn = FALSE

ThunkStep(t) ==
  \/ \E limit \in Limits : ReadItems(t, limit)
  \/ ReadCount(t) \/ Update(t)
  \/ Fulfilled(t)
  \/ thunk[t].pc = "rejected" /\ Rejected(t)

NoteNext ==
  \/ ReadPreferences \/ CreateNotification
  \/ \E value \in BOOLEAN : UpdatePreferences(value)
  \/ \E t \in Thunks, kind \in Kinds, id \in Ids \cup {0} : Dispatch(t, kind, id)
  \/ \E t \in Thunks : ThunkStep(t) \/ NetworkError(t)
  \/ \E id \in SocketIds : Receive(id)

NoteSpec == NoteInit /\ [][NoteNext]_noteVars

\* Requests are answered or fail; nobody has to act.
NoteFairness == \A t \in Thunks : WF_noteVars(ThunkStep(t))

FairNoteSpec == NoteSpec /\ NoteFairness

-----------------------------------------------------------------------------
NoteTypeOK ==
  /\ notes \in Seq({"unread", "read", "deleted"})
  /\ wanted \in BOOLEAN /\ creating \in BOOLEAN
  /\ thunk \in [Thunks -> Thunk]
  /\ items \in Seq(Item) /\ Len(items) <= MaxNotes + MaxItems
  /\ badge \in Nat
  /\ loading \in BOOLEAN /\ inStep \in BOOLEAN /\ torn \in BOOLEAN

\* The badge never promises less than the list shows, in whatever order
\* answers and socket events arrive, and also for the items that were cut off:
\* unless the last list was torn, its count being older or newer than its
\* items (notificationService.js:44-48, notificationsSlice.js:14, 22-25).
BadgeCoversItems == ~torn => badge >= UnreadItems(items)

\* No document is left out that is newer than one which is shown.
Newest(shown) == \A n \in shown, m \in Existing : m > n => m \in shown

\* A user who does one thing after the other sees what the server has: once a
\* list was fetched without anything in between, marking, deleting and clearing
\* keep list and badge in step with the documents, until a socket event, a new
\* document, a failure or a second request interferes.  The list shows the newest
\* documents as they are, and the badge counts all of them, shown or not; a
\* deleted item is not made up for by the next one
\* (notificationService.js:45-47, 52-55, notificationsSlice.js:22-25).
InStep ==
  (inStep /\ Busy = {}) =>
    /\ \E shown \in SUBSET Existing : Newest(shown) /\ items = Documents(shown)
    /\ badge = UnreadCount

\* "Loading..." comes to an end, also with a failure
\* (notificationsSlice.js:17-19).
LoadingEnds == loading ~> ~loading
=============================================================================
