------------------------------ MODULE Realtime ------------------------------
(***************************************************************************)
(* The Socket.IO server of the backend (socket/index.js, rooms.js,         *)
(* presence.js): who is connected, in which rooms, at which counter, and   *)
(* which events have been broadcast lately.  All of it is in memory.       *)
(*                                                                         *)
(* A socket keeps the user that authenticate has loaded, whatever becomes  *)
(* of the document.  A room is <<scope, id>>; None is an absent id.  What   *)
(* a client names as a room is any value: see Target.                      *)
(***************************************************************************)
EXTENDS Integers, FiniteSets, Sequences

CONSTANTS
  Sockets,
  Users,                  \* what a User document may look like
  Targets,                \* what clients name as a room
  Counters, None,
  EventIds,
  MaxRecent               \* maxRecentEvents

ASSUME RealtimeAssumption ==
  MaxRecent \in Nat /\ None \notin Counters /\ None \notin Users

VARIABLES
  client,                 \* socket.data and the rooms of each socket
  presence,               \* the sockets of each user, by group
  counters,               \* the sockets of each counter
  recent                  \* recentEvents, a Map: in order of insertion

realtimeVars == <<client, presence, counters, recent>>

-----------------------------------------------------------------------------
Ids == {u.id : u \in Users}

Groups == {"admins", "employees", "customers"}

Staff == {"counter_operator", "venue_manager", "organization_admin", "employee"}

HasRole(user, roles) == user.roles \cap roles # {}

Elevated == {"admin", "super_admin"}

AdminRoom == <<"admin", None>>

Room(scope, id) == IF id = None THEN {} ELSE {<<scope, id>>}

\* Mutant: the admins of an organization are admins.
AdminRooms_OfOrganizations(user) ==
  IF HasRole(user, Elevated \cup {"organization_admin"}) THEN {AdminRoom} ELSE {}

AdminRooms(user) == IF HasRole(user, Elevated) THEN {AdminRoom} ELSE {}

RoomsForUser(user) ==
  Room("user", user.id) \cup Room("organization", user.organizationId)
    \cup Room("branch", user.branchId) \cup Room("venue", user.venueId)
    \cup AdminRooms(user)
    \cup (IF HasRole(user, {"customer", "user"})
          THEN Room("customer", user.id) ELSE {})
    \cup (IF HasRole(user, Staff) THEN Room("employee", user.id) ELSE {})

\* canJoinRoom reads the first two parts of the value as a string; join and
\* leave are given the value itself.  The parts and the rooms of join agree if it
\* is the name of a room, and need not if it has more parts or is an array,
\* every element of which is joined and none is left.
Target(scope, id, rooms, array) ==
  [scope |-> scope, id |-> id, rooms |-> rooms, array |-> array]

Name(room) == Target(room[1], room[2], {room}, FALSE)

IsName(target) == target = Name(<<target.scope, target.id>>)

CanJoinRoom(user, target) ==
  LET scope == target.scope
      id == target.id
  IN  IF target = Name(AdminRoom) THEN HasRole(user, Elevated)
      ELSE \/ "super_admin" \in user.roles
           \/ scope = "organization"
                /\ (user.organizationId = id \/ "admin" \in user.roles)
           \/ scope = "branch"
                /\ (user.branchId = id \/ "organization_admin" \in user.roles)
           \/ scope = "venue"
                /\ \/ user.venueId = id
                   \/ HasRole(user, {"venue_manager", "organization_admin"})
           \/ scope \in {"customer", "employee", "user"} /\ user.id = id
           \/ scope \in {"queue", "counter"}
                /\ HasRole(user, (Staff \ {"employee"}) \cup {"admin"})

-----------------------------------------------------------------------------
\* A socket is given the rooms of its user when it connects.
\* byName: see RoomsAuthorized.
Offline == [user |-> None, rooms |-> {}, counter |-> None, byName |-> TRUE]

Connected == {s \in Sockets : client[s].user # None}

GroupOf(user) ==
  IF HasRole(user, Elevated) THEN "admins"
  ELSE IF HasRole(user, Staff) THEN "employees" ELSE "customers"

\* presence.connected: at the socket's counter as well, if it has one.
AtCounter(s, counter) ==
  [c \in Counters |-> counters[c] \cup (IF c = counter THEN {s} ELSE {})]

Connect(s, user, counter) ==
  /\ client[s].user = None
  /\ client' = [client EXCEPT ![s] =
                  [user |-> user, rooms |-> RoomsForUser(user),
                   counter |-> counter, byName |-> TRUE]]
  /\ presence' = [presence EXCEPT ![GroupOf(user)][user.id] = @ \cup {s}]
  /\ counters' = AtCounter(s, counter)
  /\ UNCHANGED recent

RoomJoin(s, target) ==
  /\ client[s].user # None
  /\ CanJoinRoom(client[s].user, target)
  /\ client' = [client EXCEPT
                  ![s].rooms = @ \cup target.rooms,
                  ![s].byName = @ /\ IsName(target)]
  /\ UNCHANGED <<presence, counters, recent>>

RoomLeave(s, target) ==
  /\ client[s].user # None
  /\ client' = [client EXCEPT
                  ![s].rooms = IF target.array THEN @ ELSE @ \ target.rooms]
  /\ UNCHANGED <<presence, counters, recent>>

\* The counter it was at keeps the socket.
CounterActive(s, counter) ==
  LET user == client[s].user
  IN  /\ user # None
      /\ client' = [client EXCEPT ![s].counter = counter]
      /\ presence' = [presence EXCEPT ![GroupOf(user)][user.id] = @ \cup {s}]
      /\ counters' = AtCounter(s, counter)
      /\ UNCHANGED recent

\* Mutant: the user is gone with the first of their sockets.
Disconnect_WholeUser(s) ==
  LET user == client[s].user
  IN  /\ user # None
      /\ client' = [client EXCEPT ![s] = Offline]
      /\ presence' = [g \in Groups |-> [presence[g] EXCEPT ![user.id] = {}]]
      /\ counters' = [c \in Counters |->
                        counters[c] \ (IF c = client[s].counter THEN {s} ELSE {})]
      /\ UNCHANGED recent

\* From whichever group, and from the last counter.
Disconnect(s) ==
  LET user == client[s].user
  IN  /\ user # None
      /\ client' = [client EXCEPT ![s] = Offline]
      /\ presence' = [g \in Groups |-> [presence[g] EXCEPT ![user.id] = @ \ {s}]]
      /\ counters' = [c \in Counters |->
                        counters[c] \ (IF c = client[s].counter THEN {s} ELSE {})]
      /\ UNCHANGED recent

-----------------------------------------------------------------------------
\* The loop of broadcast: it deletes while it iterates, so that an event is
\* kept that is fresh and has at most MaxRecent - 1 newer ones.
Kept(n) == recent[n].fresh /\ Len(recent) - n < MaxRecent

\* Mutant: only what has expired is dropped.
Sweep_OnlyExpired == SelectSeq(recent, LAMBDA e : e.fresh)

Sweep ==
  SubSeq(recent, 1 + Cardinality({n \in DOMAIN recent : ~Kept(n)}), Len(recent))

\* An event that is remembered is not sent again.
Broadcast(id) ==
  /\ recent' = IF \E n \in DOMAIN Sweep : Sweep[n].id = id THEN Sweep
               ELSE Append(Sweep, [id |-> id, fresh |-> TRUE])
  /\ UNCHANGED <<client, presence, counters>>

\* The oldest event is more than ttl old.
Age ==
  /\ \E n \in DOMAIN recent :
       /\ recent[n].fresh
       /\ \A m \in 1 .. n - 1 : ~recent[m].fresh
       /\ recent' = [recent EXCEPT ![n].fresh = FALSE]
  /\ UNCHANGED <<client, presence, counters>>

-----------------------------------------------------------------------------
RealtimeInit ==
  /\ client = [s \in Sockets |-> Offline]
  /\ presence = [g \in Groups |-> [i \in Ids |-> {}]]
  /\ counters = [c \in Counters |-> {}]
  /\ recent = <<>>

\* Nothing outlives the process.
RealtimeReset ==
  /\ client' = [s \in Sockets |-> Offline]
  /\ presence' = [g \in Groups |-> [i \in Ids |-> {}]]
  /\ counters' = [c \in Counters |-> {}]
  /\ recent' = <<>>

SocketStep(s) ==
  \/ \E user \in Users, c \in Counters \cup {None} : Connect(s, user, c)
  \/ \E target \in Targets : RoomJoin(s, target) \/ RoomLeave(s, target)
  \/ \E c \in Counters \cup {None} : CounterActive(s, c)

-----------------------------------------------------------------------------
AllRooms ==
  UNION ({target.rooms : target \in Targets}
           \cup {RoomsForUser(user) : user \in Users})

RealtimeTypeOK ==
  /\ client \in [Sockets -> [user : Users \cup {None},
                             rooms : SUBSET AllRooms,
                             counter : Counters \cup {None},
                             byName : BOOLEAN]]
  /\ presence \in [Groups -> [Ids -> SUBSET Sockets]]
  /\ counters \in [Counters -> SUBSET Sockets]
  /\ recent \in Seq([id : EventIds, fresh : BOOLEAN])

\* The presence that admins see counts each user who has a socket, in the
\* group of that socket's user, until the last of their sockets is gone, and
\* each counter that has one (presence.js:6-8).
PresenceExact ==
  /\ \A g \in Groups, i \in Ids :
       presence[g][i] = {s \in Connected : /\ client[s].user.id = i
                                           /\ GroupOf(client[s].user) = g}
  /\ \A s \in Connected :
       client[s].counter # None => s \in counters[client[s].counter]

\* A socket that asks for rooms by their names is in none that it could not have
\* joined by asking, its own rooms and those left and joined again included
\* (rooms.js:3-13, 25-36).  Of a socket that has joined with anything else,
\* nothing is said: what is joined is then not what was checked
\* (index.js:65-66, rooms.js:26).
RoomsAuthorized ==
  \A s \in Connected : client[s].byName =>
    \A room \in client[s].rooms : CanJoinRoom(client[s].user, Name(room))

\* What broadcast remembers is bounded, by one more than maxRecentEvents, and
\* no event is in it twice, whichever expire while others come
\* (index.js:88-90).
RecentBounded ==
  /\ Len(recent) <= MaxRecent + 1
  /\ \A m, n \in DOMAIN recent : recent[m].id = recent[n].id => m = n
=============================================================================
