---------------------------- MODULE ServerProofs -----------------------------
(***************************************************************************)
(* The memory of the Socket.IO server and the shutdown of the process, for *)
(* any number of sockets, users, requests, events and attempts.            *)
(***************************************************************************)
EXTENDS Server, SequenceTheorems, FiniteSetTheorems, TLAPS

Event == [id : EventIds, fresh : BOOLEAN]

RecentInv == recent \in Seq(Event) /\ RecentBounded

ClientTypeOK ==
  client \in [Sockets -> [user : Users \cup {None}, rooms : SUBSET AllRooms,
                          counter : Counters \cup {None},
                          byName : BOOLEAN]]

SocketsInv ==
  /\ ClientTypeOK
  /\ presence \in [Groups -> [Ids -> SUBSET Sockets]]
  /\ counters \in [Counters -> SUBSET Sockets]
  /\ PresenceExact
  /\ RoomsAuthorized

-----------------------------------------------------------------------------
(* What broadcast remembers.                                               *)

\* The sweep keeps the newest events, and at most MaxRecent of them.
LEMMA SweepKeepsSuffix ==
  ASSUME recent \in Seq(Event)
  PROVE  \E c \in 0 .. Len(recent) :
           /\ Len(recent) - c <= MaxRecent
           /\ Sweep \in Seq(Event)
           /\ Len(Sweep) = Len(recent) - c
           /\ \A n \in 1 .. Len(recent) - c : Sweep[n] = recent[n + c]
<1> USE RealtimeAssumption
<1> DEFINE L == Len(recent)
           dropped == {n \in DOMAIN recent : ~Kept(n)}
           c == Cardinality(dropped)
<1>1. L \in Nat /\ DOMAIN recent = 1 .. L /\ \A n \in 1 .. L : recent[n] \in Event
  BY LenProperties
<1>2. IsFiniteSet(1 .. L) /\ Cardinality(1 .. L) = L
  <2> HIDE DEF L
  <2>1. 1 \in Int /\ L \in Int
    BY <1>1
  <2>2. /\ IsFiniteSet(1 .. L)
        /\ Cardinality(1 .. L) = IF 1 > L THEN 0 ELSE L - 1 + 1
    BY <2>1, FS_Interval
  <2> QED
    BY <1>1, <2>2
<1>3. IsFiniteSet(dropped) /\ c <= L /\ c \in Nat
  BY <1>1, <1>2, FS_Subset, FS_CardinalityType
<1>4. L - c <= MaxRecent
  <2>1. CASE L <= MaxRecent
    BY <1>1, <1>3, <2>1
  <2>2. CASE L > MaxRecent
    <3>1. 1 .. L - MaxRecent \subseteq dropped
      BY <1>1, <2>2 DEF Kept
    <3>2. Cardinality(1 .. L - MaxRecent) = L - MaxRecent
      BY <1>1, <2>2, FS_Interval
    <3>3. Cardinality(1 .. L - MaxRecent) <= c
      BY <1>3, <3>1, FS_Subset
    <3> QED
      BY <1>1, <1>3, <3>2, <3>3
  <2> QED
    BY <1>1, <2>1, <2>2
<1>5. Sweep = SubSeq(recent, 1 + c, L)
  BY DEF Sweep
<1> HIDE DEF c, L
<1>6. \A n \in 1 + c .. L : recent[n] \in Event
  BY <1>1, <1>3
<1>7. /\ Sweep \in Seq(Event)
      /\ Len(Sweep) = IF 1 + c <= L THEN L - (1 + c) + 1 ELSE 0
      /\ \A n \in 1 .. L - (1 + c) + 1 : Sweep[n] = recent[(1 + c) + n - 1]
  BY <1>1, <1>3, <1>5, <1>6, SubSeqProperties
<1>8. Len(Sweep) = L - c /\ \A n \in 1 .. L - c : Sweep[n] = recent[n + c]
  BY <1>1, <1>3, <1>7
<1>9. c \in 0 .. L
  BY <1>1, <1>3
<1> QED
  BY <1>4, <1>7, <1>8, <1>9 DEF L

LEMMA BroadcastStep ==
  ASSUME RecentInv, NEW id \in EventIds, Broadcast(id)
  PROVE  RecentInv'
<1> USE RealtimeAssumption
<1>1. /\ recent \in Seq(Event) /\ Len(recent) \in Nat
      /\ DOMAIN recent = 1 .. Len(recent)
      /\ \A m, n \in 1 .. Len(recent) : recent[m].id = recent[n].id => m = n
  BY LenProperties DEF RecentInv, RecentBounded
<1>2. PICK c \in 0 .. Len(recent) :
        /\ Len(recent) - c <= MaxRecent
        /\ Sweep \in Seq(Event)
        /\ Len(Sweep) = Len(recent) - c
        /\ \A n \in 1 .. Len(recent) - c : Sweep[n] = recent[n + c]
  BY <1>1, SweepKeepsSuffix
<1> DEFINE w == Sweep  l == Len(recent) - c
<1>3. /\ l \in Nat /\ l <= MaxRecent /\ w \in Seq(Event) /\ Len(w) = l
      /\ DOMAIN w = 1 .. l
  BY <1>1, <1>2, LenProperties
<1>4. \A m, n \in 1 .. l : w[m].id = w[n].id => m = n
  BY <1>1, <1>2
<1>p. PICK yes \in BOOLEAN : yes = TRUE
  OBVIOUS
<1> DEFINE e == [id |-> id, fresh |-> yes]
<1>5. e \in Event /\ e.id = id
  BY DEF Event
<1>6. \/ recent' = w
      \/ recent' = Append(w, e) /\ \A n \in 1 .. l : w[n].id # id
  BY <1>3, <1>p DEF Broadcast
<1> HIDE DEF w, l, e
<1>7. CASE recent' = w
  BY <1>3, <1>4, <1>7 DEF RecentInv, RecentBounded
<1>8. CASE recent' = Append(w, e) /\ \A n \in 1 .. l : w[n].id # id
  <2>1. /\ recent' \in Seq(Event) /\ Len(recent') = l + 1
        /\ \A n \in 1 .. l : recent'[n] = w[n]
        /\ recent'[l + 1] = e
    BY <1>3, <1>5, <1>8, AppendProperties
  <2>2. DOMAIN recent' = 1 .. l + 1
    BY <1>3, <2>1, LenProperties
  <2>3. ASSUME NEW m \in 1 .. l + 1, NEW n \in 1 .. l + 1,
               recent'[m].id = recent'[n].id
        PROVE  m = n
    BY <1>3, <1>4, <1>5, <1>8, <2>1, <2>3
  <2> QED
    BY <1>3, <2>1, <2>2, <2>3 DEF RecentInv, RecentBounded
<1> QED
  BY <1>6, <1>7, <1>8

LEMMA AgeStep ==
  ASSUME RecentInv, Age
  PROVE  RecentInv'
<1>1. /\ recent \in [1 .. Len(recent) -> Event] /\ Len(recent) \in Nat
      /\ DOMAIN recent = 1 .. Len(recent)
  BY LenProperties DEF RecentInv
<1>p. PICK no \in BOOLEAN : no = FALSE
  OBVIOUS
<1>2. PICK n \in DOMAIN recent : recent' = [recent EXCEPT ![n].fresh = no]
  BY <1>p DEF Age
<1>3. /\ recent' \in [1 .. Len(recent) -> Event]
      /\ \A m \in 1 .. Len(recent) : recent'[m].id = recent[m].id
  BY <1>1, <1>2 DEF Event
<1>4. recent' \in Seq(Event) /\ DOMAIN recent' = 1 .. Len(recent)
  BY <1>1, <1>3, SeqDef
<1>5. Len(recent') = Len(recent)
  BY <1>1, <1>4, LenProperties
<1> QED
  BY <1>1, <1>3, <1>4, <1>5 DEF RecentInv, RecentBounded

-----------------------------------------------------------------------------
(* Rooms.                                                                  *)

\* CanJoinRoom for the name of a room that is not the admins'.
LEMMA MayJoin ==
  ASSUME NEW user, NEW scope, NEW id, scope # "admin",
         \/ scope \in {"user", "customer", "employee"} /\ id = user.id
         \/ scope = "organization" /\ id = user.organizationId
         \/ scope = "branch" /\ id = user.branchId
         \/ scope = "venue" /\ id = user.venueId
  PROVE  CanJoinRoom(user, Name(<<scope, id>>))
<1>1. PICK target : target = Name(<<scope, id>>)
  OBVIOUS
<1>2. target.scope = scope /\ target.id = id
  BY <1>1 DEF Name, Target
<1>3. target # Name(AdminRoom)
  <2>1. Name(AdminRoom).scope = "admin"
    BY DEF Name, Target, AdminRoom
  <2> QED
    BY <1>2, <2>1
<1>4. CanJoinRoom(user, target)
  BY <1>2, <1>3 DEF CanJoinRoom
<1> QED
  BY <1>1, <1>4

LEMMA RoomsOfAUser ==
  ASSUME NEW user \in Users, NEW room \in RoomsForUser(user)
  PROVE  CanJoinRoom(user, Name(room)) /\ room \in AllRooms
<1>1. room \in AllRooms
  BY DEF AllRooms
<1>2. CASE room \in AdminRooms(user)
  <2>1. room = AdminRoom /\ HasRole(user, Elevated)
    BY <1>2 DEF AdminRooms
  <2>2. CanJoinRoom(user, Name(AdminRoom))
    BY <2>1, Zenon DEF CanJoinRoom
  <2> QED
    BY <1>1, <2>1, <2>2
<1>3. ASSUME NEW scope, NEW id, room \in Room(scope, id)
      PROVE  room = <<scope, id>>
  BY <1>3 DEF Room
<1>4. CASE room \notin AdminRooms(user)
  <2>1. \/ room \in Room("user", user.id)
        \/ room \in Room("organization", user.organizationId)
        \/ room \in Room("branch", user.branchId)
        \/ room \in Room("venue", user.venueId)
        \/ room \in Room("customer", user.id)
        \/ room \in Room("employee", user.id)
    BY <1>4 DEF RoomsForUser
  <2>2. PICK scope, id :
          /\ room = <<scope, id>> /\ scope # "admin"
          /\ \/ scope \in {"user", "customer", "employee"} /\ id = user.id
             \/ scope = "organization" /\ id = user.organizationId
             \/ scope = "branch" /\ id = user.branchId
             \/ scope = "venue" /\ id = user.venueId
    BY <1>3, <2>1
  <2>3. CanJoinRoom(user, Name(<<scope, id>>))
    BY <2>2, MayJoin
  <2> QED
    BY <1>1, <2>2, <2>3
<1> QED
  BY <1>1, <1>2, <1>4

-----------------------------------------------------------------------------
(* Sockets.                                                                *)

LEMMA Members ==
  ASSUME SocketsInv, NEW s \in Connected
  PROVE  /\ s \in Sockets /\ client[s].user \in Users
         /\ client[s].user.id \in Ids /\ GroupOf(client[s].user) \in Groups
         /\ client[s].rooms \subseteq AllRooms
         /\ client[s].counter \in Counters \cup {None}
BY DEF SocketsInv, ClientTypeOK, Connected, Ids, GroupOf, Groups

\* Sockets whose user, group and rooms a step leaves alone.
LEMMA ConnectStep ==
  ASSUME SocketsInv, NEW s \in Sockets, NEW user \in Users,
         NEW c \in Counters \cup {None}, Connect(s, user, c)
  PROVE  SocketsInv'
<1> USE RealtimeAssumption
<1> DEFINE new == [user |-> user, rooms |-> RoomsForUser(user),
                   counter |-> c, byName |-> TRUE]
           g == GroupOf(user)
<1>1. client[s].user = None /\ s \notin Connected /\ user # None
  BY DEF Connect, Connected
<1>2. RoomsForUser(user) \subseteq AllRooms
  BY RoomsOfAUser
<1>3. g \in Groups /\ user.id \in Ids
  BY DEF GroupOf, Groups, Ids
<1>4. /\ ClientTypeOK' /\ client'[s] = new
      /\ \A t \in Sockets \ {s} : client'[t] = client[t]
  BY <1>2 DEF Connect, SocketsInv, ClientTypeOK
<1>5. Connected' = Connected \cup {s}
  BY <1>1, <1>4 DEF Connected
<1>6. /\ presence' \in [Groups -> [Ids -> SUBSET Sockets]]
      /\ \A h \in Groups, i \in Ids :
           presence'[h][i] = IF h = g /\ i = user.id THEN presence[h][i] \cup {s}
                             ELSE presence[h][i]
  BY <1>3 DEF Connect, SocketsInv
<1>7. /\ counters' \in [Counters -> SUBSET Sockets]
      /\ \A d \in Counters : counters'[d] = counters[d] \cup
                                (IF d = c THEN {s} ELSE {})
  BY DEF Connect, AtCounter, SocketsInv
<1>8. PresenceExact'
  <2>1. ASSUME NEW h \in Groups, NEW i \in Ids
        PROVE  presence'[h][i] = {t \in Connected' :
                                    /\ client'[t].user.id = i
                                    /\ GroupOf(client'[t].user) = h}
    <3>1. presence[h][i] = {t \in Connected : /\ client[t].user.id = i
                                              /\ GroupOf(client[t].user) = h}
      BY DEF SocketsInv, PresenceExact
    <3>2. \A t \in Connected : t \in Sockets /\ t # s /\ client'[t] = client[t]
      BY <1>1, <1>4 DEF Connected
    <3>3. client'[s].user = user
      BY <1>4
    <3> DEFINE At(t) == client'[t].user.id = i /\ GroupOf(client'[t].user) = h
    <3>4. presence[h][i] = {t \in Connected : At(t)}
      BY <3>1, <3>2
    <3>5. At(s) <=> (h = g /\ i = user.id)
      BY <3>3
    <3> HIDE DEF At
    <3>6. presence'[h][i] = {t \in Connected \cup {s} : At(t)}
      <4>1. CASE h = g /\ i = user.id
        <5>1. presence'[h][i] = presence[h][i] \cup {s}
          BY <1>6, <4>1
        <5> QED
          BY <3>4, <3>5, <4>1, <5>1
      <4>2. CASE ~(h = g /\ i = user.id)
        <5>1. presence'[h][i] = presence[h][i]
          BY <1>6, <4>2
        <5> QED
          BY <3>4, <3>5, <4>2, <5>1
      <4> QED
        BY <4>1, <4>2
    <3> QED
      BY <1>5, <3>6 DEF At
  <2>2. ASSUME NEW t \in Connected', client'[t].counter # None
        PROVE  t \in counters'[client'[t].counter]
    <3>1. CASE t = s
      BY <1>4, <1>7, <2>2, <3>1
    <3>2. CASE t # s
      <4>1. t \in Connected /\ client'[t] = client[t]
        BY <1>4, <1>5, <3>2 DEF Connected
      <4>2. client[t].counter \in Counters
        BY <2>2, <4>1, Members
      <4> QED
        BY <1>7, <2>2, <4>1, <4>2 DEF SocketsInv, PresenceExact
    <3> QED
      BY <3>1, <3>2
  <2> QED
    BY <2>1, <2>2 DEF PresenceExact
<1>9. RoomsAuthorized'
  <2> SUFFICES ASSUME NEW t \in Connected', client'[t].byName,
                      NEW room \in client'[t].rooms
               PROVE  CanJoinRoom(client'[t].user, Name(room))
    BY DEF RoomsAuthorized
  <2>1. CASE t = s
    BY <1>4, <2>1, RoomsOfAUser
  <2>2. CASE t # s
    <3>1. t \in Connected /\ client'[t] = client[t]
      BY <1>4, <1>5, <2>2 DEF Connected
    <3> QED
      BY <3>1 DEF SocketsInv, RoomsAuthorized
  <2> QED
    BY <2>1, <2>2
<1> QED
  BY <1>4, <1>6, <1>7, <1>8, <1>9 DEF SocketsInv

\* A socket that stays connected, as the same user.
LEMMA RoomsStep ==
  ASSUME SocketsInv, NEW s \in Sockets, NEW target \in Targets,
         RoomJoin(s, target) \/ RoomLeave(s, target)
  PROVE  SocketsInv'
<1>1. s \in Connected /\ UNCHANGED <<presence, counters>>
  BY DEF RoomJoin, RoomLeave, Connected
<1>2. client[s].rooms \subseteq AllRooms /\ target.rooms \subseteq AllRooms
  BY <1>1, Members DEF AllRooms
<1>3. /\ ClientTypeOK'
      /\ \A t \in Sockets : /\ client'[t].user = client[t].user
                            /\ client'[t].counter = client[t].counter
                            /\ t # s => client'[t] = client[t]
  <2>1. CASE RoomJoin(s, target)
    <3>1. PICK rooms : rooms = client[s].rooms \cup target.rooms
      OBVIOUS
    <3>2. PICK byName : byName = (client[s].byName /\ IsName(target))
      OBVIOUS
    <3>3. client' = [client EXCEPT ![s].rooms = rooms, ![s].byName = byName]
      BY <2>1, <3>1, <3>2 DEF RoomJoin
    <3>4. rooms \subseteq AllRooms /\ byName \in BOOLEAN
      BY <1>2, <3>1, <3>2
    <3> QED
      BY <3>3, <3>4 DEF SocketsInv, ClientTypeOK
  <2>2. CASE RoomLeave(s, target)
    BY <1>2, <2>2 DEF RoomLeave, SocketsInv, ClientTypeOK
  <2> QED
    BY <2>1, <2>2
<1>4. Connected' = Connected
  BY <1>3 DEF Connected
<1>5. PresenceExact'
  BY <1>1, <1>3, <1>4 DEF PresenceExact, SocketsInv, Connected
<1>6. ASSUME client'[s].byName, NEW room \in client'[s].rooms
      PROVE  CanJoinRoom(client[s].user, Name(room))
  <2>1. client[s].byName =>
          \A old \in client[s].rooms : CanJoinRoom(client[s].user, Name(old))
    BY <1>1 DEF SocketsInv, RoomsAuthorized
  <2>2. CASE RoomJoin(s, target)
    <3>1. /\ client'[s].rooms = client[s].rooms \cup target.rooms
          /\ client[s].byName /\ IsName(target)
          /\ CanJoinRoom(client[s].user, target)
      BY <1>6, <2>2 DEF RoomJoin, SocketsInv, ClientTypeOK
    <3>2. /\ target = Name(<<target.scope, target.id>>)
          /\ target.rooms = {<<target.scope, target.id>>}
      BY <3>1 DEF IsName, Name, Target
    <3>3. \A new \in target.rooms : CanJoinRoom(client[s].user, Name(new))
      BY <3>1, <3>2
    <3> QED
      BY <1>6, <2>1, <3>1, <3>3
  <2>3. CASE RoomLeave(s, target)
    <3>1. /\ client'[s].rooms \subseteq client[s].rooms
          /\ client'[s].byName = client[s].byName
      BY <2>3 DEF RoomLeave, SocketsInv, ClientTypeOK
    <3> QED
      BY <1>6, <2>1, <3>1
  <2> QED
    BY <2>2, <2>3
<1>7. RoomsAuthorized'
  <2> SUFFICES ASSUME NEW t \in Connected', client'[t].byName,
                      NEW room \in client'[t].rooms
               PROVE  CanJoinRoom(client'[t].user, Name(room))
    BY DEF RoomsAuthorized
  <2>1. t \in Connected /\ t \in Sockets /\ client'[t].user = client[t].user
    BY <1>3, <1>4 DEF Connected
  <2>2. CASE t = s
    BY <1>6, <2>1, <2>2
  <2>3. CASE t # s
    BY <1>3, <2>1, <2>3 DEF SocketsInv, RoomsAuthorized
  <2> QED
    BY <2>2, <2>3
<1> QED
  BY <1>1, <1>3, <1>5, <1>7 DEF SocketsInv

LEMMA CounterStep ==
  ASSUME SocketsInv, NEW s \in Sockets, NEW c \in Counters \cup {None},
         CounterActive(s, c)
  PROVE  SocketsInv'
<1> USE RealtimeAssumption
<1> DEFINE user == client[s].user
           g == GroupOf(user)
<1>1. /\ s \in Connected /\ client' = [client EXCEPT ![s].counter = c]
      /\ presence' = [presence EXCEPT ![g][user.id] = @ \cup {s}]
      /\ counters' = AtCounter(s, c)
  BY DEF CounterActive, Connected
<1>2. user \in Users /\ g \in Groups /\ user.id \in Ids
  BY <1>1, Members
<1>3. /\ ClientTypeOK' /\ client'[s].counter = c
      /\ \A t \in Sockets : /\ client'[t].user = client[t].user
                            /\ client'[t].rooms = client[t].rooms
                            /\ client'[t].byName = client[t].byName
                            /\ t # s => client'[t] = client[t]
  BY <1>1 DEF SocketsInv, ClientTypeOK
<1>4. Connected' = Connected
  BY <1>3 DEF Connected
<1>5. s \in presence[g][user.id]
  BY <1>1, <1>2 DEF SocketsInv, PresenceExact
<1>6. presence' = presence
  <2> DEFINE P == presence
  <2>1. P \in [Groups -> [Ids -> SUBSET Sockets]]
    BY DEF SocketsInv
  <2>2. P[g][user.id] \cup {s} = P[g][user.id]
    BY <1>5
  <2>3. presence' = [P EXCEPT ![g][user.id] = P[g][user.id]]
    BY <1>1, <2>2
  <2> HIDE DEF P, g
  <2>4. [P EXCEPT ![g][user.id] = P[g][user.id]] = P
    BY <1>2, <2>1
  <2> QED
    BY <2>3, <2>4 DEF P
<1>7. /\ counters' \in [Counters -> SUBSET Sockets]
      /\ \A d \in Counters : counters'[d] = counters[d] \cup
                                (IF d = c THEN {s} ELSE {})
  BY <1>1 DEF AtCounter, SocketsInv
<1>8. PresenceExact'
  <2>1. ASSUME NEW t \in Connected', client'[t].counter # None
        PROVE  t \in counters'[client'[t].counter]
    <3>1. t \in Connected /\ t \in Sockets
      BY <1>4 DEF Connected
    <3>2. CASE t = s
      BY <1>3, <1>7, <2>1, <3>2
    <3>3. CASE t # s
      <4>1. client'[t] = client[t] /\ client[t].counter \in Counters
        BY <1>3, <2>1, <3>1, <3>3, Members
      <4> QED
        BY <1>7, <2>1, <3>1, <4>1 DEF SocketsInv, PresenceExact
    <3> QED
      BY <3>2, <3>3
  <2>2. ASSUME NEW h \in Groups, NEW i \in Ids
        PROVE  presence'[h][i] = {t \in Connected' :
                                    /\ client'[t].user.id = i
                                    /\ GroupOf(client'[t].user) = h}
    <3>1. \A t \in Connected : client'[t].user = client[t].user
      BY <1>3 DEF Connected
    <3> QED
      BY <1>4, <1>6, <3>1 DEF SocketsInv, PresenceExact
  <2> QED
    BY <2>1, <2>2 DEF PresenceExact
<1>9. RoomsAuthorized'
  BY <1>3, <1>4 DEF RoomsAuthorized, SocketsInv, Connected
<1>10. presence' \in [Groups -> [Ids -> SUBSET Sockets]]
  BY <1>6 DEF SocketsInv
<1> QED
  BY <1>3, <1>7, <1>8, <1>9, <1>10 DEF SocketsInv

LEMMA DisconnectStep ==
  ASSUME SocketsInv, NEW s \in Sockets, Disconnect(s)
  PROVE  SocketsInv' /\ Connected' = Connected \ {s}
<1> USE RealtimeAssumption
<1> DEFINE user == client[s].user
<1>1. s \in Connected /\ client' = [client EXCEPT ![s] = Offline]
  BY DEF Disconnect, Connected
<1>2. user.id \in Ids
  BY <1>1, Members
<1>3. /\ ClientTypeOK' /\ client'[s] = Offline
      /\ \A t \in Sockets \ {s} : client'[t] = client[t]
  BY <1>1 DEF SocketsInv, ClientTypeOK, Offline
<1>4. Connected' = Connected \ {s}
  BY <1>3 DEF Connected, Offline
<1>5. /\ presence' \in [Groups -> [Ids -> SUBSET Sockets]]
      /\ \A h \in Groups, i \in Ids :
           presence'[h][i] = IF i = user.id THEN presence[h][i] \ {s}
                             ELSE presence[h][i]
  BY <1>2 DEF Disconnect, SocketsInv
<1>6. /\ counters' \in [Counters -> SUBSET Sockets]
      /\ \A d \in Counters : counters'[d] = counters[d] \
                                (IF d = client[s].counter THEN {s} ELSE {})
  BY DEF Disconnect, SocketsInv
<1>7. PresenceExact'
  <2>1. ASSUME NEW h \in Groups, NEW i \in Ids
        PROVE  presence'[h][i] = {t \in Connected' :
                                    /\ client'[t].user.id = i
                                    /\ GroupOf(client'[t].user) = h}
    <3> DEFINE At(t) == client[t].user.id = i /\ GroupOf(client[t].user) = h
    <3>1. presence[h][i] = {t \in Connected : At(t)}
      BY DEF SocketsInv, PresenceExact
    <3>2. At(s) => i = user.id
      OBVIOUS
    <3>3. \A t \in Connected' : client'[t] = client[t]
      BY <1>3, <1>4 DEF Connected
    <3> HIDE DEF At
    <3>4. presence'[h][i] = {t \in Connected \ {s} : At(t)}
      BY <1>5, <3>1, <3>2, ZenonT(40)
    <3> QED
      BY <1>4, <3>3, <3>4 DEF At
  <2>2. ASSUME NEW t \in Connected', client'[t].counter # None
        PROVE  t \in counters'[client'[t].counter]
    <3>1. t \in Connected /\ t # s /\ client'[t] = client[t]
      BY <1>3, <1>4 DEF Connected
    <3>2. client[t].counter \in Counters
      BY <2>2, <3>1, Members
    <3> QED
      BY <1>6, <2>2, <3>1, <3>2 DEF SocketsInv, PresenceExact
  <2> QED
    BY <2>1, <2>2 DEF PresenceExact
<1>8. RoomsAuthorized'
  BY <1>3, <1>4 DEF RoomsAuthorized, SocketsInv, Connected
<1> QED
  BY <1>3, <1>4, <1>5, <1>6, <1>7, <1>8 DEF SocketsInv

LEMMA SocketsStart ==
  /\ RealtimeInit => SocketsInv /\ RecentInv
  /\ RealtimeReset => SocketsInv' /\ RecentInv'
<1>1. RealtimeInit => SocketsInv
  BY DEF RealtimeInit, SocketsInv, ClientTypeOK, Offline, PresenceExact,
         RoomsAuthorized, Connected
<1>2. RealtimeReset => SocketsInv'
  BY DEF RealtimeReset, SocketsInv, ClientTypeOK, Offline, PresenceExact,
         RoomsAuthorized, Connected
<1>3. RealtimeInit => RecentInv
  BY RealtimeAssumption DEF RealtimeInit, RecentInv, RecentBounded
<1>4. RealtimeReset => RecentInv'
  BY RealtimeAssumption DEF RealtimeReset, RecentInv, RecentBounded
<1> QED
  BY <1>1, <1>2, <1>3, <1>4

-----------------------------------------------------------------------------
(* The process.                                                            *)

ProcessTypeOK ==
  /\ stage \in {"validate", "database", "sockets", "bind", "listening", "closed"}
  /\ attempt = 1 \/ attempt \in 1 .. RetryAttempts
  /\ signalled \in BOOLEAN /\ early \in BOOLEAN
  /\ drain \in {"no", "closing", "disconnecting"}
  /\ exit \in {"none", "0", "1"}
  /\ http \in [Requests -> {"none", "open", "orphan"}]

NobodyThere == Connected = {} /\ \A r \in Requests : http[r] # "open"

\* A drain that began with a listening server has closed it, so that nobody
\* comes any more once everybody has gone.
DrainInv ==
  /\ drain # "no" /\ ~early => stage = "closed"
  /\ drain = "disconnecting" /\ ~early => NobodyThere
  /\ exit = "0" => drain = "disconnecting"

ServerInv == ProcessTypeOK /\ DrainInv /\ SocketsInv /\ RecentInv

LEMMA MemoryUnchanged ==
  ASSUME SocketsInv, RecentInv, UNCHANGED realtimeVars
  PROVE  SocketsInv' /\ RecentInv' /\ Connected' = Connected
BY DEF SocketsInv, RecentInv, realtimeVars, ClientTypeOK, PresenceExact,
       RoomsAuthorized, RecentBounded, Connected

LEMMA StartStep ==
  ASSUME ServerInv, Validate \/ ConnectDatabase \/ InitSockets \/ Listen
  PROVE  ServerInv'
<1> USE ServerAssumption
<1>1. SocketsInv' /\ RecentInv' /\ Connected' = Connected
  BY MemoryUnchanged
     DEF Validate, ConnectDatabase, InitSockets, Listen, ServerInv
<1>2. ProcessTypeOK'
  <2>1. CASE Validate
    BY <2>1 DEF Validate, ServerInv, ProcessTypeOK
  <2>2. CASE ConnectDatabase
    BY <2>2 DEF ConnectDatabase, ServerInv, ProcessTypeOK
  <2>3. CASE InitSockets
    BY <2>3 DEF InitSockets, ServerInv, ProcessTypeOK
  <2>4. CASE Listen
    BY <2>4 DEF Listen, ServerInv, ProcessTypeOK
  <2> QED
    BY <2>1, <2>2, <2>3, <2>4
<1>3. UNCHANGED <<drain, early, http>> /\ stage # "closed"
  BY DEF Validate, ConnectDatabase, InitSockets, Listen
<1>4. exit' \in {exit, "1"}
  BY DEF Validate, ConnectDatabase, InitSockets, Listen
<1>5. DrainInv'
  BY <1>1, <1>3, <1>4 DEF DrainInv, NobodyThere, ServerInv
<1> QED
  BY <1>1, <1>2, <1>5 DEF ServerInv

LEMMA EndStep ==
  ASSUME ServerInv, Shutdown \/ Closed \/ DisconnectDatabase \/ Timeout
  PROVE  ServerInv'
<1>1. SocketsInv' /\ RecentInv' /\ Connected' = Connected
  BY MemoryUnchanged
     DEF Shutdown, Closed, DisconnectDatabase, Timeout, ServerInv
<1>2. CASE Shutdown
  <2>1. ProcessTypeOK'
    BY <1>2 DEF Shutdown, ServerInv, ProcessTypeOK
  <2>2. DrainInv'
    BY <1>1, <1>2 DEF Shutdown, Running, DrainInv, NobodyThere, ServerInv,
                      ProcessTypeOK
  <2> QED
    BY <1>1, <2>1, <2>2 DEF ServerInv
<1>3. CASE Closed
  BY <1>1, <1>3 DEF Closed, Running, DrainInv, NobodyThere, ServerInv,
                    ProcessTypeOK
<1>4. CASE DisconnectDatabase
  BY <1>1, <1>4 DEF DisconnectDatabase, DrainInv, NobodyThere, ServerInv,
                    ProcessTypeOK
<1>5. CASE Timeout
  BY <1>1, <1>5 DEF Timeout, DrainInv, NobodyThere, ServerInv, ProcessTypeOK
<1> QED
  BY <1>2, <1>3, <1>4, <1>5

LEMMA RestartStep ==
  ASSUME ServerInv, Restart
  PROVE  ServerInv'
<1>1. SocketsInv' /\ RecentInv'
  BY SocketsStart DEF Restart
<1>2. ProcessTypeOK' /\ DrainInv'
  BY DEF Restart, ProcessTypeOK, DrainInv
<1> QED
  BY <1>1, <1>2 DEF ServerInv

LEMMA HttpStep ==
  ASSUME ServerInv, NEW r \in Requests, Accept(r) \/ Abort(r) \/ Respond(r)
  PROVE  ServerInv'
<1>1. SocketsInv' /\ RecentInv' /\ Connected' = Connected
  BY MemoryUnchanged DEF Accept, Abort, Respond, ServerInv
<1>2. UNCHANGED <<stage, attempt, signalled, drain, early, exit>>
  BY DEF Accept, Abort, Respond
<1>3. PICK h \in {"none", "open", "orphan"} :
        /\ http' = [http EXCEPT ![r] = h]
        /\ h = "open" => stage = "listening"
  BY DEF Accept, Abort, Respond
<1>4. /\ http' \in [Requests -> {"none", "open", "orphan"}]
      /\ \A q \in Requests : http'[q] = IF q = r THEN h ELSE http[q]
  BY <1>3 DEF ServerInv, ProcessTypeOK
<1>5. ProcessTypeOK'
  BY <1>2, <1>4 DEF ServerInv, ProcessTypeOK
<1>6. DrainInv'
  BY <1>1, <1>2, <1>3, <1>4 DEF ServerInv, DrainInv, NobodyThere
<1> QED
  BY <1>1, <1>5, <1>6 DEF ServerInv

LEMMA EventStep ==
  ASSUME ServerInv, UNCHANGED processVars,
         (\E id \in EventIds : Broadcast(id)) \/ Age
  PROVE  ServerInv'
<1>1. RecentInv' /\ UNCHANGED <<client, presence, counters>>
  BY BroadcastStep, AgeStep DEF ServerInv, Broadcast, Age
<1> QED
  BY <1>1 DEF ServerInv, SocketsInv, ClientTypeOK, PresenceExact, RoomsAuthorized,
              Connected, ProcessTypeOK, DrainInv, NobodyThere, processVars

LEMMA SocketStepInv ==
  ASSUME ServerInv, NEW s \in Sockets, Socket(s)
  PROVE  ServerInv'
<1>1. ProcessTypeOK'
  BY DEF Socket, processVars, ServerInv, ProcessTypeOK
<1>2. UNCHANGED recent
  BY DEF Socket, SocketStep, Connect, RoomJoin, RoomLeave, CounterActive,
         Disconnect
<1>3. RecentInv'
  BY <1>2 DEF RecentInv, RecentBounded, ServerInv
<1>4. CASE stage = "listening" /\ SocketStep(s)
  <2>1. SocketsInv'
    BY <1>4, ConnectStep, RoomsStep, CounterStep DEF SocketStep, ServerInv
  <2>2. DrainInv'
    BY <1>4 DEF Socket, processVars, ServerInv, DrainInv
  <2> QED
    BY <1>1, <1>3, <2>1, <2>2 DEF ServerInv
<1>5. CASE Disconnect(s)
  <2>1. SocketsInv' /\ Connected' = Connected \ {s}
    BY <1>5, DisconnectStep DEF ServerInv
  <2>2. DrainInv'
    BY <2>1 DEF Socket, processVars, ServerInv, DrainInv, NobodyThere
  <2> QED
    BY <1>1, <1>3, <2>1, <2>2 DEF ServerInv
<1> QED
  BY <1>4, <1>5 DEF Socket

LEMMA ServerInvariant == ServerSpec => []ServerInv
<1>1. ServerInit => ServerInv
  <2> SUFFICES ASSUME ServerInit PROVE ServerInv
    OBVIOUS
  <2>1. SocketsInv /\ RecentInv
    BY SocketsStart DEF ServerInit
  <2>2. ProcessTypeOK /\ DrainInv
    BY DEF ServerInit, ProcessTypeOK, DrainInv
  <2> QED
    BY <2>1, <2>2 DEF ServerInv
<1>2. ServerInv /\ [ServerNext]_serverVars => ServerInv'
  <2> SUFFICES ASSUME ServerInv, [ServerNext]_serverVars PROVE ServerInv'
    OBVIOUS
  <2>1. CASE UNCHANGED serverVars
    <3>1. UNCHANGED processVars /\ UNCHANGED realtimeVars
      BY <2>1 DEF serverVars
    <3>2. SocketsInv' /\ RecentInv' /\ Connected' = Connected
      BY <3>1, MemoryUnchanged DEF ServerInv
    <3>3. ProcessTypeOK' /\ DrainInv'
      BY <3>1, <3>2 DEF processVars, ServerInv, ProcessTypeOK, DrainInv,
                        NobodyThere
    <3> QED
      BY <3>2, <3>3 DEF ServerInv
  <2>2. ASSUME NEW r \in Requests, Announce(r)
        PROVE  ServerInv'
    BY <2>2, EventStep DEF Announce
  <2>3. CASE Running /\ Age /\ UNCHANGED processVars
    BY <2>3, EventStep
  <2> QED
    BY <2>1, <2>2, <2>3, StartStep, EndStep, RestartStep, HttpStep, SocketStepInv
       DEF ServerNext
<1> QED
  BY <1>1, <1>2, PTL DEF ServerSpec

-----------------------------------------------------------------------------
\* The memory of the socket server and the state of the process stay within
\* their types, over restarts too; connectDatabase makes no attempt beyond
\* those configured (connection.js:9-19).
THEOREM ServerTypeCorrect == ServerSpec => []ServerTypeOK
<1>1. ServerInv => ServerTypeOK
  BY DEF ServerInv, ProcessTypeOK, SocketsInv, RecentInv, ClientTypeOK, Event,
         ServerTypeOK, RealtimeTypeOK
<1> QED
  BY <1>1, ServerInvariant, PTL

\* A shutdown that exits with 0 has cut nobody off, unless it was asked for
\* before the server listened (server.js:9-13).
THEOREM GracefulShutdown == ServerSpec => []NobodyCutOff
<1>1. ServerInv => NobodyCutOff
  BY DEF ServerInv, DrainInv, NobodyThere, NobodyCutOff
<1> QED
  BY <1>1, ServerInvariant, PTL

\* The presence that admins see is the sockets that are connected
\* (presence.js:4-8).
THEOREM PresenceIsExact == ServerSpec => []PresenceExact
<1>1. ServerInv => PresenceExact
  BY DEF ServerInv, SocketsInv
<1> QED
  BY <1>1, ServerInvariant, PTL

\* No socket that asks for rooms by their names is in one that its user may not
\* join (rooms.js:3-13, 25-36); what others ask for is not what is checked.
THEOREM RoomsAreAuthorized == ServerSpec => []RoomsAuthorized
<1>1. ServerInv => RoomsAuthorized
  BY DEF ServerInv, SocketsInv
<1> QED
  BY <1>1, ServerInvariant, PTL

\* What broadcast remembers is bounded and free of duplicates, for every
\* maxRecentEvents and every order of expiry (socket/index.js:88-90).
THEOREM RecentIsBounded == ServerSpec => []RecentBounded
<1>1. ServerInv => RecentBounded
  BY DEF ServerInv, RecentInv
<1> QED
  BY <1>1, ServerInvariant, PTL
=============================================================================
