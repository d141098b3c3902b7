------------------------------ MODULE Sessions ------------------------------
(***************************************************************************)
(* The sessions of one user and the requests that depend on them           *)
(* (services/authService.js, services/tokenService.js,                     *)
(* middlewares/auth.js, models/Session.js).                                *)
(*                                                                         *)
(* Access and refresh tokens are issued in pairs, and a pair is its        *)
(* number.  The refresh token of pair n is the one a Session document      *)
(* stores as a hash; the access token of pair n is a JWT, which nothing    *)
(* but its age invalidates.                                                *)
(*                                                                         *)
(* A request is handled in one action per database call, as in             *)
(* QueueEntries.  A session past its expiresAt is answered like a revoked  *)
(* one, and EndSession stands for both.                                    *)
(***************************************************************************)
EXTENDS Integers, Sequences, FiniteSets

CONSTANTS
  Slots,                  \* the HTTP requests that may be in flight together
  MaxPairs                \* bound: the user rests, and no token expires, after so many

ASSUME MaxPairsAssumption == MaxPairs \in Nat

VARIABLES
  sessions,               \* the Session documents, in order of insertion
  family,                 \* family[n] is the session that pair n belongs to
  valid,                  \* the access tokens that have not expired
  http                    \* the requests

-----------------------------------------------------------------------------
Session == [token : Nat, revoked : BOOLEAN]

Kinds == {"api", "logout", "refresh", "start", "login"}

\* "waiting" is the browser's: ApiClient.
Stages == {"idle", "authenticate", "findSession", "saveSession",
           "revokeFamily", "updateMany", "create", "answered", "waiting"}

HttpRequest ==
  [pc : Stages, kind : Kinds, access : Nat, refresh : Nat, retried : BOOLEAN,
   session : Nat, pair : Nat, ok : BOOLEAN]

NoRequest ==
  [pc |-> "idle", kind |-> "api", access |-> 0, refresh |-> 0,
   retried |-> FALSE, session |-> 0, pair |-> 0, ok |-> FALSE]

SessionsTypeOK ==
  /\ sessions \in Seq(Session)
  /\ family \in Seq(DOMAIN sessions)
  /\ valid \subseteq DOMAIN family
  /\ http \in [Slots -> HttpRequest]

\* The first handler of each route.
FirstStage(kind) ==
  CASE kind \in {"api", "logout"} -> "authenticate"
    [] kind \in {"refresh", "start"} -> "findSession"
    [] kind = "login" -> "create"

Request(kind, access, refresh, retried) ==
  [NoRequest EXCEPT !.pc = FirstStage(kind), !.kind = kind,
                    !.access = access, !.refresh = refresh,
                    !.retried = retried]

Goto(k, stage) == http' = [http EXCEPT ![k].pc = stage]

\* What the handler knew is gone with it; the rest is the browser's.
Answer(k, ok, pair) ==
  http' = [http EXCEPT ![k] = [@ EXCEPT !.pc = "answered", !.ok = ok, !.pair = pair,
                                        !.access = 0, !.session = 0]]

NextPair == Len(family) + 1

-----------------------------------------------------------------------------
(* Handlers.                                                               *)

\* A protected route asks the JWT alone, never the session.
Authenticate(k) ==
  /\ http[k].pc = "authenticate"
  /\ IF http[k].access \notin valid
     THEN Answer(k, FALSE, 0)
     ELSE IF http[k].kind = "logout" THEN Goto(k, "updateMany")
                                     ELSE Answer(k, TRUE, 0)
  /\ UNCHANGED <<sessions, family, valid>>

\* logout: the session with this token, if there is one, and it answers 200.
RevokeByToken(k) ==
  /\ http[k].pc = "updateMany"
  /\ sessions' = [s \in DOMAIN sessions |->
                    [sessions[s] EXCEPT
                       !.revoked = @ \/ sessions[s].token = http[k].refresh]]
  /\ Answer(k, TRUE, 0)
  /\ UNCHANGED <<family, valid>>

SessionOf(token) == {s \in DOMAIN sessions : sessions[s].token = token}

\* Mutant: the check of revokedAt is dropped.
FindSession_IgnoresRevoked(k) ==
  /\ http[k].pc = "findSession"
  /\ IF SessionOf(http[k].refresh) = {}
     THEN Answer(k, FALSE, 0)
     ELSE \E s \in SessionOf(http[k].refresh) :
            http' = [http EXCEPT ![k] = [@ EXCEPT !.pc = "saveSession", !.session = s]]
  /\ UNCHANGED <<sessions, family, valid>>

FindSession(k) ==
  /\ http[k].pc = "findSession"
  /\ IF SessionOf(http[k].refresh) = {}
     THEN Answer(k, FALSE, 0)
     ELSE \E s \in SessionOf(http[k].refresh) :
            http' = [http EXCEPT
                       ![k] = [@ EXCEPT !.pc = IF sessions[s].revoked THEN "revokeFamily"
                                                                      ELSE "saveSession",
                                        !.session = s]]
  /\ UNCHANGED <<sessions, family, valid>>

\* Mutant: save writes the whole document as it was read.
SaveSession_Whole(k) ==
  /\ http[k].pc = "saveSession"
  /\ sessions' = [sessions EXCEPT
                    ![http[k].session] = [token |-> NextPair, revoked |-> FALSE]]
  /\ family' = Append(family, http[k].session)
  /\ valid' = valid \cup {NextPair}
  /\ Answer(k, TRUE, NextPair)

\* save writes the paths that were assigned, and revokedAt is not one of them.
SaveSession(k) ==
  /\ http[k].pc = "saveSession"
  /\ sessions' = [sessions EXCEPT ![http[k].session].token = NextPair]
  /\ family' = Append(family, http[k].session)
  /\ valid' = valid \cup {NextPair}
  /\ Answer(k, TRUE, NextPair)

\* A family has one session: every login starts its own.
RevokeFamily(k) ==
  /\ http[k].pc = "revokeFamily"
  /\ sessions' = [sessions EXCEPT ![http[k].session].revoked = TRUE]
  /\ Answer(k, FALSE, 0)
  /\ UNCHANGED <<family, valid>>

CreateSession(k) ==
  /\ http[k].pc = "create"
  /\ sessions' = Append(sessions, [token |-> NextPair, revoked |-> FALSE])
  /\ family' = Append(family, Len(sessions) + 1)
  /\ valid' = valid \cup {NextPair}
  /\ Answer(k, TRUE, NextPair)

ServerStep(k) ==
  \/ Authenticate(k) \/ RevokeByToken(k)
  \/ FindSession(k) \/ SaveSession(k) \/ RevokeFamily(k)
  \/ CreateSession(k)

-----------------------------------------------------------------------------
(* Time, and the user on another device.                                   *)

ExpireAccess(n) ==
  /\ NextPair <= MaxPairs
  /\ n \in valid
  /\ valid' = valid \ {n}
  /\ UNCHANGED <<sessions, family, http>>

\* Logout of all devices, revocation by id, a password reset, expiresAt.
EndSession(s) ==
  /\ ~sessions[s].revoked
  /\ sessions' = [sessions EXCEPT ![s].revoked = TRUE]
  /\ UNCHANGED <<family, valid, http>>
=============================================================================
