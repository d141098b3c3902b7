----------------------------- MODULE ApiClient ------------------------------
(***************************************************************************)
(* The browser of one user over Sessions: the axios client with its        *)
(* refresh-and-retry interceptor (services/apiClient.js), the tokens in    *)
(* localStorage (services/tokenStorage.js), the cookies, and the thunks    *)
(* that sign in, sign out and refresh at start (features/auth/authSlice).  *)
(*                                                                         *)
(* A call k is a request a page makes; the slot t of a tab is the one      *)
(* refresh that the calls of the tab share (refreshPromise).  JavaScript   *)
(* runs a callback to its end, so every answer is dealt with in one step,  *)
(* and all who wait for a refresh go on with it.  The network may lose a   *)
(* request or an answer, and the server may crash in between.              *)
(***************************************************************************)
EXTENDS Sessions

CONSTANTS
  Tabs,
  Calls,
  TabOf                   \* the tab of a call

ASSUME SlotsAssumption ==
  /\ Slots = Tabs \cup Calls /\ Tabs \cap Calls = {}
  /\ TabOf \in [Calls -> Tabs]

VARIABLES
  stored,                 \* the pair in localStorage, shared by the tabs; 0: none
  cookie,                 \* the pair in the cookies; 0: none
  overlapped              \* whether two refreshes were ever in flight together

server == <<sessions, family, valid>>
clientVars == <<sessions, family, valid, http, stored, cookie, overlapped>>

-----------------------------------------------------------------------------
\* Header and body come from localStorage; the server falls back to cookies.
Credential == IF stored # 0 THEN stored ELSE cookie

Put(k, request) == [http EXCEPT ![k] = request]

Refreshing == {k \in Slots : http[k].kind \in {"refresh", "start"}
                             /\ http[k].pc # "idle"}

Store(pair) == stored' = pair /\ cookie' = pair

\* A page asks for something.
Call(k) ==
  /\ http[k].pc = "idle"
  /\ http' = Put(k, Request("api", Credential, 0, FALSE))
  /\ UNCHANGED <<server, stored, cookie, overlapped>>

SignIn(k) ==
  /\ http[k].pc = "idle"
  /\ stored = 0
  /\ http' = Put(k, Request("login", 0, 0, FALSE))
  /\ UNCHANGED <<server, stored, cookie, overlapped>>

\* The body carries the refresh token of this moment, whatever comes.
SignOut(k) ==
  /\ http[k].pc = "idle"
  /\ stored # 0
  /\ http' = Put(k, Request("logout", stored, stored, FALSE))
  /\ UNCHANGED <<server, stored, cookie, overlapped>>

\* App mounts: refreshSession, which knows nothing of the shared promise.
Start(k) ==
  /\ http[k].pc = "idle"
  /\ stored # 0
  /\ http' = Put(k, Request("start", stored, stored, FALSE))
  /\ overlapped' = (overlapped \/ Refreshing # {})
  /\ UNCHANGED <<server, stored, cookie>>

-----------------------------------------------------------------------------
(* Answers.                                                                *)

Unauthorized(k) == http[k].pc = "answered" /\ ~http[k].ok

\* What the caller of k does with its answer; a second 401 is an error.
Settle(k) ==
  /\ k \in Calls
  /\ http[k].pc = "answered"
  /\ http[k].ok \/ http[k].retried \/ http[k].kind \in {"start", "login"}
  /\ http' = Put(k, NoRequest)
  /\ CASE http[k].ok /\ http[k].kind \in {"login", "start"} -> Store(http[k].pair)
       [] http[k].ok /\ http[k].kind = "logout" -> Store(0)
       [] ~http[k].ok /\ http[k].kind = "start" ->
            stored' = 0 /\ UNCHANGED cookie
       [] OTHER -> UNCHANGED <<stored, cookie>>
  /\ UNCHANGED <<server, overlapped>>

\* The first 401 of a call: wait for the refresh of the tab, and start it if
\* there is none.
JoinRefresh(k) ==
  LET t == TabOf[k]
      wait == [http EXCEPT ![k] = [@ EXCEPT !.pc = "waiting", !.retried = TRUE]]
  IN  /\ k \in Calls
      /\ Unauthorized(k)
      /\ ~http[k].retried /\ http[k].kind \in {"api", "logout"}
      /\ IF http[t].pc = "idle"
         THEN /\ http' = [wait EXCEPT
                            ![t] = Request("refresh", Credential, Credential,
                                           FALSE)]
              /\ overlapped' = (overlapped \/ Refreshing # {})
         ELSE http' = wait /\ UNCHANGED overlapped
      /\ UNCHANGED <<server, stored, cookie>>

Waiters(t) == {k \in Calls : TabOf[k] = t /\ http[k].pc = "waiting"}

\* Mutant: the new tokens are used, and not stored.
RefreshSucceeded_KeepsOld(t) ==
  /\ http[t].pc = "answered" /\ http[t].ok
  /\ http' = [k \in Slots |->
                CASE k = t -> NoRequest
                  [] k \in Waiters(t) ->
                       Request(http[k].kind, http[t].pair, http[k].refresh, TRUE)
                  [] OTHER -> http[k]]
  /\ UNCHANGED <<server, stored, cookie, overlapped>>

\* The shared refresh is over: all who wait are retried, or fail.  A retry
\* has a new header and the body it had.
RefreshSucceeded(t) ==
  /\ http[t].pc = "answered" /\ http[t].ok
  /\ Store(http[t].pair)
  /\ http' = [k \in Slots |->
                CASE k = t -> NoRequest
                  [] k \in Waiters(t) ->
                       Request(http[k].kind, http[t].pair, http[k].refresh, TRUE)
                  [] OTHER -> http[k]]
  /\ UNCHANGED <<server, overlapped>>

\* Mutant: the interceptor does not except /auth/refresh, whose own 401 then
\* waits for the promise of the refresh.
RefreshFailed_WaitsForItself(t) ==
  /\ stored' = 0
  /\ http' = [http EXCEPT ![t].pc = "waiting"]
  /\ UNCHANGED <<server, cookie, overlapped>>

\* Mutant: those who wait are not told.
RefreshFailed_Silently(t) ==
  /\ stored' = 0
  /\ http' = Put(t, NoRequest)
  /\ UNCHANGED <<server, cookie, overlapped>>

\* stored is cleared; the event queueit:logout has no listener.
RefreshFailed(t) ==
  /\ stored' = 0
  /\ http' = [k \in Slots |-> IF k = t \/ k \in Waiters(t) THEN NoRequest
                                                            ELSE http[k]]
  /\ UNCHANGED <<server, cookie, overlapped>>

\* No answer arrives, whether or not the server has done its work.
NetworkError(k) ==
  /\ http[k].pc \notin {"idle", "waiting"}
  /\ IF k \in Tabs
     THEN RefreshFailed(k)
     ELSE /\ http' = Put(k, NoRequest)
          /\ stored' = IF http[k].kind = "start" THEN 0 ELSE stored
          /\ UNCHANGED <<server, cookie, overlapped>>

-----------------------------------------------------------------------------
\* A user who has signed in and whose tabs are open.
ClientInit ==
  /\ sessions = <<[token |-> 1, revoked |-> FALSE]>>
  /\ family = <<1>>
  /\ valid = {1}
  /\ http = [k \in Slots |-> NoRequest]
  /\ stored = 1 /\ cookie = 1
  /\ overlapped = FALSE

BrowserStep(k) ==
  \/ Settle(k)
  \/ JoinRefresh(k)
  \/ k \in Tabs /\ RefreshSucceeded(k)
  \/ k \in Tabs /\ Unauthorized(k) /\ RefreshFailed(k)

Handle(k) == ServerStep(k) /\ UNCHANGED <<stored, cookie, overlapped>>

User ==
  /\ NextPair <= MaxPairs
  /\ \E k \in Calls : Call(k) \/ SignIn(k) \/ SignOut(k) \/ Start(k)

Environment ==
  \/ \E n \in valid : ExpireAccess(n) /\ UNCHANGED <<stored, cookie, overlapped>>
  \/ \E s \in DOMAIN sessions :
       EndSession(s) /\ UNCHANGED <<stored, cookie, overlapped>>
  \/ \E k \in Slots : NetworkError(k)

ClientNext ==
  \/ User
  \/ \E k \in Slots : Handle(k) \/ BrowserStep(k)
  \/ Environment

ClientSpec == ClientInit /\ [][ClientNext]_clientVars

\* The server and the network answer, and callbacks run.  Nobody has to act.
ClientFairness == \A k \in Slots : WF_clientVars(Handle(k) \/ BrowserStep(k))

FairClientSpec == ClientSpec /\ ClientFairness

-----------------------------------------------------------------------------
ClientTypeOK ==
  /\ SessionsTypeOK
  /\ stored \in 0 .. Len(family) /\ cookie \in 0 .. Len(family)
  /\ overlapped \in BOOLEAN

\* A call that waits for a refresh waits for one that is in flight
\* (apiClient.js:16, where the promise is forgotten as soon as it settles): a
\* wake-up is never lost.
WaitersHaveRefresh ==
  \A k \in Calls : http[k].pc = "waiting" => http[TabOf[k]].pc # "idle"

\* However many calls are refused at once, and whatever the network loses, the
\* browser does not lose a session by refreshing it: as long as two refreshes
\* never overlapped (those of one tab cannot; tabs and the refresh at start
\* can), the stored refresh token is the current one of its session
\* (apiClient.js:15-18, authService.js:13).
StoredTokenCurrent ==
  (stored # 0 /\ ~overlapped /\ Refreshing = {})
    => sessions[family[stored]].token = stored

\* No write brings a revoked session back, not even that of a rotation that
\* had read it before (authService.js:13, 14).
RevokedForGood ==
  [][\A s \in DOMAIN sessions :
       sessions[s].revoked => sessions'[s].revoked]_clientVars

\* Every session is revoked, and no rotation or login is under way.
ShutOut ==
  /\ \A s \in DOMAIN sessions : sessions[s].revoked
  /\ \A k \in Slots : http[k].pc \notin {"saveSession", "create"}

\* Whoever is shut out stays out until the next login: no refresh token that
\* is still around leads to a new access token (authService.js:13).
NoAccessAfterRevocation ==
  [][ShutOut =>
       /\ valid' \subseteq valid
       /\ ShutOut' \/ \E k \in Slots : http'[k].pc = "create"]_clientVars

\* Every call a page makes comes to an end: no endless retry, and no refresh
\* that waits for itself (apiClient.js:13).
EveryCallSettles ==
  \A k \in Calls : (http[k].pc # "idle") ~> (http[k].pc = "idle")

\* "Logout revokes the current refresh-token session" (backend/README.md:23):
\* of a logout that is answered while nothing else is in flight, the session
\* whose tokens the browser is about to forget is revoked.
LogoutRevokes ==
  \A k \in Calls :
    (/\ http[k].kind = "logout" /\ http[k].pc = "answered" /\ http[k].ok
     /\ http[k].retried
     /\ stored # 0
     /\ \A j \in Slots \ {k} : http[j].pc = "idle")
      => sessions[family[stored]].revoked
=============================================================================
