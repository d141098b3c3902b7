------------------------------- MODULE Server -------------------------------
(***************************************************************************)
(* The process of the backend (server.js, database/connection.js): how it  *)
(* starts, serves HTTP requests and the sockets of Realtime, and ends.     *)
(*                                                                         *)
(* start and shutdown are independent: a signal does not stop the start.   *)
(* A WebSocket is a connection of the HTTP server.  The database, Redis    *)
(* and docker-compose's restart: unless-stopped are external.              *)
(***************************************************************************)
EXTENDS Realtime

CONSTANTS
  Requests,
  RetryAttempts,          \* config.mongo.retryAttempts
  RedisEnabled            \* config.redis.enabled

ASSUME ServerAssumption == RetryAttempts \in Nat /\ RedisEnabled \in BOOLEAN

VARIABLES
  stage,                  \* how far start has come
  attempt,                \* of connectDatabase
  signalled,              \* shutdown has been called: its timer runs
  drain,                  \* server.close and its callback
  early,                  \* shutdown was called before the server listened
  exit,                   \* the exit code
  http                    \* the HTTP requests

processVars == <<stage, attempt, signalled, drain, early, exit, http>>

serverVars == <<processVars, realtimeVars>>

-----------------------------------------------------------------------------
Running == exit = "none"

\* validateEnv; the database is tried at once.
Validate ==
  /\ Running /\ stage = "validate"
  /\ \/ stage' = "database" /\ UNCHANGED exit
     \/ exit' = "1" /\ UNCHANGED stage
  /\ UNCHANGED <<attempt, signalled, drain, early, http, realtimeVars>>

\* With no attempts allowed the loop ends without a connection.
ConnectDatabase ==
  /\ Running /\ stage = "database"
  /\ \/ /\ stage' = "sockets"
        /\ UNCHANGED <<attempt, exit>>
     \/ /\ attempt < RetryAttempts
        /\ attempt' = attempt + 1
        /\ UNCHANGED <<stage, exit>>
     \/ /\ attempt = RetryAttempts
        /\ exit' = "1"
        /\ UNCHANGED <<stage, attempt>>
  /\ UNCHANGED <<signalled, drain, early, http, realtimeVars>>

\* socket.init waits for Redis, if that is enabled.
InitSockets ==
  /\ Running /\ stage = "sockets"
  /\ \/ stage' = "bind" /\ UNCHANGED exit
     \/ RedisEnabled /\ exit' = "1" /\ UNCHANGED stage
  /\ UNCHANGED <<attempt, signalled, drain, early, http, realtimeVars>>

Listen ==
  /\ Running /\ stage = "bind"
  /\ stage' = "listening"
  /\ UNCHANGED <<attempt, signalled, drain, early, exit, http, realtimeVars>>

-----------------------------------------------------------------------------
\* Mutant: shutdown disconnects the database without waiting.
Shutdown_AtOnce ==
  /\ Running
  /\ signalled' = TRUE
  /\ early' = (early \/ stage \in {"validate", "database", "sockets", "bind"})
  /\ stage' = IF stage = "listening" THEN "closed" ELSE stage
  /\ drain' = IF stage \in {"sockets", "bind", "listening"}
              THEN "disconnecting" ELSE drain
  /\ UNCHANGED <<attempt, exit, http, realtimeVars>>

\* A signal, an unhandled rejection, or an uncaught exception (the port in
\* use, a client of Redis that cannot connect).  A server that does not listen
\* yet has nothing to close: the callback follows at once.
Shutdown ==
  /\ Running
  /\ signalled' = TRUE
  /\ early' = (early \/ stage \in {"validate", "database", "sockets", "bind"})
  /\ stage' = IF stage = "listening" THEN "closed" ELSE stage
  /\ drain' = CASE stage \in {"sockets", "bind"} -> "disconnecting"
                [] stage = "listening" /\ drain = "no" -> "closing"
                [] OTHER -> drain
  /\ UNCHANGED <<attempt, exit, http, realtimeVars>>

\* No connection is open: a handler whose client has gone is none.
Closed ==
  /\ Running /\ drain = "closing"
  /\ Connected = {} /\ \A r \in Requests : http[r] # "open"
  /\ drain' = "disconnecting"
  /\ UNCHANGED <<stage, attempt, signalled, early, exit, http, realtimeVars>>

DisconnectDatabase ==
  /\ Running /\ drain = "disconnecting"
  /\ exit' = "0"
  /\ UNCHANGED <<stage, attempt, signalled, drain, early, http, realtimeVars>>

\* Mutant: the timer is started with the drain only.
Timeout_OfServer ==
  /\ Running /\ signalled /\ drain # "no"
  /\ exit' = "1"
  /\ UNCHANGED <<stage, attempt, signalled, drain, early, http, realtimeVars>>

\* Ten seconds after the signal.
Timeout ==
  /\ Running /\ signalled
  /\ exit' = "1"
  /\ UNCHANGED <<stage, attempt, signalled, drain, early, http, realtimeVars>>

Restart ==
  /\ ~Running
  /\ stage' = "validate" /\ attempt' = 1
  /\ signalled' = FALSE /\ drain' = "no" /\ early' = FALSE
  /\ exit' = "none"
  /\ http' = [r \in Requests |-> "none"]
  /\ RealtimeReset

-----------------------------------------------------------------------------
Accept(r) ==
  /\ Running /\ stage = "listening"
  /\ http[r] = "none"
  /\ http' = [http EXCEPT ![r] = "open"]
  /\ UNCHANGED <<stage, attempt, signalled, drain, early, exit, realtimeVars>>

\* The client goes, the handler continues.
Abort(r) ==
  /\ Running
  /\ http[r] = "open"
  /\ http' = [http EXCEPT ![r] = "orphan"]
  /\ UNCHANGED <<stage, attempt, signalled, drain, early, exit, realtimeVars>>

Respond(r) ==
  /\ Running
  /\ http[r] # "none"
  /\ http' = [http EXCEPT ![r] = "none"]
  /\ UNCHANGED <<stage, attempt, signalled, drain, early, exit, realtimeVars>>

\* A handler broadcasts.
Announce(r) ==
  /\ Running
  /\ http[r] # "none"
  /\ \E id \in EventIds : Broadcast(id)
  /\ UNCHANGED processVars

\* Bound: the clients of a server that is to stop only leave.
Socket(s) ==
  /\ Running
  /\ \/ stage = "listening" /\ ~signalled /\ SocketStep(s)
     \/ Disconnect(s)
  /\ UNCHANGED processVars

-----------------------------------------------------------------------------
ServerInit ==
  /\ stage = "validate" /\ attempt = 1
  /\ signalled = FALSE /\ drain = "no" /\ early = FALSE
  /\ exit = "none"
  /\ http = [r \in Requests |-> "none"]
  /\ RealtimeInit

ServerNext ==
  \/ Validate \/ ConnectDatabase \/ InitSockets \/ Listen
  \/ Shutdown \/ Closed \/ DisconnectDatabase \/ Timeout
  \/ Restart
  \/ \E r \in Requests : Accept(r) \/ Abort(r) \/ Respond(r) \/ Announce(r)
  \/ \E s \in Sockets : Socket(s)
  \/ Running /\ Age /\ UNCHANGED processVars

ServerSpec == ServerInit /\ [][ServerNext]_serverVars

\* The timer fires; nothing else need happen.
FairServerSpec == ServerSpec /\ WF_serverVars(Timeout)

-----------------------------------------------------------------------------
ServerTypeOK ==
  /\ stage \in {"validate", "database", "sockets", "bind", "listening", "closed"}
  /\ attempt = 1 \/ attempt \in 1 .. RetryAttempts
  /\ signalled \in BOOLEAN /\ early \in BOOLEAN
  /\ drain \in {"no", "closing", "disconnecting"}
  /\ exit \in {"none", "0", "1"}
  /\ http \in [Requests -> {"none", "open", "orphan"}]
  /\ RealtimeTypeOK

\* A shutdown that calls itself complete has cut nobody off, neither a client
\* that waits for an answer nor a socket, however often and in whichever
\* moment it is asked for, unless that was before the server listened
\* (server.js:9-13).
NobodyCutOff ==
  exit = "0" /\ ~early =>
    Connected = {} /\ \A r \in Requests : http[r] # "open"

\* A server that is told to stop stops, in whichever state of its start and
\* whoever stays connected (server.js:12).
ShutdownEnds == signalled ~> ~Running
=============================================================================
