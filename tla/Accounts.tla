------------------------------ MODULE Accounts ------------------------------
(***************************************************************************)
(* The account of one user (services/authService.js, models/AuthToken.js,  *)
(* models/User.js): registration, verification, login, and the three ways  *)
(* to a new password.  Requests interleave between database calls as in    *)
(* QueueEntries, and wait for Mail.                                        *)
(*                                                                         *)
(* Abstracted: audit records, the strength of passwords, and the rotation  *)
(* of sessions (Sessions).                                                 *)
(***************************************************************************)
EXTENDS Mail, FiniteSets

CONSTANTS
  Passwords,
  MaxTokens, MaxLogins    \* bounds: tokens issued by requests; sessions

ASSUME AccountsAssumption ==
  Passwords # {} /\ MaxTokens \in Nat /\ MaxLogins \in Nat

VARIABLES
  user,                   \* the User document
  tokens,                 \* the AuthToken documents, in order of insertion
  logins,                 \* the Session documents: who has logged in with what
  job,                    \* the requests
  effective,              \* the tokens whose effect is written
  strays                  \* the sessions that a reset has missed

accountVars == <<user, tokens, logins, job, effective, strays, smtp>>

-----------------------------------------------------------------------------
User == [exists : BOOLEAN, password : Passwords, history : SUBSET Passwords,
         verified : BOOLEAN]

\* "change" is a password_reset token that never leaves changePassword.
Token == [type : {"verify", "reset", "change"}, used : BOOLEAN]

Login == [password : Passwords, revoked : BOOLEAN]

AccountKinds == {"register", "verify", "login", "forgot", "reset", "change"}

AccountStages ==
  {"idle", "findUser", "createUser", "issue", "mail", "createSession",
   "findToken", "loadUser", "saveUser", "markUsed", "revoke"}

\* token: the one in use; password: the one in the request.
NoJob(password) ==
  [pc |-> "idle", kind |-> "login", token |-> 0, password |-> password]

AnyPassword == CHOOSE p \in Passwords : TRUE

Goto(r, pc) == job' = [job EXCEPT ![r].pc = pc]

Answer(r) == job' = [job EXCEPT ![r] = NoJob(AnyPassword)]

-----------------------------------------------------------------------------
\* The requests that may yet issue a token, which the bound counts.
Asking ==
  {r \in Requests : /\ job[r].token = 0
                    /\ job[r].pc \in {"findUser", "createUser", "issue"}}

\* A request arrives; reset and verify bring a token they were sent.
Ask(r, kind, password, token) ==
  /\ job[r].pc = "idle"
  /\ kind \in {"reset", "verify"} =>
       token \in DOMAIN tokens /\ tokens[token].type = kind
  /\ kind \notin {"reset", "verify"} => token = 0
  /\ kind \in {"forgot", "change"} =>
       Len(tokens) + Cardinality(Asking) < MaxTokens
  /\ kind \in {"forgot", "verify"} => password = AnyPassword
  /\ kind = "login" => Len(logins) < MaxLogins
  /\ job' = [job EXCEPT ![r] =
                [pc |-> IF token = 0 THEN "findUser" ELSE "findToken",
                 kind |-> kind, token |-> token, password |-> password]]
  /\ UNCHANGED <<user, tokens, logins, effective, strays, smtp>>

\* A login needs the present password.
Acceptable(r) ==
  CASE job[r].kind = "register" -> ~user.exists
    [] job[r].kind = "login" -> user.exists /\ user.password = job[r].password
    [] OTHER -> user.exists

AfterUser == [register |-> "createUser", login |-> "createSession",
              forgot |-> "issue", change |-> "issue"]

\* The user is looked for, by e-mail address or id.  changePassword also
\* refuses a wrong current password.
FindUser(r) ==
  /\ job[r].pc = "findUser"
  /\ \/ Acceptable(r) /\ Goto(r, AfterUser[job[r].kind])
     \/ (Acceptable(r) => job[r].kind = "change") /\ Answer(r)
  /\ UNCHANGED <<user, tokens, logins, effective, strays, smtp>>

\* The unique index on email answers the second of two registrations.
CreateUser(r) ==
  /\ job[r].pc = "createUser"
  /\ IF user.exists
     THEN Answer(r) /\ UNCHANGED user
     ELSE /\ user' = [exists |-> TRUE, password |-> job[r].password,
                      history |-> {job[r].password}, verified |-> FALSE]
          /\ Goto(r, "issue")
  /\ UNCHANGED <<tokens, logins, effective, strays, smtp>>

TypeOf == [register |-> "verify", forgot |-> "reset", change |-> "change"]

\* issueAuthToken: forgot goes on to send it, change to use it.
IssueAuthToken(r) ==
  LET kind == job[r].kind
  IN  /\ job[r].pc = "issue"
      /\ tokens' = Append(tokens, [type |-> TypeOf[kind], used |-> FALSE])
      /\ CASE kind = "register" -> Answer(r) /\ UNCHANGED smtp
           [] kind = "forgot" ->
                IF MailHost
                THEN Goto(r, "mail") /\ smtp' = [smtp EXCEPT ![r] = SendMail]
                ELSE Answer(r) /\ UNCHANGED smtp
           [] kind = "change" ->
                /\ job' = [job EXCEPT ![r] = [@ EXCEPT !.pc = "findToken",
                                                       !.token = Len(tokens) + 1]]
                /\ UNCHANGED smtp
      /\ UNCHANGED <<user, logins, effective, strays>>

\* Mutant: no asyncHandler around the controller.
MailOver_NoCatch(r) ==
  /\ job[r].pc = "mail"
  /\ smtp[r].state = "sent"
  /\ smtp' = [smtp EXCEPT ![r] = NoMail]
  /\ Answer(r)
  /\ UNCHANGED <<user, tokens, logins, effective, strays>>

\* Sent or failed, forgotPassword answers.
MailOver(r) ==
  /\ job[r].pc = "mail"
  /\ smtp[r].state \in {"sent", "failed"}
  /\ smtp' = [smtp EXCEPT ![r] = NoMail]
  /\ Answer(r)
  /\ UNCHANGED <<user, tokens, logins, effective, strays>>

CreateSession(r) ==
  /\ job[r].pc = "createSession"
  /\ logins' = Append(logins, [password |-> job[r].password, revoked |-> FALSE])
  /\ strays' = IF job[r].password = user.password THEN strays
               ELSE strays \cup {Len(logins) + 1}
  /\ Answer(r)
  /\ UNCHANGED <<user, tokens, effective, smtp>>

\* Mutant: the token is claimed when it is found.
FindToken_Claims(r) ==
  /\ job[r].pc = "findToken"
  /\ IF tokens[job[r].token].used
     THEN Answer(r) /\ UNCHANGED tokens
     ELSE /\ Goto(r, IF job[r].kind = "verify" THEN "saveUser" ELSE "loadUser")
          /\ tokens' = [tokens EXCEPT ![job[r].token].used = TRUE]
  /\ UNCHANGED <<user, logins, effective, strays, smtp>>

\* A token that is used, or has expired, is refused; verifyEmail already has
\* the user.
FindToken(r) ==
  /\ job[r].pc = "findToken"
  /\ \/ Answer(r)
     \/ /\ ~tokens[job[r].token].used
        /\ Goto(r, IF job[r].kind = "verify" THEN "saveUser" ELSE "loadUser")
  /\ UNCHANGED <<user, tokens, logins, effective, strays, smtp>>

\* assertNotReused, and the hashing of the new password.
LoadUser(r) ==
  /\ job[r].pc = "loadUser"
  /\ IF job[r].password \in user.history THEN Answer(r) ELSE Goto(r, "saveUser")
  /\ UNCHANGED <<user, tokens, logins, effective, strays, smtp>>

\* save writes what was assigned, and pushes on the history.
SaveUser(r) ==
  /\ job[r].pc = "saveUser"
  /\ user' = IF job[r].kind = "verify"
             THEN [user EXCEPT !.verified = TRUE]
             ELSE [user EXCEPT !.password = job[r].password,
                               !.history = @ \cup {job[r].password}]
  /\ effective' = effective \cup {job[r].token}
  /\ Goto(r, "markUsed")
  /\ UNCHANGED <<tokens, logins, strays, smtp>>

\* Mutant: only a reset ends the sessions, a change does not.
MarkUsed_ChangeKeepsSessions(r) ==
  /\ job[r].pc = "markUsed"
  /\ tokens' = [tokens EXCEPT ![job[r].token].used = TRUE]
  /\ IF job[r].kind = "reset" THEN Goto(r, "revoke") ELSE Answer(r)
  /\ UNCHANGED <<user, logins, effective, strays, smtp>>

MarkUsed(r) ==
  /\ job[r].pc = "markUsed"
  /\ tokens' = [tokens EXCEPT ![job[r].token].used = TRUE]
  /\ IF job[r].kind = "verify" THEN Answer(r) ELSE Goto(r, "revoke")
  /\ UNCHANGED <<user, logins, effective, strays, smtp>>

RevokeSessions(r) ==
  /\ job[r].pc = "revoke"
  /\ logins' = [n \in DOMAIN logins |-> [logins[n] EXCEPT !.revoked = TRUE]]
  /\ Answer(r)
  /\ UNCHANGED <<user, tokens, effective, strays, smtp>>

-----------------------------------------------------------------------------
\* New passwords that are saved, and sessions that are not yet revoked.
Resetting ==
  {r \in Requests : /\ job[r].pc \in {"markUsed", "revoke"}
                    /\ job[r].kind \in {"reset", "change"}}

\* Nothing at start-up finishes what a request had begun.
Restart ==
  /\ \E r \in Requests : job[r].pc # "idle"
  /\ job' = [r \in Requests |-> NoJob(AnyPassword)]
  /\ smtp' = [r \in Requests |-> NoMail]
  /\ strays' = IF Resetting = {} THEN strays ELSE strays \cup DOMAIN logins
  /\ UNCHANGED <<user, tokens, logins, effective>>

-----------------------------------------------------------------------------
AccountInit ==
  /\ user = [exists |-> FALSE, password |-> AnyPassword, history |-> {},
             verified |-> FALSE]
  /\ tokens = <<>> /\ logins = <<>>
  /\ job = [r \in Requests |-> NoJob(AnyPassword)]
  /\ effective = {} /\ strays = {}
  /\ smtp = [r \in Requests |-> NoMail]

AccountStep(r) ==
  \/ FindUser(r) \/ CreateUser(r) \/ IssueAuthToken(r) \/ MailOver(r)
  \/ CreateSession(r)
  \/ FindToken(r) \/ LoadUser(r) \/ SaveUser(r) \/ MarkUsed(r)
  \/ RevokeSessions(r)
  \/ MailStep(r) /\ UNCHANGED <<user, tokens, logins, job, effective, strays>>

AccountNext ==
  \/ \E r \in Requests, kind \in AccountKinds, p \in Passwords, n \in 0 .. MaxTokens + 1 :
       Ask(r, kind, p, n)
  \/ \E r \in Requests : AccountStep(r)
  \/ Restart

AccountSpec == AccountInit /\ [][AccountNext]_accountVars

\* The database and the mail server answer, or the connection times out.
AccountFairness == \A r \in Requests : WF_accountVars(AccountStep(r))

FairAccountSpec == AccountSpec /\ AccountFairness

-----------------------------------------------------------------------------
AccountTypeOK ==
  /\ user \in User
  /\ tokens \in Seq(Token)
  /\ logins \in Seq(Login)
  /\ job \in [Requests -> [pc : AccountStages, kind : AccountKinds,
                           token : {0} \cup DOMAIN tokens,
                           password : Passwords]]
  /\ effective \subseteq DOMAIN tokens /\ strays \subseteq DOMAIN logins
  /\ MailTypeOK

\* A link is not used up by a request that failed half-way: a token that is
\* marked as used has had its effect, even if the server died in between
\* (authService.js:16, 18).
UsedTokenTookEffect ==
  \A n \in DOMAIN tokens : tokens[n].used => n \in effective

\* Whoever knew only the old password is out when the new one has been set:
\* apart from a login that had compared the old password before and creates
\* its session afterwards, and from a reset that the server died in
\* (authService.js:12, 16, 17).
OldPasswordIsOut ==
  Resetting = {} =>
    \A n \in DOMAIN logins \ strays :
      logins[n].revoked \/ logins[n].password = user.password

\* Every request is answered, whatever the mail server does, unless the mail
\* server hangs up on it (emailService.js:9-24, 35, 74).
AccountRequestsEnd ==
  \A r \in Requests :
    (job[r].pc # "idle") ~> (job[r].pc = "idle" \/ smtp[r].state = "hung")
=============================================================================
