--------------------------- MODULE AccountsProofs ----------------------------
(***************************************************************************)
(* Type correctness of accounts and mail, no token used up for nothing, no *)
(* mail reported as sent that was not accepted, and no session left to an  *)
(* old password, for any number of requests, passwords and tokens, and     *)
(* every configuration of the mail server.                                 *)
(***************************************************************************)
EXTENDS Accounts, SequenceTheorems, FiniteSetTheorems, TLAPS

-----------------------------------------------------------------------------
(* The dialogue with the mail server.                                      *)

Ending == <<"MAIL FROM", "RCPT TO", "DATA", "body", "QUIT">>

Commands ==
  {"connect", "greeting", "EHLO", "STARTTLS", "upgrade", "AUTH LOGIN", "user",
   "password", "MAIL FROM", "RCPT TO", "DATA", "body", "QUIT"}

\* Whatever is configured, the dialogue begins with the connection and ends
\* with QUIT, the reply to the body comes just before, and neither comes
\* anywhere else.
LEMMA DialogueShape ==
  /\ Dialogue \in Seq(Commands) /\ Len(Dialogue) \in Nat /\ Len(Dialogue) >= 8
  /\ \A i \in 1 .. Len(Dialogue) : Dialogue[i] = "QUIT" <=> i = Len(Dialogue)
  /\ \A i \in 1 .. Len(Dialogue) : Dialogue[i] = "body" <=> i = Len(Dialogue) - 1
<1> DEFINE a == <<"connect", "greeting", "EHLO">>
           b == IF StartTls /\ ~Secure THEN <<"STARTTLS", "upgrade", "EHLO">>
                                       ELSE <<>>
           c == IF Credentials THEN <<"AUTH LOGIN", "user", "password">> ELSE <<>>
           d == Ending
           Early == Commands \ {"body", "QUIT"}
<1>1. a \in Seq(Early) /\ Len(a) = 3
  BY DEF Commands
<1>2. b \in Seq(Early) /\ Len(b) \in Nat
  <2>1. CASE StartTls /\ ~Secure
    BY <2>1 DEF Commands
  <2>2. CASE ~(StartTls /\ ~Secure)
    <3>1. b = <<>>
      BY <2>2
    <3> HIDE DEF Early
    <3>2. <<>> \in Seq(Early) /\ Len(<<>>) = 0
      BY EmptySeq
    <3> QED
      BY <3>1, <3>2
  <2> QED
    BY <2>1, <2>2
<1>3. c \in Seq(Early) /\ Len(c) \in Nat
  <2>1. CASE Credentials
    BY <2>1 DEF Commands
  <2>2. CASE ~(Credentials)
    <3>1. c = <<>>
      BY <2>2
    <3> HIDE DEF Early
    <3>2. <<>> \in Seq(Early) /\ Len(<<>>) = 0
      BY EmptySeq
    <3> QED
      BY <3>1, <3>2
  <2> QED
    BY <2>1, <2>2
<1>4. /\ d \in Seq(Commands) /\ Len(d) = 5
      /\ \A i \in 1 .. 5 : /\ d[i] = "QUIT" <=> i = 5
                           /\ d[i] = "body" <=> i = 4
  BY DEF Commands, Ending
<1>5. Dialogue = ((a \o b) \o c) \o d
  BY DEF Dialogue, Ending
<1> HIDE DEF a, b, c, d, Early
<1> DEFINE ab == a \o b  abc == ab \o c
<1>6. ab \in Seq(Early) /\ Len(ab) = Len(a) + Len(b)
  BY <1>1, <1>2, ConcatProperties
<1> HIDE DEF ab
<1>7. abc \in Seq(Early) /\ Len(abc) = Len(ab) + Len(c)
  BY <1>3, <1>6, ConcatProperties
<1>8. Dialogue = abc \o d
  BY <1>5 DEF ab
<1> HIDE DEF abc
<1> DEFINE n == Len(abc)
<1>9. /\ n \in Nat /\ n >= 3 /\ abc \in Seq(Commands)
      /\ \A i \in 1 .. n : abc[i] # "QUIT" /\ abc[i] # "body"
  BY <1>1, <1>2, <1>3, <1>6, <1>7, LenProperties, SeqDef DEF Early
<1>10. /\ Dialogue \in Seq(Commands) /\ Len(Dialogue) = n + 5
       /\ \A i \in 1 .. n + 5 : Dialogue[i] = IF i <= n THEN abc[i] ELSE d[i - n]
  <2>1. /\ abc \o d \in Seq(Commands) /\ Len(abc \o d) = n + 5
        /\ \A i \in 1 .. n + 5 :
             (abc \o d)[i] = IF i <= n THEN abc[i] ELSE d[i - n]
    <3>1. /\ abc \o d \in Seq(Commands) /\ Len(abc \o d) = Len(abc) + Len(d)
          /\ \A i \in 1 .. Len(abc) + Len(d) : (abc \o d)[i] =
               IF i <= Len(abc) THEN abc[i] ELSE d[i - Len(abc)]
      BY <1>4, <1>9, ConcatProperties
    <3> QED
      BY <1>4, <3>1
  <2> QED
    BY <1>8, <2>1
<1> HIDE DEF n
<1>11. ASSUME NEW i \in 1 .. n + 5
       PROVE  /\ Dialogue[i] = "QUIT" <=> i = n + 5
              /\ Dialogue[i] = "body" <=> i = n + 4
  <2>1. CASE i <= n
    <3>1. i \in 1 .. n /\ Dialogue[i] = abc[i]
      BY <1>9, <1>10, <2>1
    <3> QED
      BY <1>9, <3>1
  <2>2. CASE i > n
    <3>1. i - n \in 1 .. 5 /\ Dialogue[i] = d[i - n]
      BY <1>9, <1>10, <2>2
    <3>2. /\ d[i - n] = "QUIT" <=> i - n = 5
          /\ d[i - n] = "body" <=> i - n = 4
      BY <1>4, <3>1
    <3> QED
      BY <1>9, <3>1, <3>2
  <2> QED
    BY <1>9, <2>1, <2>2
<1> QED
  BY <1>9, <1>10, <1>11

\* What is said to have been sent was accepted, and QUIT is not said before.
DialogFine(q) ==
  /\ q \in Dialog
  /\ q.state = "talking" => q.line \in 1 .. Len(Dialogue)
  /\ q.state = "talking" /\ q.line = Len(Dialogue) => q.accepted
  /\ q.state = "sent" => q.accepted

MailInv ==
  /\ smtp \in [Requests -> Dialog]
  /\ \A r \in Requests : DialogFine(smtp[r])

LEMMA DialogReplaced ==
  ASSUME MailInv, NEW r \in Requests, NEW q, DialogFine(q),
         smtp' = [smtp EXCEPT ![r] = q]
  PROVE  MailInv'
<1>1. q \in Dialog
  BY DEF DialogFine
<1>2. /\ smtp' \in [Requests -> Dialog]
      /\ \A t \in Requests : smtp'[t] = IF t = r THEN q ELSE smtp[t]
  BY <1>1 DEF MailInv
<1> QED
  BY <1>2 DEF MailInv

LEMMA DialogsStart ==
  /\ DialogFine(NoMail) /\ DialogFine(SendMail)
  /\ NoMail \in Dialog
<1>p. PICK no \in BOOLEAN : no = FALSE
  OBVIOUS
<1> DEFINE n == Len(Dialogue)
           States == {"none", "talking", "sent", "failed", "hung"}
<1>1. n \in Nat /\ n >= 8 /\ 0 \in 0 .. n /\ 1 \in 0 .. n /\ 1 \in 1 .. n
  BY DialogueShape
<1>2. Dialog = [state : States, line : 0 .. n, accepted : BOOLEAN]
  BY DEF Dialog
<1> HIDE DEF n
<1>3. NoMail = [state |-> "none", line |-> 0, accepted |-> no]
  BY <1>p DEF NoMail
<1>4. NoMail \in Dialog /\ NoMail.state = "none"
  BY <1>1, <1>2, <1>3
<1>5. /\ SendMail \in Dialog /\ SendMail.state = "talking"
      /\ SendMail.line = 1
  BY <1>1, <1>2, <1>4 DEF SendMail
<1>6. DialogFine(NoMail)
  BY <1>4 DEF DialogFine
<1>7. 1 # n
  BY <1>1
<1>8. DialogFine(SendMail)
  BY <1>1, <1>5, <1>7 DEF DialogFine, n
<1> QED
  BY <1>4, <1>6, <1>8

LEMMA MailStepInv ==
  ASSUME MailInv, NEW r \in Requests, MailStep(r)
  PROVE  MailInv'
<1> DEFINE n == Len(Dialogue)
           States == {"none", "talking", "sent", "failed", "hung"}
           q == smtp[r]
<1>1. /\ n \in Nat /\ n >= 8
      /\ \A i \in 1 .. n : Dialogue[i] = "QUIT" <=> i = n
      /\ \A i \in 1 .. n : Dialogue[i] = "body" <=> i = n - 1
  BY DialogueShape
<1>2. Dialog = [state : States, line : 0 .. n, accepted : BOOLEAN]
  BY DEF Dialog
<1>3. /\ q \in Dialog /\ q.state = "talking" /\ q.line \in 1 .. n
      /\ q.line = n => q.accepted
  BY DEF MailInv, DialogFine, MailStep, GoodReply, BadReply, SocketError,
         NeverSettles, Talking
<1>4. (Line(r) = "QUIT" <=> q.line = n) /\ (Line(r) = "body" <=> q.line = n - 1)
  BY <1>1, <1>3 DEF Line
<1> HIDE DEF n, q
<1>5. ASSUME NEW d \in Dialog, d.line \in 1 .. n,
             d.state = "talking" /\ d.line = n => d.accepted,
             d.state = "sent" => d.accepted,
             smtp' = [smtp EXCEPT ![r] = d]
      PROVE  MailInv'
  <2>1. DialogFine(d)
    BY <1>5 DEF DialogFine, n
  <2> QED
    BY <1>5, <2>1, DialogReplaced
<1>6. q.accepted \in BOOLEAN
  BY <1>2, <1>3
<1>7. CASE GoodReply(r)
  <2>1. PICK accepted \in BOOLEAN : accepted = (q.accepted \/ Line(r) = "body")
    OBVIOUS
  <2>2. PICK state \in States, line \in 1 .. n :
          /\ state = IF Line(r) = "QUIT" THEN "sent" ELSE "talking"
          /\ line = IF Line(r) = "QUIT" THEN q.line ELSE q.line + 1
    BY <1>1, <1>3, <1>4
  <2>3. (state = "talking" /\ line = n) \/ state = "sent" => accepted
    <3>1. (q.accepted => accepted) /\ (Line(r) = "body" => accepted)
      BY <2>1
    <3>2. state = "sent" => q.line = n
      BY <1>4, <2>2
    <3>3. state = "talking" /\ line = n => Line(r) = "body"
      BY <1>1, <1>3, <1>4, <2>2
    <3> QED
      BY <1>3, <3>1, <3>2, <3>3
  <2> DEFINE d == [q EXCEPT !.accepted = accepted, !.state = state,
                            !.line = line]
  <2>4. smtp' = [smtp EXCEPT ![r] = d]
    <3>1. smtp' = [smtp EXCEPT ![r] =
             [q EXCEPT !.accepted = @ \/ Line(r) = "body",
                       !.state = IF Line(r) = "QUIT" THEN "sent" ELSE @,
                       !.line = IF Line(r) = "QUIT" THEN @ ELSE @ + 1]]
      BY <1>7 DEF GoodReply, q
    <3>2. /\ accepted = (q.accepted \/ Line(r) = "body")
          /\ state = IF Line(r) = "QUIT" THEN "sent" ELSE q.state
          /\ line = IF Line(r) = "QUIT" THEN q.line ELSE q.line + 1
      BY <1>3, <2>1, <2>2
    <3> QED
      BY <3>1, <3>2
  <2>5. d.state = state /\ d.line = line /\ d.accepted = accepted
    BY <1>2, <1>3
  <2>6. d \in Dialog
    <3>1. line \in 0 .. n
      BY <1>1
    <3> HIDE DEF States
    <3> QED
      BY ONLY <1>2, <1>3, <3>1, state \in States, accepted \in BOOLEAN
  <2> HIDE DEF d
  <2> QED
    BY <1>5, <2>3, <2>4, <2>5, <2>6
<1>8. ASSUME NEW state \in {"sent", "failed", "hung"}, NEW accepted \in BOOLEAN,
             state = "sent" => accepted,
             \/ smtp' = [smtp EXCEPT ![r] = [@ EXCEPT !.state = state,
                                                      !.accepted = accepted]]
             \/ accepted = q.accepted /\ smtp' = [smtp EXCEPT ![r].state = state]
      PROVE  MailInv'
  <2>1. CASE smtp' = [smtp EXCEPT ![r] = [@ EXCEPT !.state = state,
                                                  !.accepted = accepted]]
    <3> DEFINE d == [q EXCEPT !.state = state, !.accepted = accepted]
    <3>1. /\ d \in Dialog /\ d.state = state /\ d.line = q.line
          /\ d.accepted = accepted
      BY <1>1, <1>2, <1>3
    <3>2. smtp' = [smtp EXCEPT ![r] = d]
      BY <2>1 DEF q
    <3> HIDE DEF d
    <3> QED
      BY <1>3, <1>5, <1>8, <3>1, <3>2
  <2>2. CASE accepted = q.accepted /\ smtp' = [smtp EXCEPT ![r].state = state]
    <3> DEFINE d == [q EXCEPT !.state = state]
    <3>1. /\ d \in Dialog /\ d.state = state /\ d.line = q.line
          /\ d.accepted = q.accepted
      BY <1>1, <1>2, <1>3
    <3>2. smtp' = [smtp EXCEPT ![r] = d]
      BY <2>2 DEF q
    <3> HIDE DEF d
    <3> QED
      BY <1>3, <1>5, <1>8, <2>2, <3>1, <3>2
  <2> QED
    BY <1>8, <2>1, <2>2
<1>9. Rejection(r) \in {"sent", "failed"} /\ (Rejection(r) = "sent" => q.accepted)
  BY <1>3, <1>4 DEF Rejection
<1>10. CASE BadReply(r)
  BY <1>6, <1>8, <1>9, <1>10 DEF BadReply
<1>11. CASE SocketError(r)
  <2>1. PICK accepted \in BOOLEAN :
          /\ q.accepted => accepted
          /\ smtp' = [smtp EXCEPT ![r] = [@ EXCEPT !.state = Rejection(r),
                                                   !.accepted = accepted]]
    BY <1>6, <1>11 DEF SocketError, q
  <2> QED
    BY <1>8, <1>9, <2>1
<1>12. CASE NeverSettles(r)
  BY <1>6, <1>8, <1>12 DEF NeverSettles
<1> QED
  BY <1>7, <1>10, <1>11, <1>12 DEF MailStep

-----------------------------------------------------------------------------
(* The requests.                                                           *)

Jobs(n) == [pc : AccountStages, kind : AccountKinds, token : 0 .. n,
            password : Passwords]

\* What a request of each kind can have come to, when n tokens are issued.
JobFine(q, n) ==
  /\ q \in Jobs(n)
  /\ q.pc = "findUser" => q.kind \in {"register", "login", "forgot", "change"}
  /\ q.pc = "createUser" => q.kind = "register"
  /\ q.pc = "issue" => q.kind \in {"register", "forgot", "change"}
  /\ q.pc \in {"findToken", "loadUser", "saveUser", "markUsed"}
       => q.token \in 1 .. n

\* The requests, when n tokens are issued and those of e have had their effect.
JobsFine(j, n, e) ==
  /\ j \in [Requests -> Jobs(n)]
  /\ \A r \in Requests : /\ JobFine(j[r], n)
                         /\ j[r].pc = "markUsed" => j[r].token \in e

AccountInv ==
  /\ user \in User
  /\ tokens \in Seq(Token) /\ logins \in Seq(Login)
  /\ effective \subseteq DOMAIN tokens /\ strays \subseteq DOMAIN logins
  /\ JobsFine(job, Len(tokens), effective)
  /\ UsedTokenTookEffect
  /\ MailInv

LEMMA JobGrows ==
  ASSUME NEW n \in Nat, NEW m \in Nat, n <= m, NEW q, JobFine(q, n)
  PROVE  JobFine(q, m)
BY DEF JobFine, Jobs

LEMMA JobReplaced ==
  ASSUME NEW n \in Nat, NEW m \in Nat, n <= m, NEW e, NEW f, e \subseteq f,
         NEW j, JobsFine(j, n, e), NEW r \in Requests, NEW q, JobFine(q, m),
         q.pc = "markUsed" => q.token \in f
  PROVE  JobsFine([j EXCEPT ![r] = q], m, f)
<1> DEFINE g == [j EXCEPT ![r] = q]
<1>1. \A t \in Requests : JobFine(j[t], m)
  BY JobGrows DEF JobsFine
<1>2. q \in Jobs(m) /\ \A t \in Requests : j[t] \in Jobs(m)
  BY <1>1 DEF JobFine
<1>3. /\ g \in [Requests -> Jobs(m)]
      /\ \A t \in Requests : g[t] = IF t = r THEN q ELSE j[t]
  BY <1>2 DEF JobsFine
<1> HIDE DEF g
<1>4. JobsFine(g, m, f)
  BY <1>1, <1>3 DEF JobsFine
<1> QED
  BY <1>4 DEF g

LEMMA IdleFine ==
  ASSUME NEW n \in Nat, NEW p \in Passwords
  PROVE  JobFine(NoJob(p), n) /\ NoJob(p).pc = "idle"
BY DEF JobFine, Jobs, NoJob, AccountStages, AccountKinds

LEMMA AnyPasswordType == AnyPassword \in Passwords
BY AccountsAssumption DEF AnyPassword

\* The request is over, and no token is issued.
LEMMA AnswerStep ==
  ASSUME AccountInv, NEW r \in Requests, Answer(r), UNCHANGED tokens,
         effective \subseteq effective'
  PROVE  JobsFine(job', Len(tokens'), effective')
<1> DEFINE n == Len(tokens)
<1>1. n \in Nat /\ n <= n /\ JobsFine(job, n, effective)
  BY LenProperties DEF AccountInv
<1>2. JobFine(NoJob(AnyPassword), n) /\ NoJob(AnyPassword).pc = "idle"
  BY <1>1, IdleFine, AnyPasswordType
<1> HIDE DEF n
<1>3. JobsFine([job EXCEPT ![r] = NoJob(AnyPassword)], n, effective')
  BY <1>1, <1>2, JobReplaced
<1> QED
  BY <1>3 DEF Answer, n

\* The request goes on, with its token.
LEMMA GotoStep ==
  ASSUME AccountInv, NEW r \in Requests, NEW pc \in AccountStages, Goto(r, pc),
         Len(tokens') = Len(tokens), effective \subseteq effective',
         JobFine([job[r] EXCEPT !.pc = pc], Len(tokens)),
         pc = "markUsed" => job[r].token \in effective'
  PROVE  JobsFine(job', Len(tokens'), effective')
<1> DEFINE n == Len(tokens)  q == [job[r] EXCEPT !.pc = pc]
<1>1. /\ n \in Nat /\ n <= n /\ JobsFine(job, n, effective) /\ JobFine(q, n)
      /\ job[r] \in Jobs(n)
  BY LenProperties DEF AccountInv, JobsFine
<1>2. q.pc = pc /\ q.token = job[r].token
  BY <1>1 DEF Jobs
<1> HIDE DEF n, q
<1>3. JobsFine([job EXCEPT ![r] = q], n, effective')
  BY <1>1, <1>2, JobReplaced
<1> QED
  BY <1>3 DEF Goto, n, q

LEMMA JobFacts ==
  ASSUME AccountInv, NEW r \in Requests
  PROVE  /\ Len(tokens) \in Nat /\ DOMAIN tokens = 1 .. Len(tokens)
         /\ Len(logins) \in Nat /\ DOMAIN logins = 1 .. Len(logins)
         /\ job[r] \in Jobs(Len(tokens)) /\ JobFine(job[r], Len(tokens))
         /\ job[r].password \in Passwords /\ job[r].kind \in AccountKinds
         /\ job[r].pc = "markUsed" => job[r].token \in effective
BY LenProperties DEF AccountInv, JobsFine, Jobs

LEMMA NextStage ==
  ASSUME NEW n \in Nat, NEW q, JobFine(q, n), NEW pc \in AccountStages,
         pc = "findUser" => q.kind \in {"register", "login", "forgot", "change"},
         pc = "createUser" => q.kind = "register",
         pc = "issue" => q.kind \in {"register", "forgot", "change"},
         pc \in {"findToken", "loadUser", "saveUser", "markUsed"}
           => q.token \in 1 .. n
  PROVE  JobFine([q EXCEPT !.pc = pc], n)
<1>1. /\ [q EXCEPT !.pc = pc].pc = pc
      /\ [q EXCEPT !.pc = pc].kind = q.kind
      /\ [q EXCEPT !.pc = pc].token = q.token
      /\ [q EXCEPT !.pc = pc] \in Jobs(n)
  BY DEF JobFine, Jobs
<1> QED
  BY <1>1 DEF JobFine

-----------------------------------------------------------------------------
(* One lemma per action.                                                   *)

LEMMA AskStep ==
  ASSUME AccountInv, NEW r \in Requests, NEW kind \in AccountKinds,
         NEW p \in Passwords, NEW t, Ask(r, kind, p, t)
  PROVE  AccountInv'
<1> DEFINE n == Len(tokens)
           pc == IF t = 0 THEN "findUser" ELSE "findToken"
           q == [pc |-> pc, kind |-> kind, token |-> t, password |-> p]
<1>1. n \in Nat /\ n <= n /\ DOMAIN tokens = 1 .. n
  BY LenProperties DEF AccountInv
<1>2. /\ kind \in {"reset", "verify"} => t \in 1 .. n
      /\ kind \notin {"reset", "verify"} => t = 0
  BY <1>1 DEF Ask
<1>3. t \in 0 .. n /\ pc \in AccountStages
  BY <1>1, <1>2 DEF AccountStages
<1>4. q \in Jobs(n)
  BY <1>3 DEF Jobs
<1>5. q.pc = pc /\ q.kind = kind /\ q.token = t
  OBVIOUS
<1>6. pc = "findUser" => kind \in {"register", "login", "forgot", "change"}
  BY <1>1, <1>2 DEF AccountKinds
<1>7. pc = "findToken" => t \in 1 .. n
  BY <1>3
<1>8. JobFine(q, n) /\ q.pc # "markUsed"
  BY <1>4, <1>5, <1>6, <1>7 DEF JobFine
<1>9. job' = [job EXCEPT ![r] = q] /\ UNCHANGED <<user, tokens, logins, effective, strays, smtp>>
  BY DEF Ask
<1> HIDE DEF q, n
<1>10. JobsFine([job EXCEPT ![r] = q], n, effective)
  BY <1>1, <1>8, JobReplaced DEF AccountInv, n
<1> QED
  BY <1>9, <1>10 DEF AccountInv, UsedTokenTookEffect, MailInv, n

LEMMA FindUserStep ==
  ASSUME AccountInv, NEW r \in Requests, FindUser(r)
  PROVE  AccountInv'
<1> DEFINE q == job[r]
<1>1. JobFine(q, Len(tokens)) /\ Len(tokens) \in Nat
  BY JobFacts
<1>2. q.pc = "findUser" /\ UNCHANGED <<user, tokens, logins, effective, strays, smtp>>
  BY DEF FindUser
<1>3. q.kind \in {"register", "login", "forgot", "change"}
  BY <1>1, <1>2 DEF JobFine
<1>4. CASE Answer(r)
  BY <1>2, <1>4, AnswerStep DEF AccountInv, UsedTokenTookEffect, MailInv
<1>5. CASE Goto(r, AfterUser[q.kind])
  <2>1. PICK pc \in AccountStages :
          /\ pc = AfterUser[q.kind]
          /\ \/ pc = "createUser" /\ q.kind = "register"
             \/ pc = "createSession"
             \/ pc = "issue" /\ q.kind \in {"forgot", "change"}
    BY <1>3 DEF AfterUser, AccountStages
  <2> HIDE DEF q
  <2>2. JobFine([q EXCEPT !.pc = pc], Len(tokens))
    BY <1>1, <2>1, NextStage
  <2>3. JobsFine(job', Len(tokens'), effective')
    BY <1>2, <1>5, <2>1, <2>2, GotoStep DEF q
  <2> QED
    BY <1>2, <2>3 DEF AccountInv, UsedTokenTookEffect, MailInv
<1> QED
  BY <1>4, <1>5 DEF FindUser

LEMMA CreateUserStep ==
  ASSUME AccountInv, NEW r \in Requests, CreateUser(r)
  PROVE  AccountInv'
<1> DEFINE q == job[r]
<1>1. /\ JobFine(q, Len(tokens)) /\ Len(tokens) \in Nat
      /\ q.password \in Passwords
  BY JobFacts
<1>2. /\ q.pc = "createUser" /\ q.kind = "register"
      /\ UNCHANGED <<tokens, logins, effective, strays, smtp>>
  BY <1>1 DEF CreateUser, JobFine
<1>3. CASE Answer(r) /\ UNCHANGED user
  BY <1>2, <1>3, AnswerStep DEF AccountInv, UsedTokenTookEffect, MailInv
<1>4. CASE Goto(r, "issue") /\ ~user.exists
  <2>p. PICK yes \in BOOLEAN, no \in BOOLEAN : yes = TRUE /\ no = FALSE
    OBVIOUS
  <2>1. user' = [exists |-> yes, password |-> q.password,
                 history |-> {q.password}, verified |-> no]
    BY <1>4, <2>p DEF CreateUser
  <2>2. user' \in User
    BY <1>1, <2>1 DEF User
  <2>3. "issue" \in AccountStages
    BY DEF AccountStages
  <2> HIDE DEF q
  <2>4. JobFine([q EXCEPT !.pc = "issue"], Len(tokens))
    BY <1>1, <1>2, <2>3, NextStage
  <2>5. JobsFine(job', Len(tokens'), effective')
    BY <1>2, <1>4, <2>3, <2>4, GotoStep DEF q
  <2> QED
    BY <1>2, <2>2, <2>5 DEF AccountInv, UsedTokenTookEffect, MailInv
<1> QED
  BY <1>3, <1>4 DEF CreateUser

LEMMA IssueStep ==
  ASSUME AccountInv, NEW r \in Requests, IssueAuthToken(r)
  PROVE  AccountInv'
<1> DEFINE q == job[r]
           n == Len(tokens)
<1>p. PICK no \in BOOLEAN : no = FALSE
  OBVIOUS
<1>1. /\ JobFine(q, n) /\ n \in Nat /\ q \in Jobs(n)
      /\ DOMAIN tokens = 1 .. n
  BY JobFacts
<1>2. /\ q.pc = "issue" /\ q.kind \in {"register", "forgot", "change"}
      /\ UNCHANGED <<user, logins, effective, strays>>
  BY <1>1 DEF IssueAuthToken, JobFine
<1> DEFINE token == [type |-> TypeOf[q.kind], used |-> no]
<1>3. token \in Token
  BY <1>2 DEF Token, TypeOf
<1>4. tokens' = Append(tokens, token)
  BY <1>p DEF IssueAuthToken
<1>5. ~token.used
  BY <1>p
<1> HIDE DEF token
<1>6. /\ tokens' \in Seq(Token) /\ Len(tokens') = n + 1
      /\ \A i \in 1 .. n : tokens'[i] = tokens[i]
      /\ tokens'[n + 1] = token
  BY <1>3, <1>4, AppendProperties DEF AccountInv
<1>7. DOMAIN tokens' = 1 .. n + 1
  BY <1>6, LenProperties
<1>8. UsedTokenTookEffect' /\ effective' \subseteq DOMAIN tokens'
  BY <1>1, <1>2, <1>5, <1>6, <1>7 DEF AccountInv, UsedTokenTookEffect
<1>9. /\ n + 1 \in Nat /\ n <= n + 1 /\ JobsFine(job, n, effective)
      /\ JobFine(q, n + 1)
  BY <1>1, JobGrows DEF AccountInv
<1>10. CASE Answer(r) /\ UNCHANGED smtp
  <2>1. JobFine(NoJob(AnyPassword), n + 1) /\ NoJob(AnyPassword).pc = "idle"
    BY <1>9, IdleFine, AnyPasswordType
  <2> HIDE DEF n
  <2>2. JobsFine([job EXCEPT ![r] = NoJob(AnyPassword)], n + 1, effective)
    BY <1>1, <1>9, <2>1, JobReplaced
  <2>3. JobsFine(job', Len(tokens'), effective')
    BY <1>2, <1>6, <1>10, <2>2 DEF Answer
  <2> QED
    BY <1>2, <1>6, <1>8, <1>10, <2>3 DEF AccountInv, MailInv
<1>11. CASE Goto(r, "mail") /\ smtp' = [smtp EXCEPT ![r] = SendMail]
  <2>1. "mail" \in AccountStages
    BY DEF AccountStages
  <2> DEFINE g == [q EXCEPT !.pc = "mail"]
  <2>2. g.pc = "mail"
    BY <1>1 DEF Jobs
  <2> HIDE DEF q, n
  <2>3. JobFine(g, n + 1)
    BY <1>9, <2>1, NextStage
  <2> HIDE DEF g
  <2>4. JobsFine([job EXCEPT ![r] = g], n + 1, effective)
    BY <1>1, <1>9, <2>2, <2>3, JobReplaced
  <2>5. JobsFine(job', Len(tokens'), effective')
    BY <1>2, <1>6, <1>11, <2>4 DEF Goto, g, q
  <2>6. MailInv'
    BY <1>11, DialogReplaced, DialogsStart DEF AccountInv
  <2> QED
    BY <1>2, <1>6, <1>8, <2>5, <2>6 DEF AccountInv
<1>12. CASE /\ job' = [job EXCEPT ![r] = [@ EXCEPT !.pc = "findToken",
                                                  !.token = n + 1]]
            /\ UNCHANGED smtp
  <2> DEFINE g == [q EXCEPT !.pc = "findToken", !.token = n + 1]
  <2>1. /\ g.pc = "findToken" /\ g.kind = q.kind /\ g.token = n + 1
    BY <1>1 DEF Jobs
  <2>2. g \in Jobs(n + 1)
    <3>1. q \in Jobs(n + 1) /\ "findToken" \in AccountStages /\ n + 1 \in 0 .. n + 1
      BY <1>9 DEF JobFine, AccountStages
    <3> HIDE DEF q, n
    <3> QED
      BY <3>1 DEF Jobs
  <2>3. JobFine(g, n + 1)
    BY <1>1, <2>1, <2>2 DEF JobFine
  <2>4. job' = [job EXCEPT ![r] = g]
    BY <1>12
  <2> HIDE DEF g, n
  <2>5. JobsFine([job EXCEPT ![r] = g], n + 1, effective)
    BY <1>1, <1>9, <2>1, <2>3, JobReplaced
  <2>6. JobsFine(job', Len(tokens'), effective')
    BY <1>2, <1>6, <2>4, <2>5
  <2> QED
    BY <1>2, <1>6, <1>8, <1>12, <2>6 DEF AccountInv, MailInv
<1> QED
  BY <1>2, <1>10, <1>11, <1>12 DEF IssueAuthToken

\* The steps that change neither what is issued nor what has had its effect.
LEMMA QuietStep ==
  ASSUME AccountInv, JobsFine(job', Len(tokens'), effective'), MailInv',
         UNCHANGED <<user, tokens, effective>>,
         logins' \in Seq(Login), strays' \subseteq DOMAIN logins'
  PROVE  AccountInv'
BY DEF AccountInv, UsedTokenTookEffect

LEMMA MailOverStep ==
  ASSUME AccountInv, NEW r \in Requests, MailOver(r)
  PROVE  AccountInv'
<1>1. Answer(r) /\ UNCHANGED <<user, tokens, logins, effective, strays>>
  BY DEF MailOver
<1>2. JobsFine(job', Len(tokens'), effective')
  BY <1>1, AnswerStep
<1>3. MailInv'
  BY DialogReplaced, DialogsStart DEF AccountInv, MailOver
<1>4. logins' \in Seq(Login) /\ strays' \subseteq DOMAIN logins'
  BY <1>1 DEF AccountInv
<1> QED
  BY <1>1, <1>2, <1>3, <1>4, QuietStep

LEMMA CreateSessionStep ==
  ASSUME AccountInv, NEW r \in Requests, CreateSession(r)
  PROVE  AccountInv'
<1>p. PICK no \in BOOLEAN : no = FALSE
  OBVIOUS
<1> DEFINE l == [password |-> job[r].password, revoked |-> no]
           n == Len(logins)
<1>1. /\ Answer(r) /\ UNCHANGED <<user, tokens, effective, smtp>>
      /\ logins' = Append(logins, l)
      /\ strays' \subseteq strays \cup {n + 1}
  BY <1>p DEF CreateSession
<1>2. JobsFine(job', Len(tokens'), effective')
  BY <1>1, AnswerStep
<1>3. l \in Login
  BY JobFacts DEF Login
<1>4. n \in Nat /\ DOMAIN logins = 1 .. n
  BY JobFacts
<1> HIDE DEF l
<1>5. logins' \in Seq(Login) /\ Len(logins') = n + 1
  BY <1>1, <1>3, AppendProperties DEF AccountInv
<1>6. DOMAIN logins' = 1 .. n + 1
  BY <1>5, LenProperties
<1> HIDE DEF n
<1>7. strays' \subseteq DOMAIN logins'
  BY <1>1, <1>4, <1>6 DEF AccountInv
<1>8. MailInv'
  BY <1>1 DEF AccountInv, MailInv
<1> QED
  BY <1>1, <1>2, <1>5, <1>7, <1>8, QuietStep

\* A request goes on to a stage that needs nothing but its token.
LEMMA GoOnStep ==
  ASSUME AccountInv, NEW r \in Requests, NEW pc \in AccountStages, Goto(r, pc),
         pc \in {"loadUser", "saveUser", "revoke"},
         job[r].pc \in {"findToken", "loadUser", "markUsed"},
         Len(tokens') = Len(tokens), effective \subseteq effective'
  PROVE  JobsFine(job', Len(tokens'), effective')
<1> DEFINE n == Len(tokens)  q == job[r]
<1>1. n \in Nat /\ JobFine(q, n)
  BY JobFacts
<1>2. q.token \in 1 .. n
  BY <1>1 DEF JobFine
<1> HIDE DEF q, n
<1>3. JobFine([q EXCEPT !.pc = pc], n)
  BY <1>1, <1>2, NextStage
<1> QED
  BY <1>3, GotoStep DEF q, n

LEMMA FindTokenStep ==
  ASSUME AccountInv, NEW r \in Requests, FindToken(r)
  PROVE  AccountInv'
<1>1. /\ UNCHANGED <<user, tokens, logins, effective, strays, smtp>>
      /\ job[r].pc = "findToken"
  BY DEF FindToken
<1>2. MailInv' /\ logins' \in Seq(Login) /\ strays' \subseteq DOMAIN logins'
  BY <1>1 DEF AccountInv, MailInv
<1>3. CASE Answer(r)
  BY <1>1, <1>2, <1>3, AnswerStep, QuietStep
<1>4. CASE Goto(r, IF job[r].kind = "verify" THEN "saveUser" ELSE "loadUser")
  <2>1. PICK pc \in AccountStages : pc \in {"loadUser", "saveUser"} /\ Goto(r, pc)
    BY <1>4 DEF AccountStages
  <2>2. JobsFine(job', Len(tokens'), effective')
    BY <1>1, <2>1, GoOnStep
  <2> QED
    BY <1>1, <1>2, <2>2, QuietStep
<1> QED
  BY <1>3, <1>4 DEF FindToken

LEMMA LoadUserStep ==
  ASSUME AccountInv, NEW r \in Requests, LoadUser(r)
  PROVE  AccountInv'
<1>1. /\ UNCHANGED <<user, tokens, logins, effective, strays, smtp>>
      /\ job[r].pc = "loadUser"
  BY DEF LoadUser
<1>2. MailInv' /\ logins' \in Seq(Login) /\ strays' \subseteq DOMAIN logins'
  BY <1>1 DEF AccountInv, MailInv
<1>3. CASE Answer(r)
  BY <1>1, <1>2, <1>3, AnswerStep, QuietStep
<1>4. CASE Goto(r, "saveUser")
  <2>1. "saveUser" \in AccountStages
    BY DEF AccountStages
  <2>2. JobsFine(job', Len(tokens'), effective')
    BY <1>1, <1>4, <2>1, GoOnStep
  <2> QED
    BY <1>1, <1>2, <2>2, QuietStep
<1> QED
  BY <1>3, <1>4 DEF LoadUser

LEMMA SaveUserStep ==
  ASSUME AccountInv, NEW r \in Requests, SaveUser(r)
  PROVE  AccountInv'
<1> DEFINE q == job[r]
           n == Len(tokens)
<1>1. /\ n \in Nat /\ DOMAIN tokens = 1 .. n
      /\ JobFine(q, n) /\ q.password \in Passwords
  BY JobFacts
<1>2. /\ UNCHANGED <<tokens, logins, strays, smtp>>
      /\ q.pc = "saveUser" /\ q.token \in 1 .. n
      /\ effective' = effective \cup {q.token} /\ Goto(r, "markUsed")
  BY <1>1 DEF SaveUser, JobFine
<1>3. user' \in User
  <2>1. user \in User
    BY DEF AccountInv
  <2>2. CASE user' = [user EXCEPT !.verified = TRUE]
    BY <2>1, <2>2 DEF User
  <2>3. CASE user' = [user EXCEPT !.password = q.password,
                                  !.history = @ \cup {q.password}]
    <3>1. user.history \cup {q.password} \in SUBSET Passwords
      BY <1>1, <2>1 DEF User
    <3> HIDE DEF q
    <3> QED
      BY <1>1, <2>1, <2>3, <3>1 DEF User
  <2> QED
    BY <2>2, <2>3 DEF SaveUser
<1> HIDE DEF q, n
<1>4. "markUsed" \in AccountStages /\ JobFine([q EXCEPT !.pc = "markUsed"], n)
  BY <1>1, <1>2, NextStage DEF AccountStages
<1>5. JobsFine(job', Len(tokens'), effective')
  BY <1>2, <1>4, GotoStep DEF q, n
<1>6. effective' \subseteq DOMAIN tokens' /\ UsedTokenTookEffect'
  BY <1>1, <1>2 DEF AccountInv, UsedTokenTookEffect
<1> QED
  BY <1>2, <1>3, <1>5, <1>6 DEF AccountInv, MailInv

LEMMA MarkUsedStep ==
  ASSUME AccountInv, NEW r \in Requests, MarkUsed(r)
  PROVE  AccountInv'
<1>p. PICK yes \in BOOLEAN : yes = TRUE
  OBVIOUS
<1> DEFINE t == job[r].token
           n == Len(tokens)
<1>1. /\ n \in Nat /\ DOMAIN tokens = 1 .. n
      /\ JobFine(job[r], n)
      /\ job[r].pc = "markUsed" => t \in effective
  BY JobFacts
<1>2. /\ UNCHANGED <<user, logins, effective, strays, smtp>>
      /\ job[r].pc = "markUsed" /\ t \in 1 .. n /\ t \in effective
      /\ tokens' = [tokens EXCEPT ![t].used = yes]
  <2>1. /\ UNCHANGED <<user, logins, effective, strays, smtp>>
        /\ job[r].pc = "markUsed"
        /\ tokens' = [tokens EXCEPT ![t].used = TRUE]
    BY DEF MarkUsed
  <2>2. t \in 1 .. n /\ t \in effective
    BY <1>1, <2>1 DEF JobFine
  <2> HIDE DEF t, n
  <2>3. tokens' = [tokens EXCEPT ![t].used = yes]
    BY <1>p, <2>1
  <2> QED
    BY <2>1, <2>2, <2>3
<1>3. /\ tokens' \in Seq(Token) /\ Len(tokens') = n
      /\ \A i \in 1 .. n : i # t => tokens'[i] = tokens[i]
  <2>1. \A i \in 1 .. n : tokens[i] \in Token
    BY <1>1 DEF AccountInv
  <2>2. tokens' = [i \in 1 .. n |-> IF i = t THEN [tokens[t] EXCEPT !.used = yes]
                                             ELSE tokens[i]]
    BY <1>1, <1>2
  <2>3. [tokens[t] EXCEPT !.used = yes] \in Token
    BY <1>2, <2>1 DEF Token
  <2> HIDE DEF t, n
  <2>4. tokens' \in [1 .. n -> Token]
    BY <2>1, <2>2, <2>3
  <2>5. tokens' \in Seq(Token) /\ DOMAIN tokens' = 1 .. n
    BY <1>1, <2>4, SeqDef
  <2>6. Len(tokens') = n
    BY <1>1, <2>5, LenProperties
  <2> QED
    BY <2>2, <2>5, <2>6
<1>4. DOMAIN tokens' = 1 .. n
  BY <1>3, LenProperties
<1> HIDE DEF t, n
<1>5. effective' \subseteq DOMAIN tokens' /\ UsedTokenTookEffect'
  BY <1>1, <1>2, <1>3, <1>4 DEF AccountInv, UsedTokenTookEffect
<1>6. JobsFine(job', Len(tokens'), effective')
  <2>1. JobsFine(job', n, effective)
    <3>0. JobFine(job[r], n) /\ n \in Nat /\ n <= n /\ JobsFine(job, n, effective)
      <4>1. JobsFine(job, n, effective)
        BY DEF AccountInv, n
      <4> QED
        BY <1>1, <4>1
    <3>1. CASE Answer(r)
      <4>1. JobFine(NoJob(AnyPassword), n) /\ NoJob(AnyPassword).pc = "idle"
        BY <1>1, IdleFine, AnyPasswordType
      <4>2. JobsFine([job EXCEPT ![r] = NoJob(AnyPassword)], n, effective)
        BY <3>0, <4>1, JobReplaced
      <4> QED
        BY <3>1, <4>2 DEF Answer
    <3>2. CASE Goto(r, "revoke")
      <4> DEFINE q == job[r]  g == [q EXCEPT !.pc = "revoke"]
      <4>1. "revoke" \in AccountStages
        BY DEF AccountStages
      <4>2. g.pc = "revoke"
        BY <3>0 DEF JobFine, Jobs
      <4>3. JobFine(q, n)
        BY <3>0
      <4> HIDE DEF q
      <4>4. JobFine(g, n)
        BY <3>0, <4>1, <4>3, NextStage
      <4> HIDE DEF g
      <4>5. JobsFine([job EXCEPT ![r] = g], n, effective)
        BY <3>0, <4>2, <4>4, JobReplaced
      <4> QED
        BY <3>2, <4>5 DEF Goto, g, q
    <3> QED
      BY <3>1, <3>2 DEF MarkUsed
  <2> QED
    BY <1>2, <1>3, <2>1
<1> QED
  BY <1>2, <1>3, <1>5, <1>6 DEF AccountInv, MailInv

LEMMA RevokeSessionsStep ==
  ASSUME AccountInv, NEW r \in Requests, RevokeSessions(r)
  PROVE  AccountInv'
<1>p. PICK yes \in BOOLEAN : yes = TRUE
  OBVIOUS
<1> DEFINE n == Len(logins)
<1>1. /\ Answer(r) /\ UNCHANGED <<user, tokens, effective, strays, smtp>>
      /\ logins' = [i \in DOMAIN logins |-> [logins[i] EXCEPT !.revoked = yes]]
  BY <1>p DEF RevokeSessions
<1>2. n \in Nat /\ DOMAIN logins = 1 .. n
  BY JobFacts
<1>3. \A i \in 1 .. n : logins[i] \in Login
  BY <1>2 DEF AccountInv
<1>4. \A i \in 1 .. n : [logins[i] EXCEPT !.revoked = yes] \in Login
  BY <1>3 DEF Login
<1> HIDE DEF n
<1>5. logins' \in [1 .. n -> Login]
  BY <1>1, <1>2, <1>4
<1>6. logins' \in Seq(Login) /\ DOMAIN logins' = 1 .. n
  BY <1>2, <1>5, SeqDef
<1>7. MailInv' /\ strays' \subseteq DOMAIN logins'
  BY <1>1, <1>2, <1>6 DEF AccountInv, MailInv
<1>8. JobsFine(job', Len(tokens'), effective')
  BY <1>1, AnswerStep
<1> QED
  BY <1>1, <1>6, <1>7, <1>8, QuietStep

LEMMA RestartStep ==
  ASSUME AccountInv, Restart
  PROVE  AccountInv'
<1> DEFINE n == Len(tokens)
<1>1. /\ job' = [r \in Requests |-> NoJob(AnyPassword)]
      /\ smtp' = [r \in Requests |-> NoMail]
      /\ strays' \subseteq strays \cup DOMAIN logins
      /\ UNCHANGED <<user, tokens, logins, effective>>
  BY DEF Restart
<1>2. n \in Nat
  BY LenProperties DEF AccountInv
<1>3. /\ NoJob(AnyPassword) \in Jobs(n) /\ JobFine(NoJob(AnyPassword), n)
      /\ NoJob(AnyPassword).pc = "idle"
  BY <1>2, IdleFine, AnyPasswordType DEF JobFine
<1> HIDE DEF n
<1>4. JobsFine(job', n, effective)
  BY <1>1, <1>3 DEF JobsFine
<1>5. MailInv'
  BY <1>1, DialogsStart DEF MailInv
<1>6. logins' \in Seq(Login) /\ strays' \subseteq DOMAIN logins'
  BY <1>1 DEF AccountInv
<1>7. JobsFine(job', Len(tokens'), effective')
  BY <1>1, <1>4 DEF n
<1> QED
  BY <1>1, <1>5, <1>6, <1>7, QuietStep

-----------------------------------------------------------------------------
(* The invariant, and what follows from it.                                *)

LEMMA AccountStart ==
  ASSUME AccountInit
  PROVE  AccountInv
<1>p. PICK no \in BOOLEAN : no = FALSE
  OBVIOUS
<1>1. user = [exists |-> no, password |-> AnyPassword, history |-> {},
              verified |-> no]
  BY <1>p DEF AccountInit
<1>2. user \in User
  BY <1>1, AnyPasswordType DEF User
<1>3. /\ tokens \in Seq(Token) /\ logins \in Seq(Login) /\ Len(tokens) = 0
      /\ DOMAIN tokens = {}
  BY EmptySeq DEF AccountInit
<1>4. /\ NoJob(AnyPassword) \in Jobs(0) /\ JobFine(NoJob(AnyPassword), 0)
      /\ NoJob(AnyPassword).pc = "idle"
  BY IdleFine, AnyPasswordType DEF JobFine
<1>5. JobsFine(job, Len(tokens), effective)
  BY <1>3, <1>4 DEF JobsFine, AccountInit
<1>6. MailInv
  BY DialogsStart DEF MailInv, AccountInit
<1>7. UsedTokenTookEffect /\ effective = {} /\ strays = {}
  BY <1>3 DEF UsedTokenTookEffect, AccountInit
<1> QED
  BY <1>2, <1>3, <1>5, <1>6, <1>7 DEF AccountInv

LEMMA AccountInvStep ==
  ASSUME AccountInv, [AccountNext]_accountVars
  PROVE  AccountInv'
<1>1. CASE UNCHANGED accountVars
  BY <1>1 DEF AccountInv, UsedTokenTookEffect, MailInv, accountVars
<1>2. ASSUME NEW r \in Requests, NEW kind \in AccountKinds, NEW p \in Passwords,
             NEW t, Ask(r, kind, p, t)
      PROVE  AccountInv'
  BY <1>2, AskStep
<1>3. ASSUME NEW r \in Requests, AccountStep(r)
      PROVE  AccountInv'
  <2>1. CASE MailStep(r) /\ UNCHANGED <<user, tokens, logins, job, effective, strays>>
    <3>1. MailInv'
      BY <2>1, MailStepInv DEF AccountInv
    <3>2. /\ JobsFine(job', Len(tokens'), effective')
          /\ logins' \in Seq(Login) /\ strays' \subseteq DOMAIN logins'
      BY <2>1 DEF AccountInv
    <3> QED
      BY <2>1, <3>1, <3>2, QuietStep
  <2>2. CASE FindUser(r) \/ CreateUser(r) \/ IssueAuthToken(r) \/ MailOver(r)
    BY <2>2, FindUserStep, CreateUserStep, IssueStep, MailOverStep
  <2>3. CASE CreateSession(r) \/ RevokeSessions(r)
    BY <2>3, CreateSessionStep, RevokeSessionsStep
  <2>4. CASE FindToken(r) \/ LoadUser(r) \/ SaveUser(r) \/ MarkUsed(r)
    BY <2>4, FindTokenStep, LoadUserStep, SaveUserStep, MarkUsedStep
  <2> QED
    BY <1>3, <2>1, <2>2, <2>3, <2>4 DEF AccountStep
<1>4. CASE Restart
  BY <1>4, RestartStep
<1> QED
  BY <1>1, <1>2, <1>3, <1>4 DEF AccountNext

LEMMA AccountInvariance == AccountSpec => []AccountInv
<1>1. AccountInit => AccountInv
  BY AccountStart
<1>2. AccountInv /\ [AccountNext]_accountVars => AccountInv'
  BY AccountInvStep
<1> QED
  BY <1>1, <1>2, PTL DEF AccountSpec

\* Every document, request and dialogue of the account keeps its shape, and a
\* request its token, for any number of them (authService.js:9-18,
\* emailService.js:44-77).
THEOREM AccountTypeCorrect == AccountSpec => []AccountTypeOK
<1>1. ASSUME AccountInv
      PROVE  AccountTypeOK
  <2> DEFINE n == Len(tokens)
  <2>1. n \in Nat /\ DOMAIN tokens = 1 .. n
    BY <1>1, LenProperties DEF AccountInv
  <2>2. {0} \cup DOMAIN tokens = 0 .. n
    BY <2>1
  <2>3. job \in [Requests -> Jobs(n)]
    BY <1>1 DEF AccountInv, JobsFine
  <2> HIDE DEF n
  <2>4. job \in [Requests -> [pc : AccountStages, kind : AccountKinds,
                              token : {0} \cup DOMAIN tokens,
                              password : Passwords]]
    BY <2>2, <2>3 DEF Jobs
  <2> QED
    BY <1>1, <2>4 DEF AccountInv, MailInv, AccountTypeOK, MailTypeOK
<1> QED
  BY <1>1, AccountInvariance, PTL

\* A token that is marked as used has had its effect, however many requests
\* use it at once and wherever the server dies (authService.js:16-18).
THEOREM UsedTokensTookEffect == AccountSpec => []UsedTokenTookEffect
<1>1. AccountInv => UsedTokenTookEffect
  BY DEF AccountInv
<1> QED
  BY <1>1, AccountInvariance, PTL

\* Mail that is reported as sent was accepted, under every configuration and
\* whatever the mail server does (emailService.js:44-77).
THEOREM SentMailWasAccepted == AccountSpec => []SentMeansAccepted
<1>1. AccountInv => SentMeansAccepted
  BY DEF AccountInv, MailInv, DialogFine, SentMeansAccepted
<1> QED
  BY <1>1, AccountInvariance, PTL

-----------------------------------------------------------------------------
(* The old password is out.                                                *)

\* Who is about to save a password, or has saved one, came with a token, and
\* only a new password is followed by a revocation.
TokenJob(q) ==
  /\ q.pc \in {"findToken", "loadUser", "saveUser", "markUsed"}
       => q.kind \in {"verify", "reset", "change"}
  /\ q.pc = "revoke" => q.kind \in {"reset", "change"}

\* The password is saved, the sessions are not yet revoked.
Resets(q) == q.pc \in {"markUsed", "revoke"} /\ q.kind \in {"reset", "change"}

\* Nobody has logged in, or is about to, before there is a user.
PasswordInv ==
  /\ \A r \in Requests : TokenJob(job[r])
  /\ \A r \in Requests : job[r].pc = "createSession" => user.exists
  /\ ~user.exists => DOMAIN logins = {}
  /\ OldPasswordIsOut

LEMMA ResettingFacts ==
  Resetting = {} <=> \A r \in Requests : ~Resets(job[r])
BY DEF Resetting, Resets

LEMMA AnswerJob ==
  ASSUME AccountInv, NEW r \in Requests, Answer(r)
  PROVE  /\ \A t \in Requests \ {r} : job'[t] = job[t]
         /\ job'[r].pc = "idle"
BY DEF Answer, NoJob, AccountInv, JobsFine

LEMMA GotoJob ==
  ASSUME AccountInv, NEW r \in Requests, NEW pc, Goto(r, pc)
  PROVE  /\ \A t \in Requests \ {r} : job'[t] = job[t]
         /\ job'[r].pc = pc /\ job'[r].kind = job[r].kind
BY DEF Goto, AccountInv, JobsFine, Jobs

\* A step that leaves the user and the sessions alone, and no reset short of
\* its revocation.
LEMMA PasswordKept ==
  ASSUME PasswordInv, UNCHANGED <<user, logins, strays>>, NEW r \in Requests,
         \A t \in Requests \ {r} : job'[t] = job[t],
         TokenJob(job'[r]), job'[r].pc = "createSession" => user.exists,
         Resets(job[r]) => Resets(job'[r])
  PROVE  PasswordInv'
<1>1. \A t \in Requests : Resets(job[t]) => Resets(job'[t])
  OBVIOUS
<1>2. Resetting' = {} => Resetting = {}
  BY <1>1 DEF Resetting, Resets
<1>3. OldPasswordIsOut'
  BY <1>2 DEF OldPasswordIsOut, PasswordInv
<1> QED
  BY <1>3 DEF PasswordInv, TokenJob

LEMMA AskPassword ==
  ASSUME AccountInv, PasswordInv, NEW r \in Requests, NEW kind \in AccountKinds,
         NEW p \in Passwords, NEW t, Ask(r, kind, p, t)
  PROVE  PasswordInv'
<1>1. /\ \A u \in Requests \ {r} : job'[u] = job[u]
      /\ job'[r].pc = IF t = 0 THEN "findUser" ELSE "findToken"
      /\ job'[r].kind = kind
  BY DEF Ask, AccountInv, JobsFine
<1>2. job[r].pc = "idle" /\ (t # 0 => kind \in {"reset", "verify"})
  BY DEF Ask
<1>3. TokenJob(job'[r]) /\ job'[r].pc # "createSession" /\ ~Resets(job[r])
  BY <1>1, <1>2 DEF TokenJob, Resets
<1> QED
  BY <1>1, <1>3, PasswordKept DEF Ask

LEMMA ReadPassword ==
  ASSUME AccountInv, PasswordInv, NEW r \in Requests,
         FindUser(r) \/ FindToken(r) \/ LoadUser(r) \/ MailOver(r)
  PROVE  PasswordInv'
<1>1. UNCHANGED <<user, logins, strays>> /\ ~Resets(job[r])
  BY DEF FindUser, FindToken, LoadUser, MailOver, Resets
<1>2. CASE Answer(r)
  BY <1>1, <1>2, AnswerJob, PasswordKept DEF TokenJob
<1>3. CASE FindUser(r) /\ ~Answer(r)
  <2>1. /\ job[r].pc = "findUser" /\ Acceptable(r)
        /\ Goto(r, AfterUser[job[r].kind])
    BY <1>3 DEF FindUser
  <2>2. job[r].kind \in {"register", "login", "forgot", "change"}
    BY <2>1, JobFacts DEF JobFine
  <2>3. /\ AfterUser[job[r].kind] \in {"createUser", "createSession", "issue"}
        /\ AfterUser[job[r].kind] = "createSession" => user.exists
    BY <2>1, <2>2 DEF AfterUser, Acceptable
  <2> QED
    BY <1>1, <2>1, <2>3, GotoJob, PasswordKept DEF TokenJob
<1>4. CASE FindToken(r) /\ ~Answer(r)
  <2>1. /\ job[r].pc = "findToken"
        /\ Goto(r, IF job[r].kind = "verify" THEN "saveUser" ELSE "loadUser")
    BY <1>4 DEF FindToken
  <2> QED
    BY <1>1, <2>1, GotoJob, PasswordKept DEF TokenJob, PasswordInv
<1>5. CASE LoadUser(r) /\ ~Answer(r)
  <2>1. job[r].pc = "loadUser" /\ Goto(r, "saveUser")
    BY <1>5 DEF LoadUser
  <2> QED
    BY <1>1, <2>1, GotoJob, PasswordKept DEF TokenJob, PasswordInv
<1> QED
  BY <1>2, <1>3, <1>4, <1>5 DEF MailOver

\* There is a user from now on, and nobody could log in before.
LEMMA CreateUserPassword ==
  ASSUME AccountInv, PasswordInv, NEW r \in Requests, CreateUser(r)
  PROVE  PasswordInv'
<1>1. job[r].pc = "createUser" /\ UNCHANGED <<logins, strays>>
  BY DEF CreateUser
<1>2. CASE user.exists
  <2>1. Answer(r) /\ UNCHANGED user
    BY <1>2 DEF CreateUser
  <2> QED
    BY <1>1, <2>1, AnswerJob, PasswordKept DEF TokenJob, Resets
<1>3. CASE ~user.exists
  <2>1. user'.exists /\ Goto(r, "issue")
    BY <1>3 DEF CreateUser
  <2>2. /\ \A t \in Requests \ {r} : job'[t] = job[t]
        /\ job'[r].pc = "issue"
    BY <2>1, GotoJob
  <2>3. DOMAIN logins' = {}
    BY <1>1, <1>3 DEF PasswordInv
  <2>4. OldPasswordIsOut'
    BY <2>3 DEF OldPasswordIsOut
  <2> QED
    BY <2>1, <2>2, <2>4 DEF PasswordInv, TokenJob
<1> QED
  BY <1>2, <1>3

LEMMA IssuePassword ==
  ASSUME AccountInv, PasswordInv, NEW r \in Requests, IssueAuthToken(r)
  PROVE  PasswordInv'
<1>1. /\ job[r].pc = "issue" /\ UNCHANGED <<user, logins, strays>>
      /\ job[r].kind \in {"register", "forgot", "change"}
  BY JobFacts DEF IssueAuthToken, JobFine
<1>2. CASE Answer(r)
  BY <1>1, <1>2, AnswerJob, PasswordKept DEF TokenJob, Resets
<1>3. CASE Goto(r, "mail")
  BY <1>1, <1>3, GotoJob, PasswordKept DEF TokenJob, Resets
<1>4. CASE job[r].kind = "change"
  <2>1. /\ \A t \in Requests \ {r} : job'[t] = job[t]
        /\ job'[r].pc = "findToken" /\ job'[r].kind = "change"
    BY <1>4 DEF IssueAuthToken, AccountInv, JobsFine, Jobs
  <2> QED
    BY <1>1, <2>1, PasswordKept DEF TokenJob, Resets
<1> QED
  BY <1>1, <1>2, <1>3, <1>4 DEF IssueAuthToken

\* A session of another password than the present one is a stray.
LEMMA CreateSessionPassword ==
  ASSUME AccountInv, PasswordInv, NEW r \in Requests, CreateSession(r)
  PROVE  PasswordInv'
<1> DEFINE n == Len(logins)
<1>p. PICK no \in BOOLEAN : no = FALSE
  OBVIOUS
<1> DEFINE x == [password |-> job[r].password, revoked |-> no]
<1>1. /\ n \in Nat /\ DOMAIN logins = 1 .. n /\ logins \in Seq(Login)
      /\ job[r].password \in Passwords /\ job[r].pc = "createSession"
  BY JobFacts DEF AccountInv, CreateSession
<1>2. x \in Login /\ x.password = job[r].password
  BY <1>1 DEF Login
<1>3. logins' = Append(logins, x) /\ Answer(r) /\ UNCHANGED user
  BY <1>p DEF CreateSession
<1> HIDE DEF x, n
<1>4. /\ DOMAIN logins' = 1 .. n + 1
      /\ \A i \in 1 .. n : logins'[i] = logins[i]
      /\ logins'[n + 1] = x
  BY <1>1, <1>2, <1>3, AppendProperties, LenProperties DEF n
<1>5. /\ strays \subseteq strays'
      /\ n + 1 \notin strays' => x.password = user.password
  BY <1>2 DEF CreateSession, n
<1>6. /\ \A t \in Requests \ {r} : job'[t] = job[t]
      /\ job'[r].pc = "idle" /\ user.exists
  BY <1>1, <1>3, AnswerJob DEF PasswordInv
<1>7. Resetting' = {} => Resetting = {}
  BY <1>1, <1>6 DEF Resetting
<1>8. OldPasswordIsOut'
  <2> SUFFICES ASSUME Resetting = {}, NEW i \in 1 .. n + 1, i \notin strays'
               PROVE  logins'[i].revoked \/ logins'[i].password = user.password
    BY <1>3, <1>4, <1>7 DEF OldPasswordIsOut
  <2>1. CASE i = n + 1
    BY <1>4, <1>5, <2>1
  <2>2. CASE i \in 1 .. n
    BY <1>1, <1>4, <1>5, <2>2 DEF OldPasswordIsOut, PasswordInv
  <2> QED
    BY <1>1, <2>1, <2>2
<1> QED
  BY <1>3, <1>6, <1>8 DEF PasswordInv, TokenJob

\* While a new password waits for its revocation nothing is promised.
LEMMA SaveUserPassword ==
  ASSUME AccountInv, PasswordInv, NEW r \in Requests, SaveUser(r)
  PROVE  PasswordInv'
<1>1. /\ job[r].pc = "saveUser" /\ Goto(r, "markUsed")
      /\ UNCHANGED <<logins, strays>>
      /\ job[r].kind \in {"verify", "reset", "change"}
  BY DEF SaveUser, PasswordInv, TokenJob
<1>2. /\ \A t \in Requests \ {r} : job'[t] = job[t]
      /\ job'[r].pc = "markUsed" /\ job'[r].kind = job[r].kind
  BY <1>1, GotoJob
<1>3. user \in User /\ user'.exists = user.exists
  BY DEF AccountInv, SaveUser, User
<1>4. OldPasswordIsOut'
  <2>1. CASE job[r].kind = "verify"
    <3>1. user'.password = user.password
      BY <1>3, <2>1 DEF SaveUser, User
    <3>2. Resetting' = {} => Resetting = {}
      BY <1>1, <1>2 DEF Resetting
    <3> QED
      BY <1>1, <3>1, <3>2 DEF OldPasswordIsOut, PasswordInv
  <2>2. CASE job[r].kind # "verify"
    <3>1. r \in Resetting'
      BY <1>1, <1>2, <2>2 DEF Resetting
    <3> QED
      BY <3>1 DEF OldPasswordIsOut
  <2> QED
    BY <2>1, <2>2
<1> QED
  BY <1>1, <1>2, <1>3, <1>4 DEF PasswordInv, TokenJob

LEMMA MarkUsedPassword ==
  ASSUME AccountInv, PasswordInv, NEW r \in Requests, MarkUsed(r)
  PROVE  PasswordInv'
<1>1. /\ job[r].pc = "markUsed" /\ UNCHANGED <<user, logins, strays>>
      /\ job[r].kind \in {"verify", "reset", "change"}
  BY DEF MarkUsed, PasswordInv, TokenJob
<1>2. CASE job[r].kind = "verify"
  <2>1. Answer(r)
    BY <1>2 DEF MarkUsed
  <2> QED
    BY <1>1, <1>2, <2>1, AnswerJob, PasswordKept DEF TokenJob, Resets
<1>3. CASE job[r].kind # "verify"
  <2>1. Goto(r, "revoke")
    BY <1>3 DEF MarkUsed
  <2> QED
    BY <1>1, <1>3, <2>1, GotoJob, PasswordKept DEF TokenJob, Resets
<1> QED
  BY <1>2, <1>3

\* Every session is revoked, whoever else is about to do the same.
LEMMA RevokePassword ==
  ASSUME AccountInv, PasswordInv, NEW r \in Requests, RevokeSessions(r)
  PROVE  PasswordInv'
<1>1. Answer(r) /\ UNCHANGED <<user, strays>> /\ DOMAIN logins' = DOMAIN logins
  BY DEF RevokeSessions
<1>2. \A i \in DOMAIN logins : logins[i] \in Login
  BY JobFacts DEF AccountInv
<1>3. \A i \in DOMAIN logins : logins'[i].revoked
  BY <1>2 DEF RevokeSessions, Login
<1>4. OldPasswordIsOut'
  BY <1>1, <1>3 DEF OldPasswordIsOut
<1> QED
  BY <1>1, <1>4, AnswerJob DEF PasswordInv, TokenJob

LEMMA RestartPassword ==
  ASSUME AccountInv, PasswordInv, Restart
  PROVE  PasswordInv'
<1>1. /\ \A r \in Requests : job'[r].pc = "idle"
      /\ UNCHANGED <<user, logins>>
      /\ strays' = IF Resetting = {} THEN strays ELSE strays \cup DOMAIN logins
  BY DEF Restart, NoJob
<1>2. OldPasswordIsOut'
  BY <1>1 DEF OldPasswordIsOut, PasswordInv
<1> QED
  BY <1>1, <1>2 DEF PasswordInv, TokenJob

LEMMA PasswordInvStep ==
  ASSUME AccountInv, PasswordInv, [AccountNext]_accountVars
  PROVE  PasswordInv'
<1>1. CASE UNCHANGED <<user, logins, job, strays>>
  BY <1>1 DEF PasswordInv, TokenJob, OldPasswordIsOut, Resetting
<1>2. ASSUME NEW r \in Requests, NEW kind \in AccountKinds, NEW p \in Passwords,
             NEW t, Ask(r, kind, p, t)
      PROVE  PasswordInv'
  BY <1>2, AskPassword
<1>3. ASSUME NEW r \in Requests, AccountStep(r)
      PROVE  PasswordInv'
  BY <1>1, <1>3, ReadPassword, CreateUserPassword, IssuePassword,
     CreateSessionPassword, SaveUserPassword, MarkUsedPassword, RevokePassword
  DEF AccountStep
<1> QED
  BY <1>1, <1>2, <1>3, RestartPassword DEF AccountNext, accountVars

LEMMA PasswordStart ==
  ASSUME AccountInit
  PROVE  PasswordInv
<1>1. DOMAIN logins = {} /\ \A r \in Requests : job[r].pc = "idle"
  BY DEF AccountInit, NoJob
<1> QED
  BY <1>1 DEF PasswordInv, TokenJob, OldPasswordIsOut

\* Once no reset or change waits for its revocation, no session of another
\* than the present password is alive, but for the strays: for any number of
\* requests, passwords and sessions, and wherever the server dies
\* (authService.js:12, 16, 17).
THEOREM OldPasswordsAreOut == AccountSpec => []OldPasswordIsOut
<1>1. AccountInit => PasswordInv
  BY PasswordStart
<1>2. AccountInv /\ PasswordInv /\ [AccountNext]_accountVars => PasswordInv'
  BY PasswordInvStep
<1>3. PasswordInv => OldPasswordIsOut
  BY DEF PasswordInv
<1> QED
  BY <1>1, <1>2, <1>3, AccountInvariance, PTL DEF AccountSpec
=============================================================================
