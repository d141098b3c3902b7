--------------------------- MODULE ApiClientProofs ---------------------------
(***************************************************************************)
(* Type correctness, no lost wake-up, no session lost by refreshing it, no *)
(* revival of a revoked session, and no way in for who is shut out, for    *)
(* any number of tabs, calls and token pairs.                              *)
(***************************************************************************)
EXTENDS ApiClient, SequenceTheorems, TLAPS

\* A request knows only pairs that exist, and works on a session that does.
Fine(q, s, n) ==
  /\ q \in HttpRequest
  /\ q.pair \in 0 .. n
  /\ q.pc \in {"saveSession", "revokeFamily"} => q.session \in 1 .. s

HttpFine(h, s, n) ==
  /\ h \in [Slots -> HttpRequest]
  /\ \A k \in Slots : Fine(h[k], s, n)

Documents ==
  /\ sessions \in Seq(Session)
  /\ family \in Seq(DOMAIN sessions)
  /\ valid \subseteq DOMAIN family

Browser ==
  /\ stored \in 0 .. Len(family) /\ cookie \in 0 .. Len(family)
  /\ overlapped \in BOOLEAN

ClientInv ==
  /\ Documents /\ Browser
  /\ HttpFine(http, Len(sessions), Len(family))
  /\ WaitersHaveRefresh

-----------------------------------------------------------------------------
(* The records of a request.                                               *)

LEMMA NoRequestFine ==
  ASSUME NEW s \in Nat, NEW n \in Nat
  PROVE  Fine(NoRequest, s, n) /\ NoRequest.pc = "idle"
<1>1. PICK no \in BOOLEAN : no = FALSE
  OBVIOUS
<1>2. NoRequest = [pc |-> "idle", kind |-> "api", access |-> 0, refresh |-> 0,
                   retried |-> no, session |-> 0, pair |-> 0, ok |-> no]
  BY <1>1 DEF NoRequest
<1> QED
  BY <1>2 DEF Fine, HttpRequest, Stages, Kinds

LEMMA RequestFine ==
  ASSUME NEW s \in Nat, NEW n \in Nat, NEW kind \in Kinds,
         NEW access \in Nat, NEW refresh \in Nat, NEW retried \in BOOLEAN
  PROVE  /\ Fine(Request(kind, access, refresh, retried), s, n)
         /\ Request(kind, access, refresh, retried).pc \in
              {"authenticate", "findSession", "create"}
<1> DEFINE none == NoRequest
           stage == FirstStage(kind)
           q == [none EXCEPT !.pc = stage, !.kind = kind, !.access = access,
                             !.refresh = refresh, !.retried = retried]
<1>1. /\ none \in HttpRequest /\ none.pair = 0
      /\ stage \in {"authenticate", "findSession", "create"}
      /\ stage \in Stages
  BY NoRequestFine DEF Fine, NoRequest, FirstStage, Kinds, Stages
<1>2. Request(kind, access, refresh, retried) = q
  BY DEF Request
<1> HIDE DEF none, stage
<1>3. q.pc = stage /\ q.pair = 0
  BY <1>1 DEF HttpRequest
<1>4. q \in HttpRequest
  BY <1>1 DEF HttpRequest
<1> QED
  BY <1>1, <1>2, <1>3, <1>4 DEF Fine

LEMMA FineGrows ==
  ASSUME NEW s \in Nat, NEW n \in Nat, NEW q, Fine(q, s, n),
         NEW s2 \in Nat, NEW n2 \in Nat, s <= s2, n <= n2
  PROVE  Fine(q, s2, n2)
BY DEF Fine

LEMMA GotoFine ==
  ASSUME NEW s \in Nat, NEW n \in Nat, NEW q, Fine(q, s, n),
         NEW stage \in Stages, stage \notin {"saveSession", "revokeFamily"}
  PROVE  /\ Fine([q EXCEPT !.pc = stage], s, n)
         /\ [q EXCEPT !.pc = stage].pc = stage
BY DEF Fine, HttpRequest

FoundIn(q, stage, session) == [q EXCEPT !.pc = stage, !.session = session]

LEMMA FoundFine ==
  ASSUME NEW s \in Nat, NEW n \in Nat, NEW q, Fine(q, s, n),
         NEW stage \in Stages, NEW session \in 1 .. s
  PROVE  /\ Fine(FoundIn(q, stage, session), s, n)
         /\ FoundIn(q, stage, session).pc = stage
<1>1. session \in Nat /\ q \in HttpRequest
  BY DEF Fine
<1>2. FoundIn(q, stage, session) \in HttpRequest
  BY ONLY <1>1, stage \in Stages DEF HttpRequest, FoundIn
<1>3. /\ FoundIn(q, stage, session).pc = stage
      /\ FoundIn(q, stage, session).session = session
      /\ FoundIn(q, stage, session).pair = q.pair
  BY <1>1 DEF HttpRequest, FoundIn
<1> QED
  BY <1>2, <1>3 DEF Fine

LEMMA WaitFine ==
  ASSUME NEW s \in Nat, NEW n \in Nat, NEW q, Fine(q, s, n)
  PROVE  Fine([q EXCEPT !.pc = "waiting", !.retried = TRUE], s, n)
<1>1. PICK yes \in BOOLEAN : yes = TRUE
  OBVIOUS
<1>2. [q EXCEPT !.pc = "waiting", !.retried = TRUE] =
        [q EXCEPT !.pc = "waiting", !.retried = yes]
  BY <1>1
<1>3. Fine([q EXCEPT !.pc = "waiting", !.retried = yes], s, n)
  BY DEF Fine, HttpRequest, Stages
<1> QED
  BY <1>2, <1>3

Answered(q, ok, pair) ==
  [q EXCEPT !.pc = "answered", !.ok = ok, !.pair = pair, !.access = 0,
            !.session = 0]

LEMMA AnswerFine ==
  ASSUME NEW s \in Nat, NEW n \in Nat, NEW q, Fine(q, s, n),
         NEW ok \in BOOLEAN, NEW pair \in 0 .. n
  PROVE  /\ Fine(Answered(q, ok, pair), s, n)
         /\ Answered(q, ok, pair).pc = "answered"
<1> DEFINE a == Answered(q, ok, pair)
<1>1. a.pc = "answered" /\ a.pair = pair
  BY DEF Fine, HttpRequest, Answered
<1>2. a \in HttpRequest
  <2>1. "answered" \in Stages /\ pair \in Nat /\ q \in HttpRequest
    BY DEF Stages, Fine
  <2> QED
    BY ONLY <2>1, ok \in BOOLEAN DEF HttpRequest, Answered
<1> QED
  BY <1>1, <1>2 DEF Fine

-----------------------------------------------------------------------------
(* The documents.                                                          *)

\* Documents are added, and what is revoked stays so.
DocumentsStep ==
  /\ Documents'
  /\ Len(sessions) \in Nat /\ Len(sessions') \in Nat
  /\ Len(family) \in Nat /\ Len(family') \in Nat
  /\ Len(sessions) <= Len(sessions') /\ Len(family) <= Len(family')
  /\ \A s \in DOMAIN sessions : sessions[s].revoked => sessions'[s].revoked

LEMMA DocumentsUnchanged ==
  ASSUME Documents, UNCHANGED <<sessions, family>>, valid' \subseteq valid
  PROVE  DocumentsStep
BY LenProperties DEF Documents, DocumentsStep

\* A write to the session documents.
LEMMA SessionsWritten ==
  ASSUME Documents, UNCHANGED family, valid' \subseteq valid,
         sessions' \in [DOMAIN sessions -> Session],
         \A s \in DOMAIN sessions : sessions[s].revoked => sessions'[s].revoked
  PROVE  DocumentsStep
<1>1. /\ Len(sessions) \in Nat /\ DOMAIN sessions = 1 .. Len(sessions)
      /\ Len(family) \in Nat
  BY LenProperties DEF Documents
<1>2. sessions' \in Seq(Session) /\ DOMAIN sessions' = DOMAIN sessions
  BY <1>1, SeqDef
<1>3. Len(sessions') = Len(sessions)
  BY <1>1, <1>2, LenProperties
<1> QED
  BY <1>1, <1>2, <1>3 DEF Documents, DocumentsStep

\* A new pair of tokens for session s.
LEMMA PairIssued ==
  ASSUME Documents, NEW s \in Nat, valid' = valid \cup {NextPair},
         family' = Append(family, s),
         sessions' \in Seq(Session), s \in DOMAIN sessions',
         Len(sessions) <= Len(sessions'),
         \A t \in DOMAIN sessions : sessions[t].revoked => sessions'[t].revoked
  PROVE  DocumentsStep /\ NextPair \in 0 .. Len(family')
<1>1. /\ Len(sessions) \in Nat /\ DOMAIN sessions = 1 .. Len(sessions)
      /\ Len(sessions') \in Nat /\ DOMAIN sessions' = 1 .. Len(sessions')
      /\ Len(family) \in Nat /\ DOMAIN family = 1 .. Len(family)
  BY LenProperties DEF Documents
<1>2. family \in Seq(DOMAIN sessions')
  <2>1. family \in [1 .. Len(family) -> DOMAIN sessions]
    BY <1>1, LenProperties DEF Documents
  <2>2. family \in [1 .. Len(family) -> DOMAIN sessions']
    BY <1>1, <2>1
  <2> QED
    BY <1>1, <2>2, SeqDef
<1>3. family' \in Seq(DOMAIN sessions') /\ Len(family') = Len(family) + 1
  BY <1>2, AppendProperties
<1>4. DOMAIN family' = 1 .. Len(family) + 1
  BY <1>3, LenProperties
<1> QED
  BY <1>1, <1>3, <1>4 DEF Documents, DocumentsStep, NextPair

LEMMA TokenReplaced ==
  ASSUME Documents, NEW x \in DOMAIN sessions, NEW n \in Nat,
         sessions' = [sessions EXCEPT ![x].token = n]
  PROVE  /\ sessions' \in [DOMAIN sessions -> Session]
         /\ \A s \in DOMAIN sessions : sessions'[s].revoked = sessions[s].revoked
<1>1. sessions \in [DOMAIN sessions -> Session]
  BY LenProperties DEF Documents
<1> QED
  BY <1>1 DEF Session

LEMMA SessionRevoked ==
  ASSUME Documents, NEW x \in DOMAIN sessions,
         sessions' = [sessions EXCEPT ![x].revoked = TRUE]
  PROVE  /\ sessions' \in [DOMAIN sessions -> Session]
         /\ \A s \in DOMAIN sessions : sessions[s].revoked => sessions'[s].revoked
<1>1. sessions \in [DOMAIN sessions -> Session]
  BY LenProperties DEF Documents
<1>2. PICK yes \in BOOLEAN : yes = TRUE
  OBVIOUS
<1>3. sessions' = [sessions EXCEPT ![x].revoked = yes]
  BY <1>2
<1>4. /\ sessions' \in [DOMAIN sessions -> Session]
      /\ \A s \in DOMAIN sessions :
           sessions'[s].revoked = IF s = x THEN yes ELSE sessions[s].revoked
  BY <1>1, <1>3 DEF Session
<1> QED
  BY <1>2, <1>4

LEMMA SessionsRevoked ==
  ASSUME Documents, NEW n,
         sessions' = [s \in DOMAIN sessions |->
                        [sessions[s] EXCEPT
                           !.revoked = @ \/ sessions[s].token = n]]
  PROVE  /\ sessions' \in [DOMAIN sessions -> Session]
         /\ \A s \in DOMAIN sessions : sessions[s].revoked => sessions'[s].revoked
<1> DEFINE new(s) == [sessions[s] EXCEPT !.revoked = @ \/ sessions[s].token = n]
<1>1. \A s \in DOMAIN sessions : sessions[s] \in Session
  BY LenProperties DEF Documents
<1>2. ASSUME NEW s \in DOMAIN sessions
      PROVE  new(s) \in Session /\ (sessions[s].revoked => new(s).revoked)
  <2>1. PICK b \in BOOLEAN : b = (sessions[s].revoked \/ sessions[s].token = n)
    OBVIOUS
  <2>2. new(s) = [sessions[s] EXCEPT !.revoked = b]
    BY <2>1
  <2>3. new(s) \in Session /\ new(s).revoked = b
    BY <1>1, <2>2 DEF Session
  <2> QED
    BY <2>1, <2>3
<1> QED
  BY <1>2

-----------------------------------------------------------------------------
(* The requests on the server.                                             *)

\* One request is replaced, while documents may be added.
LEMMA RequestReplaced ==
  ASSUME NEW s \in Nat, NEW n \in Nat, NEW s2 \in Nat, NEW n2 \in Nat,
         s <= s2, n <= n2,
         NEW h, HttpFine(h, s, n), NEW k \in Slots, NEW q, Fine(q, s2, n2)
  PROVE  /\ HttpFine([h EXCEPT ![k] = q], s2, n2)
         /\ [h EXCEPT ![k] = q][k] = q
         /\ \A j \in Slots \ {k} : [h EXCEPT ![k] = q][j] = h[j]
<1> DEFINE g == [h EXCEPT ![k] = q]
<1>1. q \in HttpRequest
  BY DEF Fine
<1>2. /\ g \in [Slots -> HttpRequest]
      /\ \A j \in Slots : g[j] = IF j = k THEN q ELSE h[j]
  BY <1>1 DEF HttpFine
<1>3. \A j \in Slots : Fine(h[j], s2, n2)
  BY FineGrows DEF HttpFine
<1> HIDE DEF g
<1>4. /\ HttpFine(g, s2, n2) /\ g[k] = q
      /\ \A j \in Slots \ {k} : g[j] = h[j]
  BY <1>2, <1>3 DEF HttpFine
<1> QED
  BY <1>4 DEF g

\* What a step of the server does to the requests.
Handled(k) ==
  /\ HttpFine(http', Len(sessions'), Len(family'))
  /\ http'[k].pc \notin {"idle", "waiting"}
  /\ \A j \in Slots \ {k} : http'[j] = http[j]

LEMMA AnswerHandled ==
  ASSUME HttpFine(http, Len(sessions), Len(family)), DocumentsStep,
         NEW k \in Slots, NEW ok \in BOOLEAN, NEW pair \in 0 .. Len(family'),
         Answer(k, ok, pair)
  PROVE  Handled(k)
<1> DEFINE q == Answered(http[k], ok, pair)
<1>1. /\ Len(sessions) \in Nat /\ Len(sessions') \in Nat
      /\ Len(family) \in Nat /\ Len(family') \in Nat
      /\ Len(sessions) <= Len(sessions') /\ Len(family) <= Len(family')
  BY DEF DocumentsStep
<1>2. Fine(http[k], Len(sessions'), Len(family'))
  BY <1>1, FineGrows DEF HttpFine
<1>3. Fine(q, Len(sessions'), Len(family')) /\ q.pc = "answered"
  BY <1>1, <1>2, AnswerFine
<1>4. http' = [http EXCEPT ![k] = q]
  BY DEF Answer, Answered
<1> HIDE DEF q
<1>5. /\ HttpFine(http', Len(sessions'), Len(family'))
      /\ http'[k] = q
      /\ \A j \in Slots \ {k} : http'[j] = http[j]
  <2> DEFINE s == Len(sessions)  s2 == Len(sessions')
             n == Len(family)  n2 == Len(family')
  <2>1. /\ s \in Nat /\ s2 \in Nat /\ n \in Nat /\ n2 \in Nat
        /\ s <= s2 /\ n <= n2
        /\ HttpFine(http, s, n) /\ Fine(q, s2, n2)
    BY <1>1, <1>3
  <2> HIDE DEF s, s2, n, n2
  <2>2. /\ HttpFine([http EXCEPT ![k] = q], s2, n2)
        /\ [http EXCEPT ![k] = q][k] = q
        /\ \A j \in Slots \ {k} : [http EXCEPT ![k] = q][j] = http[j]
    BY <2>1, RequestReplaced
  <2> QED
    BY <1>4, <2>2 DEF s2, n2
<1> QED
  BY <1>3, <1>5 DEF Handled

LEMMA ServerStepHandled ==
  ASSUME Documents, HttpFine(http, Len(sessions), Len(family)),
         NEW k \in Slots, ServerStep(k)
  PROVE  DocumentsStep /\ Handled(k) /\ http[k].pc \notin {"idle", "waiting"}
<1> DEFINE q == http[k]
<1>1. /\ Len(sessions) \in Nat /\ DOMAIN sessions = 1 .. Len(sessions)
      /\ Len(family) \in Nat /\ NextPair \in Nat
  BY LenProperties DEF Documents, NextPair
<1>2. Fine(q, Len(sessions), Len(family)) /\ q \in HttpRequest
  BY DEF HttpFine
<1>3. q.pc \in {"saveSession", "revokeFamily"} => q.session \in DOMAIN sessions
  BY <1>1, <1>2 DEF Fine
<1>p. PICK yes \in BOOLEAN, no \in BOOLEAN : yes = TRUE /\ no = FALSE
  OBVIOUS
<1>4. ASSUME UNCHANGED <<sessions, family, valid>>,
             NEW ok \in BOOLEAN, Answer(k, ok, 0)
      PROVE  DocumentsStep /\ Handled(k)
  <2>1. DocumentsStep
    BY <1>4, DocumentsUnchanged
  <2>2. 0 \in 0 .. Len(family')
    BY <1>1, <1>4
  <2> QED
    BY <1>4, <2>1, <2>2, AnswerHandled
<1>5. ASSUME UNCHANGED <<sessions, family, valid>>, NEW stage \in Stages,
             stage \notin {"idle", "waiting"}, NEW r,
             Fine(r, Len(sessions), Len(family)), r.pc = stage,
             http' = [http EXCEPT ![k] = r]
      PROVE  DocumentsStep /\ Handled(k)
  <2>1. DocumentsStep
    BY <1>5, DocumentsUnchanged
  <2>3. /\ HttpFine(http', Len(sessions), Len(family))
        /\ http'[k] = r
        /\ \A j \in Slots \ {k} : http'[j] = http[j]
    <3> DEFINE s == Len(sessions)  n == Len(family)
    <3>1. /\ s \in Nat /\ n \in Nat /\ s <= s /\ n <= n
          /\ HttpFine(http, s, n) /\ Fine(r, s, n)
      BY <1>1, <1>5
    <3> HIDE DEF s, n
    <3>2. /\ HttpFine([http EXCEPT ![k] = r], s, n)
          /\ [http EXCEPT ![k] = r][k] = r
          /\ \A j \in Slots \ {k} : [http EXCEPT ![k] = r][j] = http[j]
      BY <3>1, RequestReplaced
    <3> QED
      BY <1>5, <3>2 DEF s, n
  <2> QED
    BY <1>5, <2>1, <2>3 DEF Handled
<1>6. CASE Authenticate(k)
  <2>1. \/ \E ok \in BOOLEAN : Answer(k, ok, 0)
        \/ http' = [http EXCEPT ![k] = [q EXCEPT !.pc = "updateMany"]]
    BY <1>6, <1>p DEF Authenticate, Goto
  <2>2. UNCHANGED <<sessions, family, valid>> /\ q.pc = "authenticate"
    BY <1>6 DEF Authenticate
  <2>3. "updateMany" \in Stages
    BY DEF Stages
  <2>4. /\ Fine([q EXCEPT !.pc = "updateMany"], Len(sessions), Len(family))
        /\ [q EXCEPT !.pc = "updateMany"].pc = "updateMany"
    BY <1>1, <1>2, <2>3, GotoFine
  <2> QED
    BY <1>1, <1>4, <1>5, <2>1, <2>2, <2>3, <2>4
<1>7. CASE RevokeByToken(k)
  <2>1. DocumentsStep
    <3>1. /\ sessions' \in [DOMAIN sessions -> Session]
          /\ \A s \in DOMAIN sessions : sessions[s].revoked => sessions'[s].revoked
      BY <1>7, SessionsRevoked DEF RevokeByToken
    <3> QED
      BY <1>7, <3>1, SessionsWritten DEF RevokeByToken
  <2>2. Answer(k, yes, 0) /\ q.pc = "updateMany"
    BY <1>7, <1>p DEF RevokeByToken
  <2>3. 0 \in 0 .. Len(family')
    BY <1>1, <1>7 DEF RevokeByToken
  <2> QED
    BY <2>1, <2>2, <2>3, AnswerHandled
<1>8. CASE FindSession(k)
  <2>1. UNCHANGED <<sessions, family, valid>> /\ q.pc = "findSession"
    BY <1>8 DEF FindSession
  <2>2. CASE Answer(k, FALSE, 0)
    BY <1>4, <1>p, <2>1, <2>2
  <2>3. ASSUME NEW s \in SessionOf(q.refresh),
               http' = [http EXCEPT
                          ![k] = [@ EXCEPT !.pc = IF sessions[s].revoked
                                                  THEN "revokeFamily"
                                                  ELSE "saveSession",
                                           !.session = s]]
        PROVE  DocumentsStep /\ Handled(k)
    <3>1. s \in DOMAIN sessions /\ s \in Nat
      BY <1>1 DEF SessionOf
    <3>2. PICK stage \in {"revokeFamily", "saveSession"} :
            stage = IF sessions[s].revoked THEN "revokeFamily"
                                           ELSE "saveSession"
      OBVIOUS
    <3>3. stage \in Stages
      BY DEF Stages
    <3>4. http' = [http EXCEPT ![k] = FoundIn(q, stage, s)]
      BY <2>3, <3>2 DEF FoundIn
    <3>5. /\ Fine(FoundIn(q, stage, s), Len(sessions), Len(family))
          /\ FoundIn(q, stage, s).pc = stage
      BY <1>1, <1>2, <3>1, <3>3, FoundFine
    <3> QED
      BY <1>5, <2>1, <3>2, <3>3, <3>4, <3>5
  <2> QED
    BY <1>8, <2>1, <2>2, <2>3 DEF FindSession
<1>9. CASE SaveSession(k)
  <2>1. /\ q.pc = "saveSession" /\ q.session \in DOMAIN sessions
        /\ q.session \in Nat
    BY <1>1, <1>3, <1>9 DEF SaveSession
  <2>2. /\ sessions' \in [DOMAIN sessions -> Session]
        /\ \A s \in DOMAIN sessions : sessions'[s].revoked = sessions[s].revoked
    BY <1>1, <1>9, <2>1, TokenReplaced DEF SaveSession
  <2>3. sessions' \in Seq(Session) /\ DOMAIN sessions' = 1 .. Len(sessions)
    BY <1>1, <2>2, SeqDef
  <2>4. Len(sessions') = Len(sessions)
    BY <1>1, <2>3, LenProperties
  <2>5. DocumentsStep /\ NextPair \in 0 .. Len(family')
    BY <1>1, <1>9, <2>1, <2>2, <2>3, <2>4, PairIssued DEF SaveSession
  <2>6. Answer(k, yes, NextPair)
    BY <1>9, <1>p DEF SaveSession
  <2> QED
    BY <2>1, <2>5, <2>6, AnswerHandled
<1>10. CASE RevokeFamily(k)
  <2>1. q.pc = "revokeFamily" /\ q.session \in DOMAIN sessions
    BY <1>3, <1>10 DEF RevokeFamily
  <2>2. /\ sessions' \in [DOMAIN sessions -> Session]
        /\ \A s \in DOMAIN sessions : sessions[s].revoked => sessions'[s].revoked
    BY <1>10, <2>1, SessionRevoked DEF RevokeFamily
  <2>3. DocumentsStep
    BY <1>10, <2>2, SessionsWritten DEF RevokeFamily
  <2>4. Answer(k, no, 0)
    BY <1>10, <1>p DEF RevokeFamily
  <2>5. 0 \in 0 .. Len(family')
    BY <1>1, <1>10 DEF RevokeFamily
  <2> QED
    BY <2>1, <2>3, <2>4, <2>5, AnswerHandled
<1>11. CASE CreateSession(k)
  <2> DEFINE new == [token |-> NextPair, revoked |-> no]
  <2>1. new \in Session
    BY <1>1 DEF Session
  <2>2. sessions' = Append(sessions, new)
    BY <1>11, <1>p DEF CreateSession
  <2> HIDE DEF new
  <2>3. /\ sessions' \in Seq(Session) /\ Len(sessions') = Len(sessions) + 1
        /\ DOMAIN sessions' = 1 .. Len(sessions) + 1
        /\ \A s \in DOMAIN sessions : sessions'[s] = sessions[s]
    <3>1. sessions \in Seq(Session)
      BY DEF Documents
    <3>2. /\ sessions' \in Seq(Session) /\ Len(sessions') = Len(sessions) + 1
          /\ \A s \in 1 .. Len(sessions) : sessions'[s] = sessions[s]
      BY <2>1, <2>2, <3>1, AppendProperties
    <3>3. DOMAIN sessions' = 1 .. Len(sessions')
      BY <3>2, LenProperties
    <3> QED
      BY <1>1, <3>2, <3>3
  <2>4. Len(sessions) + 1 \in Nat /\ Len(sessions) + 1 \in DOMAIN sessions'
    BY <1>1, <2>3
  <2>5. DocumentsStep /\ NextPair \in 0 .. Len(family')
    <3>1. /\ family' = Append(family, Len(sessions) + 1)
          /\ valid' = valid \cup {NextPair}
          /\ Len(sessions) <= Len(sessions')
          /\ \A t \in DOMAIN sessions :
               sessions[t].revoked => sessions'[t].revoked
      BY <1>1, <1>11, <2>3 DEF CreateSession
    <3> HIDE DEF NextPair
    <3> QED
      BY <2>3, <2>4, <3>1, PairIssued
  <2>6. Answer(k, yes, NextPair) /\ q.pc = "create"
    BY <1>11, <1>p DEF CreateSession
  <2> QED
    BY <2>5, <2>6, AnswerHandled
<1> QED
  BY <1>6, <1>7, <1>8, <1>9, <1>10, <1>11 DEF ServerStep

-----------------------------------------------------------------------------
(* The browser.                                                            *)

\* A call that does not wait afterwards.
LEMMA CallReplaced ==
  ASSUME ClientInv, UNCHANGED server, NEW k \in Calls, NEW q,
         Fine(q, Len(sessions), Len(family)), q.pc # "waiting",
         http' = Put(k, q), Browser'
  PROVE  ClientInv' /\ DocumentsStep
<1> USE SlotsAssumption
<1>1. DocumentsStep
  BY DocumentsUnchanged DEF server, ClientInv
<1> DEFINE s == Len(sessions)  n == Len(family)
<1>2. /\ s \in Nat /\ n \in Nat /\ s <= s /\ n <= n /\ k \in Slots
      /\ HttpFine(http, s, n) /\ Fine(q, s, n)
  BY <1>1 DEF DocumentsStep, ClientInv
<1> HIDE DEF s, n
<1>3. /\ HttpFine([http EXCEPT ![k] = q], s, n)
      /\ [http EXCEPT ![k] = q][k] = q
      /\ \A j \in Slots \ {k} : [http EXCEPT ![k] = q][j] = http[j]
  BY <1>2, RequestReplaced
<1>4. /\ HttpFine(http', s, n) /\ http'[k] = q
      /\ \A j \in Slots \ {k} : http'[j] = http[j]
  BY <1>3 DEF Put
<1>5. WaitersHaveRefresh'
  BY <1>4 DEF WaitersHaveRefresh, ClientInv
<1>6. HttpFine(http', Len(sessions'), Len(family'))
  BY <1>4 DEF s, n, server
<1> QED
  BY <1>1, <1>5, <1>6 DEF DocumentsStep, ClientInv

\* All who wait for the refresh of tab t go on.
LEMMA RefreshOver ==
  ASSUME ClientInv, UNCHANGED server, NEW t \in Tabs, NEW f,
         http' = [k \in Slots |-> IF k = t THEN NoRequest
                                  ELSE IF k \in Waiters(t) THEN f[k]
                                  ELSE http[k]],
         \A k \in Waiters(t) :
           Fine(f[k], Len(sessions), Len(family)) /\ f[k].pc # "waiting",
         Browser'
  PROVE  ClientInv' /\ DocumentsStep
<1> USE SlotsAssumption
<1>1. DocumentsStep
  BY DocumentsUnchanged DEF server, ClientInv
<1>2. Fine(NoRequest, Len(sessions), Len(family)) /\ NoRequest.pc = "idle"
  BY <1>1, NoRequestFine DEF DocumentsStep
<1>3. \A k \in Slots : Fine(http'[k], Len(sessions), Len(family))
  BY <1>2 DEF HttpFine, ClientInv
<1>4. HttpFine(http', Len(sessions'), Len(family'))
  <2>1. \A k \in Slots : http'[k] \in HttpRequest
    BY <1>3 DEF Fine
  <2>2. http' \in [Slots -> HttpRequest]
    BY <2>1
  <2> QED
    BY <1>3, <2>2 DEF HttpFine, server
<1>5. WaitersHaveRefresh'
  <2> SUFFICES ASSUME NEW k \in Calls, http'[k].pc = "waiting"
               PROVE  http'[TabOf[k]].pc # "idle"
    BY DEF WaitersHaveRefresh
  <2>1. k # t /\ k \notin Waiters(t)
    BY <1>2
  <2>2. http'[k] = http[k] /\ TabOf[k] # t
    BY <2>1 DEF Waiters
  <2>3. TabOf[k] \in Tabs /\ TabOf[k] \notin Waiters(t)
    BY DEF Waiters
  <2>4. http'[TabOf[k]] = http[TabOf[k]]
    BY <2>2, <2>3
  <2> QED
    BY <2>2, <2>4 DEF WaitersHaveRefresh, ClientInv
<1> QED
  BY <1>1, <1>4, <1>5 DEF DocumentsStep, ClientInv

-----------------------------------------------------------------------------
(* One lemma per part of the next-state relation.                          *)

LEMMA Credentials ==
  ASSUME ClientInv
  PROVE  /\ Len(family) \in Nat /\ Len(sessions) \in Nat
         /\ stored \in Nat /\ cookie \in Nat /\ Credential \in Nat
         /\ \A k \in Slots : /\ http[k] \in HttpRequest
                             /\ Fine(http[k], Len(sessions), Len(family))
BY LenProperties DEF ClientInv, Documents, Browser, Credential, HttpFine, Fine

LEMMA UserStep ==
  ASSUME ClientInv, User
  PROVE  ClientInv' /\ DocumentsStep
<1>p. PICK no \in BOOLEAN : no = FALSE
  OBVIOUS
<1> PICK k \in Calls : Call(k) \/ SignIn(k) \/ SignOut(k) \/ Start(k)
  BY DEF User
<1>1. UNCHANGED server /\ Browser'
  BY DEF Call, SignIn, SignOut, Start, ClientInv, Browser, server
<1>2. \E kind \in Kinds, access \in Nat, refresh \in Nat :
        http' = Put(k, Request(kind, access, refresh, no))
  BY Credentials, <1>p DEF Call, SignIn, SignOut, Start, Kinds
<1> PICK q : /\ Fine(q, Len(sessions), Len(family))
             /\ q.pc \in {"authenticate", "findSession", "create"}
             /\ http' = Put(k, q)
  BY <1>2, Credentials, RequestFine
<1> QED
  BY <1>1, CallReplaced

LEMMA HandleStep ==
  ASSUME ClientInv, NEW k \in Slots, Handle(k)
  PROVE  ClientInv' /\ DocumentsStep
<1> USE SlotsAssumption
<1>1. /\ DocumentsStep /\ Handled(k)
      /\ http[k].pc \notin {"idle", "waiting"}
  BY ServerStepHandled DEF ClientInv, Handle
<1>2. Browser'
  BY <1>1 DEF Handle, ClientInv, Browser, DocumentsStep
<1>3. WaitersHaveRefresh'
  BY <1>1 DEF Handled, WaitersHaveRefresh, ClientInv
<1> QED
  BY <1>1, <1>2, <1>3 DEF Handled, DocumentsStep, ClientInv

LEMMA SettleStep ==
  ASSUME ClientInv, NEW k \in Slots, Settle(k)
  PROVE  ClientInv' /\ DocumentsStep
<1>1. k \in Calls /\ UNCHANGED <<server, overlapped>> /\ http' = Put(k, NoRequest)
  BY DEF Settle
<1>2. http[k].pair \in 0 .. Len(family)
  BY Credentials DEF Fine
<1>3. /\ stored' \in {stored, 0, http[k].pair}
      /\ cookie' \in {cookie, 0, http[k].pair}
  BY DEF Settle, Store
<1>4. Browser'
  BY <1>1, <1>2, <1>3, Credentials DEF Browser, ClientInv, server
<1> QED
  BY <1>1, <1>4, Credentials, NoRequestFine, CallReplaced

LEMMA RefreshSucceededStep ==
  ASSUME ClientInv, NEW t \in Tabs, RefreshSucceeded(t)
  PROVE  ClientInv' /\ DocumentsStep
<1> USE SlotsAssumption
<1> DEFINE f == [k \in Slots |->
                   Request(http[k].kind, http[t].pair, http[k].refresh, TRUE)]
<1>p. PICK yes \in BOOLEAN : yes = TRUE
  OBVIOUS
<1>1. http[t].pair \in 0 .. Len(family) /\ http[t].pair \in Nat
  BY Credentials DEF Fine
<1>2. \A k \in Waiters(t) : /\ k \in Slots
                            /\ http[k].kind \in Kinds /\ http[k].refresh \in Nat
  BY Credentials DEF Waiters, HttpRequest
<1>3. ASSUME NEW k \in Waiters(t)
      PROVE  Fine(f[k], Len(sessions), Len(family)) /\ f[k].pc # "waiting"
  <2>1. f[k] = Request(http[k].kind, http[t].pair, http[k].refresh, yes)
    BY <1>2, <1>p
  <2>2. /\ http[k].kind \in Kinds /\ http[k].refresh \in Nat
        /\ Len(sessions) \in Nat /\ Len(family) \in Nat
    BY <1>2, Credentials
  <2>3. /\ Fine(f[k], Len(sessions), Len(family))
        /\ f[k].pc \in {"authenticate", "findSession", "create"}
    <3> DEFINE s == Len(sessions)  n == Len(family)
               kind == http[k].kind  pair == http[t].pair
               refresh == http[k].refresh
    <3>1. /\ s \in Nat /\ n \in Nat /\ kind \in Kinds
          /\ pair \in Nat /\ refresh \in Nat
      BY <1>1, <2>2
    <3> HIDE DEF s, n, kind, pair, refresh, f
    <3>2. /\ Fine(Request(kind, pair, refresh, yes), s, n)
          /\ Request(kind, pair, refresh, yes).pc \in
               {"authenticate", "findSession", "create"}
      BY ONLY <3>1, yes \in BOOLEAN, RequestFine
    <3> QED
      BY <2>1, <3>2 DEF s, n, kind, pair, refresh
  <2> QED
    BY <2>3
<1>4. http' = [k \in Slots |-> IF k = t THEN NoRequest
                               ELSE IF k \in Waiters(t) THEN f[k]
                               ELSE http[k]]
  <2> DEFINE g(k) == CASE k = t -> NoRequest
                       [] k \in Waiters(t) -> f[k]
                       [] OTHER -> http[k]
  <2>1. http' = [k \in Slots |-> g(k)]
    BY DEF RefreshSucceeded
  <2> HIDE DEF f
  <2>2. t \notin Waiters(t)
    BY DEF Waiters
  <2>3. ASSUME NEW k \in Slots
        PROVE  g(k) = IF k = t THEN NoRequest
                      ELSE IF k \in Waiters(t) THEN f[k] ELSE http[k]
    BY <2>2
  <2> QED
    BY <2>1, <2>3
<1>5. UNCHANGED server /\ Browser'
  BY <1>1 DEF RefreshSucceeded, Store, Browser, ClientInv, server
<1> HIDE DEF f
<1> QED
  BY <1>3, <1>4, <1>5, RefreshOver

LEMMA RefreshFailedStep ==
  ASSUME ClientInv, NEW t \in Tabs, RefreshFailed(t)
  PROVE  ClientInv' /\ DocumentsStep
<1> DEFINE f == [k \in Slots |-> NoRequest]
<1>1. /\ http' = [k \in Slots |-> IF k = t \/ k \in Waiters(t) THEN NoRequest
                                  ELSE http[k]]
      /\ UNCHANGED server
  BY DEF RefreshFailed
<1>2. http' = [k \in Slots |-> IF k = t THEN NoRequest
                               ELSE IF k \in Waiters(t) THEN f[k]
                               ELSE http[k]]
  BY <1>1
<1>3. Browser'
  BY Credentials DEF RefreshFailed, Browser, ClientInv, server
<1>4. \A k \in Waiters(t) :
        Fine(f[k], Len(sessions), Len(family)) /\ f[k].pc # "waiting"
  BY Credentials, NoRequestFine, SlotsAssumption DEF Waiters
<1> HIDE DEF f
<1> QED
  BY <1>1, <1>2, <1>3, <1>4, RefreshOver

LEMMA JoinRefreshStep ==
  ASSUME ClientInv, NEW k \in Slots, JoinRefresh(k)
  PROVE  ClientInv' /\ DocumentsStep
<1> USE SlotsAssumption
<1> DEFINE t == TabOf[k]
           s == Len(sessions)
           n == Len(family)
           w == [http[k] EXCEPT !.pc = "waiting", !.retried = TRUE]
           wait == [http EXCEPT ![k] = w]
           r == Request("refresh", Credential, Credential, FALSE)
<1>p. PICK no \in BOOLEAN : no = FALSE
  OBVIOUS
<1>1. k \in Calls /\ k \in Slots /\ t \in Tabs /\ t \in Slots /\ t # k
  BY DEF JoinRefresh
<1>2. DocumentsStep
  BY DocumentsUnchanged DEF JoinRefresh, ClientInv, server
<1>3. Browser'
  BY <1>p DEF JoinRefresh, ClientInv, Browser, server
<1>4. /\ s \in Nat /\ n \in Nat /\ s <= s /\ n <= n
      /\ HttpFine(http, s, n) /\ Fine(http[k], s, n)
  BY Credentials DEF ClientInv
<1>5. Fine(w, s, n)
  BY <1>4, WaitFine
<1>6. Fine(r, s, n) /\ r.pc = "findSession"
  <2>1. r = Request("refresh", Credential, Credential, no)
    BY <1>p
  <2>2. Fine(Request("refresh", Credential, Credential, no), s, n)
    BY <1>4, Credentials, RequestFine DEF Kinds
  <2>3. FirstStage("refresh") = "findSession"
    BY DEF FirstStage
  <2>4. r.pc = FirstStage("refresh")
    BY DEF Request, NoRequest
  <2> QED
    BY <2>1, <2>2, <2>3, <2>4
<1>7. \/ http[t].pc = "idle" /\ http' = [wait EXCEPT ![t] = r]
      \/ http[t].pc # "idle" /\ http' = wait
  BY DEF JoinRefresh
<1>8. UNCHANGED server
  BY DEF JoinRefresh
<1> HIDE DEF t, s, n, w, r
<1>9. /\ HttpFine(wait, s, n)
      /\ \A j \in Slots \ {k} : wait[j] = http[j]
  BY <1>1, <1>4, <1>5, RequestReplaced
<1> HIDE DEF wait
<1>10. /\ HttpFine([wait EXCEPT ![t] = r], s, n)
       /\ [wait EXCEPT ![t] = r][t] = r
       /\ \A j \in Slots \ {t} : [wait EXCEPT ![t] = r][j] = wait[j]
  BY <1>1, <1>4, <1>6, <1>9, RequestReplaced
<1>11. /\ HttpFine(http', s, n) /\ http'[t].pc # "idle"
       /\ \A j \in Slots \ {k, t} : http'[j] = http[j]
  BY <1>1, <1>6, <1>7, <1>9, <1>10
<1>12. WaitersHaveRefresh'
  <2> SUFFICES ASSUME NEW j \in Calls, http'[j].pc = "waiting"
               PROVE  http'[TabOf[j]].pc # "idle"
    BY DEF WaitersHaveRefresh
  <2>1. CASE TabOf[j] = t
    BY <1>11, <2>1
  <2>2. CASE TabOf[j] # t
    <3>1. j # k /\ j # t /\ TabOf[j] # k
      BY <1>1, <2>2 DEF t
    <3>2. http'[j] = http[j] /\ http'[TabOf[j]] = http[TabOf[j]]
      BY <1>11, <2>2, <3>1
    <3> QED
      BY <3>2 DEF WaitersHaveRefresh, ClientInv
  <2> QED
    BY <2>1, <2>2
<1> QED
  BY <1>2, <1>3, <1>8, <1>11, <1>12 DEF ClientInv, DocumentsStep, s, n, server

LEMMA NetworkErrorStep ==
  ASSUME ClientInv, NEW k \in Slots, NetworkError(k)
  PROVE  ClientInv' /\ DocumentsStep
<1>1. CASE k \in Tabs
  BY <1>1, RefreshFailedStep DEF NetworkError
<1>2. CASE k \notin Tabs
  <2>1. /\ k \in Calls /\ http' = Put(k, NoRequest) /\ UNCHANGED server
        /\ stored' \in {0, stored} /\ UNCHANGED <<cookie, overlapped>>
    BY <1>2, SlotsAssumption DEF NetworkError
  <2>2. Browser'
    BY <2>1, Credentials DEF Browser, ClientInv, server
  <2> QED
    BY <2>1, <2>2, Credentials, NoRequestFine, CallReplaced
<1> QED
  BY <1>1, <1>2

LEMMA EnvironmentStep ==
  ASSUME ClientInv, Environment
  PROVE  ClientInv' /\ DocumentsStep
<1>1. ASSUME NEW n \in valid, ExpireAccess(n),
             UNCHANGED <<stored, cookie, overlapped>>
      PROVE  ClientInv' /\ DocumentsStep
  <2>1. DocumentsStep
    BY <1>1, DocumentsUnchanged DEF ExpireAccess, ClientInv
  <2> QED
    BY <1>1, <2>1 DEF ExpireAccess, ClientInv, DocumentsStep, Browser,
                      WaitersHaveRefresh
<1>2. ASSUME NEW s \in DOMAIN sessions, EndSession(s),
             UNCHANGED <<stored, cookie, overlapped>>
      PROVE  ClientInv' /\ DocumentsStep
  <2>1. /\ sessions' \in [DOMAIN sessions -> Session]
        /\ \A t \in DOMAIN sessions : sessions[t].revoked => sessions'[t].revoked
    BY <1>2, SessionRevoked DEF EndSession, ClientInv
  <2>2. DocumentsStep
    BY <1>2, <2>1, SessionsWritten DEF EndSession, ClientInv
  <2>3. Len(sessions') = Len(sessions)
    <3>1. DOMAIN sessions' = DOMAIN sessions
      BY <2>1
    <3>2. /\ DOMAIN sessions = 1 .. Len(sessions)
          /\ DOMAIN sessions' = 1 .. Len(sessions')
          /\ Len(sessions) \in Nat /\ Len(sessions') \in Nat
      BY <2>2, LenProperties DEF DocumentsStep, Documents, ClientInv
    <3> QED
      BY <3>1, <3>2
  <2> QED
    BY <1>2, <2>2, <2>3 DEF EndSession, ClientInv, DocumentsStep, Browser,
                            WaitersHaveRefresh
<1> QED
  BY <1>1, <1>2, NetworkErrorStep DEF Environment

LEMMA ClientStep ==
  ASSUME ClientInv, [ClientNext]_clientVars
  PROVE  ClientInv' /\ DocumentsStep
<1>1. CASE UNCHANGED clientVars
  <2>1. DocumentsStep
    BY <1>1, DocumentsUnchanged DEF clientVars, ClientInv
  <2> QED
    BY <1>1, <2>1 DEF clientVars, ClientInv, DocumentsStep, Browser,
                      WaitersHaveRefresh
<1>2. ASSUME NEW k \in Slots, BrowserStep(k)
      PROVE  ClientInv' /\ DocumentsStep
  BY <1>2, SettleStep, JoinRefreshStep, RefreshSucceededStep, RefreshFailedStep
     DEF BrowserStep
<1> QED
  BY <1>1, <1>2, UserStep, HandleStep, EnvironmentStep DEF ClientNext

LEMMA ClientStart == ClientInit => ClientInv
<1> SUFFICES ASSUME ClientInit PROVE ClientInv
  OBVIOUS
<1> USE SlotsAssumption
<1>p. PICK no \in BOOLEAN : no = FALSE
  OBVIOUS
<1> DEFINE first == [token |-> 1, revoked |-> no]
<1>1. first \in Session
  BY DEF Session
<1>2. sessions = <<first>> /\ family = <<1>> /\ overlapped = no
  BY <1>p DEF ClientInit
<1> HIDE DEF first
<1>3. /\ sessions \in Seq(Session) /\ Len(sessions) = 1 /\ DOMAIN sessions = {1}
  BY <1>1, <1>2
<1>4. family \in Seq({1}) /\ Len(family) = 1 /\ DOMAIN family = {1}
  BY <1>2
<1>5. Documents /\ Browser
  BY <1>2, <1>3, <1>4 DEF Documents, Browser, ClientInit
<1>6. Fine(NoRequest, 1, 1) /\ NoRequest \in HttpRequest /\ NoRequest.pc = "idle"
  BY NoRequestFine DEF Fine
<1>7. http = [k \in Slots |-> NoRequest]
  BY DEF ClientInit
<1>8. HttpFine(http, 1, 1) /\ WaitersHaveRefresh
  BY <1>6, <1>7 DEF HttpFine, WaitersHaveRefresh
<1> QED
  BY <1>3, <1>4, <1>5, <1>8 DEF ClientInv

LEMMA ClientInvariant == ClientSpec => []ClientInv
<1>1. ClientInv /\ [ClientNext]_clientVars => ClientInv'
  BY ClientStep
<1> QED
  BY <1>1, ClientStart, PTL DEF ClientSpec

-----------------------------------------------------------------------------
\* The tokens in the browser and on the server are always ones that were
\* issued, and every token belongs to a session that exists, in any number of
\* tabs and calls (tokenStorage.js, authService.js:9, 13).
THEOREM ClientTypeCorrect == ClientSpec => []ClientTypeOK
<1>1. ClientInv => ClientTypeOK
  BY DEF ClientInv, Documents, Browser, HttpFine, ClientTypeOK, SessionsTypeOK
<1> QED
  BY <1>1, ClientInvariant, PTL

\* No wake-up is lost: whoever waits for a refresh waits for one that is in
\* flight (apiClient.js:15-19).
THEOREM NoLostWakeUp == ClientSpec => []WaitersHaveRefresh
<1>1. ClientInv => WaitersHaveRefresh
  BY DEF ClientInv
<1> QED
  BY <1>1, ClientInvariant, PTL

\* However the rotations, logouts and revocations of a user interleave, none
\* of their writes brings a revoked session back (authService.js:13-14).
THEOREM RevocationIsFinal == ClientSpec => RevokedForGood
<1>1. ClientInv /\ [ClientNext]_clientVars =>
        [\A s \in DOMAIN sessions :
           sessions[s].revoked => sessions'[s].revoked]_clientVars
  BY ClientStep DEF DocumentsStep
<1> QED
  BY <1>1, ClientInvariant, PTL DEF ClientSpec, RevokedForGood

-----------------------------------------------------------------------------
(* The stored token is the current one of its session                      *)

\* The stages of each kind of request, and the pairs it may carry.
KindInv ==
  \A k \in Slots :
    /\ http[k].pc = "idle" =>
         http[k].kind = "api" /\ http[k].refresh = 0 /\ http[k].pair = 0
    /\ http[k].pc # "idle" => (http[k].kind = "refresh" <=> k \in Tabs)
    /\ http[k].pc \in {"findSession", "saveSession", "revokeFamily"} =>
         http[k].kind \in {"refresh", "start"}
    /\ http[k].pc \in {"authenticate", "updateMany", "waiting"} =>
         http[k].kind \in {"api", "logout"}
    /\ http[k].pc = "create" => http[k].kind = "login"
    /\ http[k].refresh \in 0 .. Len(family)

\* Pair n is the last one issued for its session.
Current(n) == n \in DOMAIN family /\ sessions[family[n]].token = n

\* A login that is answered and that the browser has not dealt with: nobody
\* has its refresh token yet, so nobody rotates it.
Fresh(k, p) ==
  /\ Current(p) /\ p # stored /\ p # cookie
  /\ \A j \in Slots : http[j].refresh # p
  /\ \A j \in Slots \ {k} :
       /\ http[j].pair # p
       /\ http[j].pc = "saveSession" => http[j].session # family[p]

Answers(k, p) == http[k].pc = "answered" /\ http[k].ok /\ http[k].pair = p

FreshLogin ==
  \A k \in Slots, p \in Nat :
    http[k].kind = "login" /\ Answers(k, p) => Fresh(k, p)

\* One refresh at a time: its answer is current when it arrives, and what is
\* stored is current when none is under way.
OneRefresh ==
  ~overlapped =>
    /\ \A j, k \in Refreshing : j = k
    /\ \A k \in Refreshing, p \in Nat : Answers(k, p) => Current(p)
    /\ \A p \in Nat \ {0} : stored = p /\ Refreshing = {} => Current(p)

StoredInv == KindInv /\ FreshLogin /\ OneRefresh

(* What a step of the server does to the request and to the tokens.        *)

SameTokens ==
  /\ family' = family /\ DOMAIN sessions' = DOMAIN sessions
  /\ \A s \in DOMAIN sessions : sessions'[s].token = sessions[s].token

GoneOn(k) ==
  /\ SameTokens
  /\ http'[k].pc \in {"answered", "updateMany", "saveSession", "revokeFamily"}
  /\ http'[k].pair \in {0, http[k].pair}
  /\ http'[k].pc = "answered" /\ http'[k].ok => http[k].kind \in {"api", "logout"}
  /\ http'[k].pc = "updateMany" => http[k].kind \in {"api", "logout"}
  /\ http'[k].pc \in {"saveSession", "revokeFamily"} =>
       /\ http[k].kind \in {"refresh", "start"}
       /\ http'[k].session \in DOMAIN sessions
       /\ sessions[http'[k].session].token = http[k].refresh

\* Session x gets the next pair, and is another document or a new one.
Issued(k, x) ==
  /\ http'[k].pc = "answered" /\ http'[k].pair = NextPair
  /\ family' = Append(family, x)
  /\ x \in DOMAIN sessions'
  /\ sessions'[x].token = NextPair
  /\ DOMAIN sessions \subseteq DOMAIN sessions'
  /\ \A s \in DOMAIN sessions \ {x} : sessions'[s].token = sessions[s].token

LEMMA AnsweredFields ==
  ASSUME NEW q \in HttpRequest, NEW ok \in BOOLEAN, NEW pair \in Nat
  PROVE  /\ Answered(q, ok, pair).pc = "answered" /\ Answered(q, ok, pair).pair = pair
         /\ Answered(q, ok, pair).ok = ok /\ Answered(q, ok, pair).kind = q.kind
         /\ Answered(q, ok, pair).refresh = q.refresh
BY DEF Answered, HttpRequest

LEMMA AnswerEffect ==
  ASSUME ClientInv, NEW k \in Slots, NEW ok \in BOOLEAN, NEW pair \in Nat,
         Answer(k, ok, pair)
  PROVE  /\ http'[k].pc = "answered" /\ http'[k].pair = pair
         /\ http'[k].ok = ok /\ http'[k].kind = http[k].kind
         /\ http'[k].refresh = http[k].refresh
<1>1. http \in [Slots -> HttpRequest] /\ http[k] \in HttpRequest
  BY DEF ClientInv, HttpFine
<1>2. http'[k] = Answered(http[k], ok, pair)
  BY <1>1 DEF Answer, Answered
<1> QED
  BY <1>1, <1>2, AnsweredFields

LEMMA TokensRevoked ==
  ASSUME ClientInv, NEW n,
         sessions' = [s \in DOMAIN sessions |->
                        [sessions[s] EXCEPT
                           !.revoked = @ \/ sessions[s].token = n]]
  PROVE  /\ DOMAIN sessions' = DOMAIN sessions
         /\ \A s \in DOMAIN sessions : sessions'[s].token = sessions[s].token
<1>1. \A s \in DOMAIN sessions : sessions[s] \in Session
  BY LenProperties DEF ClientInv, Documents
<1> SUFFICES ASSUME NEW s \in DOMAIN sessions
             PROVE  sessions'[s].token = sessions[s].token
  OBVIOUS
<1>2. PICK b \in BOOLEAN : b = (sessions[s].revoked \/ sessions[s].token = n)
  OBVIOUS
<1>3. sessions'[s] = [sessions[s] EXCEPT !.revoked = b]
  BY <1>2
<1> QED
  BY <1>1, <1>3 DEF Session

LEMMA TokenRevoked ==
  ASSUME ClientInv, NEW x \in DOMAIN sessions,
         sessions' = [sessions EXCEPT ![x].revoked = TRUE]
  PROVE  /\ DOMAIN sessions' = DOMAIN sessions
         /\ \A s \in DOMAIN sessions : sessions'[s].token = sessions[s].token
<1>1. sessions \in [DOMAIN sessions -> Session]
  BY LenProperties DEF ClientInv, Documents
<1>2. PICK yes \in BOOLEAN : yes = TRUE
  OBVIOUS
<1>3. sessions' = [sessions EXCEPT ![x].revoked = yes]
  BY <1>2
<1> QED
  BY <1>1, <1>3 DEF Session

LEMMA ServerEffect ==
  ASSUME ClientInv, KindInv, NEW k \in Slots, ServerStep(k)
  PROVE  /\ http'[k].kind = http[k].kind /\ http'[k].refresh = http[k].refresh
         /\ \/ GoneOn(k)
            \/ /\ http[k].pc = "saveSession"
               /\ Issued(k, http[k].session)
               /\ http[k].session \in DOMAIN sessions
            \/ http[k].pc = "create" /\ Issued(k, Len(sessions) + 1)
<1> DEFINE q == http[k]
<1>1. /\ http \in [Slots -> HttpRequest] /\ q \in HttpRequest
      /\ Fine(q, Len(sessions), Len(family))
      /\ Documents /\ sessions \in Seq(Session)
      /\ Len(sessions) \in Nat /\ DOMAIN sessions = 1 .. Len(sessions)
      /\ Len(family) \in Nat /\ NextPair \in Nat
  BY LenProperties DEF ClientInv, HttpFine, Documents, NextPair
<1>p. PICK yes \in BOOLEAN, no \in BOOLEAN : yes = TRUE /\ no = FALSE
  OBVIOUS
<1>2. ASSUME NEW ok \in BOOLEAN, Answer(k, ok, 0), SameTokens,
             ok => q.kind \in {"api", "logout"}
      PROVE  /\ http'[k].kind = q.kind /\ http'[k].refresh = q.refresh
             /\ GoneOn(k)
  <2>1. /\ http'[k].pc = "answered" /\ http'[k].pair = 0
        /\ http'[k].ok = ok /\ http'[k].kind = q.kind /\ http'[k].refresh = q.refresh
    BY <1>2, AnswerEffect
  <2> QED
    BY <1>2, <2>1 DEF GoneOn
<1>3. CASE Authenticate(k)
  <2>1. SameTokens /\ q.pc = "authenticate" /\ q.kind \in {"api", "logout"}
    BY <1>3 DEF Authenticate, SameTokens, KindInv
  <2>2. CASE \E ok \in BOOLEAN : Answer(k, ok, 0)
    BY <1>2, <2>1, <2>2
  <2>3. CASE http' = [http EXCEPT ![k] = [q EXCEPT !.pc = "updateMany"]]
    <3>1. /\ http'[k].pc = "updateMany" /\ http'[k].kind = q.kind
          /\ http'[k].refresh = q.refresh /\ http'[k].pair = q.pair
      BY <1>1, <2>3 DEF HttpRequest
    <3> QED
      BY <2>1, <3>1 DEF GoneOn
  <2> QED
    BY <1>3, <1>p, <2>2, <2>3 DEF Authenticate, Goto
<1>4. CASE RevokeByToken(k)
  <2>1. SameTokens
    BY <1>4, TokensRevoked DEF RevokeByToken, SameTokens
  <2>2. Answer(k, yes, 0) /\ q.kind \in {"api", "logout"}
    BY <1>4, <1>p DEF RevokeByToken, KindInv
  <2> QED
    BY <1>2, <2>1, <2>2
<1>5. CASE FindSession(k)
  <2>1. SameTokens /\ q.pc = "findSession" /\ q.kind \in {"refresh", "start"}
    BY <1>5 DEF FindSession, SameTokens, KindInv
  <2>2. CASE Answer(k, FALSE, 0)
    BY <1>2, <1>p, <2>1, <2>2
  <2>3. ASSUME NEW s \in SessionOf(q.refresh),
               http' = [http EXCEPT
                          ![k] = [@ EXCEPT !.pc = IF sessions[s].revoked
                                                  THEN "revokeFamily"
                                                  ELSE "saveSession",
                                           !.session = s]]
        PROVE  /\ http'[k].kind = q.kind /\ http'[k].refresh = q.refresh
               /\ GoneOn(k)
    <3>1. PICK stage \in {"revokeFamily", "saveSession"} :
            stage = IF sessions[s].revoked THEN "revokeFamily"
                                           ELSE "saveSession"
      OBVIOUS
    <3>2. http'[k] = [q EXCEPT !.pc = stage, !.session = s]
      BY <1>1, <2>3, <3>1
    <3>3. /\ http'[k].pc = stage /\ http'[k].session = s
          /\ http'[k].kind = q.kind /\ http'[k].refresh = q.refresh
          /\ http'[k].pair = q.pair
      BY <1>1, <3>2 DEF HttpRequest
    <3>4. s \in DOMAIN sessions /\ sessions[s].token = q.refresh
      BY DEF SessionOf
    <3> QED
      BY <2>1, <3>1, <3>3, <3>4 DEF GoneOn
  <2> QED
    BY <1>5, <2>2, <2>3 DEF FindSession
<1>6. CASE SaveSession(k)
  <2>1. q.pc = "saveSession" /\ q.session \in DOMAIN sessions
    BY <1>1, <1>6 DEF SaveSession, Fine
  <2>2. Answer(k, yes, NextPair) /\ family' = Append(family, q.session)
    BY <1>6, <1>p DEF SaveSession
  <2>3. http'[k].pc = "answered" /\ http'[k].pair = NextPair
        /\ http'[k].kind = q.kind /\ http'[k].refresh = q.refresh
    BY <1>1, <2>2, AnswerEffect
  <2>4. /\ DOMAIN sessions' = DOMAIN sessions
        /\ sessions'[q.session].token = NextPair
        /\ \A s \in DOMAIN sessions \ {q.session} :
             sessions'[s].token = sessions[s].token
    <3>1. sessions \in [DOMAIN sessions -> Session]
      BY <1>1, LenProperties
    <3>2. sessions' = [sessions EXCEPT ![q.session].token = NextPair]
      BY <1>6 DEF SaveSession
    <3> QED
      BY <1>1, <2>1, <3>1, <3>2 DEF Session
  <2> QED
    BY <2>1, <2>2, <2>3, <2>4 DEF Issued
<1>7. CASE RevokeFamily(k)
  <2>1. q.pc = "revokeFamily" /\ q.session \in DOMAIN sessions
    BY <1>1, <1>7 DEF RevokeFamily, Fine
  <2>2. SameTokens
    BY <1>7, <2>1, TokenRevoked DEF RevokeFamily, SameTokens
  <2>3. Answer(k, no, 0)
    BY <1>7, <1>p DEF RevokeFamily
  <2> QED
    BY <1>2, <1>p, <2>2, <2>3
<1>8. CASE CreateSession(k)
  <2> DEFINE new == [token |-> NextPair, revoked |-> no]
  <2>1. new \in Session /\ new.token = NextPair
    BY <1>1 DEF Session
  <2>2. sessions' = Append(sessions, new)
    BY <1>8, <1>p DEF CreateSession
  <2> HIDE DEF new
  <2>3. /\ sessions' \in Seq(Session) /\ Len(sessions') = Len(sessions) + 1
        /\ \A s \in 1 .. Len(sessions) : sessions'[s] = sessions[s]
        /\ sessions'[Len(sessions) + 1] = new
    BY <1>1, <2>1, <2>2, AppendProperties
  <2>4. DOMAIN sessions' = 1 .. Len(sessions) + 1
    BY <2>3, LenProperties
  <2>5. /\ q.pc = "create" /\ Answer(k, yes, NextPair)
        /\ family' = Append(family, Len(sessions) + 1)
    BY <1>8, <1>p DEF CreateSession
  <2>6. http'[k].pc = "answered" /\ http'[k].pair = NextPair
        /\ http'[k].kind = q.kind /\ http'[k].refresh = q.refresh
    BY <1>1, <2>5, AnswerEffect
  <2>7. /\ Len(sessions) + 1 \in DOMAIN sessions'
        /\ DOMAIN sessions \subseteq DOMAIN sessions'
        /\ \A s \in DOMAIN sessions : sessions'[s] = sessions[s]
    BY <1>1, <2>3, <2>4
  <2>8. Issued(k, Len(sessions) + 1)
    BY <2>1, <2>3, <2>5, <2>6, <2>7 DEF Issued
  <2> QED
    BY <2>5, <2>6, <2>8
<1> QED
  BY <1>3, <1>4, <1>5, <1>6, <1>7, <1>8 DEF ServerStep

(* Current pairs, while tokens are issued.                                 *)

LEMMA CurrentKept ==
  ASSUME SameTokens, NEW n, Current(n), ClientInv
  PROVE  Current(n)'
<1>1. family[n] \in DOMAIN sessions
  BY LenProperties DEF Current, ClientInv, Documents
<1> QED
  BY <1>1 DEF SameTokens, Current

LEMMA CurrentIssued ==
  ASSUME ClientInv, NEW k, NEW x, Issued(k, x), NEW next, next = NextPair
  PROVE  /\ Current(next)' /\ family'[next] = x
         /\ Len(family') = Len(family) + 1
         /\ next \in Nat \ (0 .. Len(family))
         /\ \A n : Current(n) /\ family[n] # x =>
              Current(n)' /\ family'[n] = family[n] /\ n # next
<1>1. /\ Len(family) \in Nat /\ DOMAIN family = 1 .. Len(family)
      /\ family \in Seq(DOMAIN sessions)
      /\ \A n \in DOMAIN family : family[n] \in DOMAIN sessions
  BY LenProperties DEF ClientInv, Documents
<1>2. PICK S : S = DOMAIN sessions \cup {x}
  OBVIOUS
<1>3. family \in Seq(S) /\ x \in S
  <2>1. family \in [1 .. Len(family) -> S]
    BY <1>1, <1>2, LenProperties
  <2> QED
    BY <1>1, <1>2, <2>1, SeqDef
<1>4. /\ Len(family') = Len(family) + 1 /\ family' \in Seq(S)
      /\ family'[Len(family) + 1] = x
      /\ \A n \in 1 .. Len(family) : family'[n] = family[n]
  BY <1>3, AppendProperties DEF Issued
<1>5. DOMAIN family' = 1 .. Len(family) + 1
  BY <1>4, LenProperties
<1>6. next = Len(family) + 1
  BY DEF NextPair
<1>7. /\ Current(next)' /\ family'[next] = x
      /\ next \in Nat \ (0 .. Len(family))
  BY <1>1, <1>4, <1>5, <1>6 DEF Issued, Current
<1>8. ASSUME NEW n, Current(n), family[n] # x
      PROVE  Current(n)' /\ family'[n] = family[n] /\ n # next
  <2>1. n \in 1 .. Len(family) /\ family[n] \in DOMAIN sessions
    BY <1>1, <1>8 DEF Current
  <2>2. n \in DOMAIN family' /\ family'[n] = family[n]
    BY <1>1, <1>4, <1>5, <2>1
  <2>3. sessions'[family[n]].token = n
    BY <1>8, <2>1 DEF Issued, Current
  <2> QED
    BY <1>6, <1>7, <2>1, <2>2, <2>3 DEF Current
<1> QED
  BY <1>4, <1>7, <1>8

(* The server.                                                             *)

LEMMA HandleStored ==
  ASSUME ClientInv, ClientInv', StoredInv, NEW k \in Slots, Handle(k)
  PROVE  StoredInv'
<1>1. /\ \A j \in Slots \ {k} : http'[j] = http[j]
      /\ http'[k].pc \notin {"idle", "waiting"}
      /\ http[k].pc \notin {"idle", "waiting"}
      /\ UNCHANGED <<stored, cookie, overlapped>>
  BY ServerStepHandled DEF ClientInv, Handle, Handled
<1>2. http'[k].kind = http[k].kind /\ http'[k].refresh = http[k].refresh
  BY ServerEffect DEF Handle, StoredInv
<1>3. Refreshing' = Refreshing /\ \A j \in Slots : http'[j].refresh = http[j].refresh
  BY <1>1, <1>2 DEF Refreshing
<1>4. /\ Len(family) \in Nat
      /\ stored \in 0 .. Len(family) /\ cookie \in 0 .. Len(family)
      /\ \A j \in Slots : /\ http[j].pair \in 0 .. Len(family)
                          /\ http[j].refresh \in 0 .. Len(family)
  BY Credentials DEF ClientInv, Browser, Fine, StoredInv, KindInv
<1>5. \A j \in Slots \ {k}, p \in Nat : Answers(j, p)' <=> Answers(j, p)
  BY <1>1 DEF Answers
<1>6. CASE GoneOn(k)
  <2>1. \A n : Current(n) => Current(n)'
    BY <1>6, CurrentKept DEF GoneOn
  <2>2. KindInv'
    BY <1>1, <1>2, <1>6 DEF StoredInv, KindInv, GoneOn, SameTokens
  <2>3. FreshLogin'
    <3> SUFFICES ASSUME NEW l \in Slots, NEW p \in Nat,
                        http'[l].kind = "login", Answers(l, p)'
                 PROVE  Fresh(l, p)'
      BY DEF FreshLogin
    <3>1. l # k
      BY <1>2, <1>6 DEF GoneOn, Answers
    <3>2. Fresh(l, p)
      BY <1>1, <1>5, <3>1 DEF StoredInv, FreshLogin
    <3>3. p # 0
      BY <1>4, <3>2, LenProperties DEF Fresh, Current, ClientInv, Documents
    <3>4. ASSUME NEW j \in Slots \ {l}
          PROVE  /\ http'[j].pair # p
                 /\ http'[j].pc = "saveSession" => http'[j].session # family'[p]
      <4>1. CASE j # k
        BY <1>1, <1>6, <3>2, <4>1 DEF GoneOn, SameTokens, Fresh
      <4>2. CASE j = k
        BY <1>6, <3>2, <3>3, <4>2 DEF GoneOn, SameTokens, Current, Fresh
      <4> QED
        BY <4>1, <4>2
    <3> QED
      BY <1>1, <1>3, <2>1, <3>2, <3>4 DEF Fresh
  <2>4. OneRefresh'
    <3>1. \A j \in Refreshing, p \in Nat : Answers(j, p)' => j # k
      BY <1>6 DEF GoneOn, Refreshing, Answers
    <3>2. \A j \in Refreshing, p \in Nat : Answers(j, p)' => Answers(j, p)
      BY <1>5, <3>1 DEF Refreshing
    <3> QED
      BY <1>1, <1>3, <2>1, <3>2 DEF StoredInv, OneRefresh
  <2> QED
    BY <2>2, <2>3, <2>4 DEF StoredInv
<1>7. ASSUME NEW x, Issued(k, x), http[k].pc \in {"saveSession", "create"},
             http[k].pc = "saveSession" => x = http[k].session /\ x \in DOMAIN sessions,
             http[k].pc = "create" => x = Len(sessions) + 1
      PROVE  StoredInv'
  <2>1. PICK next : next = NextPair
    OBVIOUS
  <2>2. /\ Current(next)' /\ next \in Nat \ (0 .. Len(family))
        /\ family'[next] = x /\ Len(family') = Len(family) + 1
        /\ \A n : Current(n) /\ family[n] # x =>
             Current(n)' /\ family'[n] = family[n] /\ n # next
    BY <1>7, <2>1, CurrentIssued
  <2>3. http'[k].pc = "answered" /\ http'[k].pair = next
    BY <1>7, <2>1 DEF Issued
  <2>4. KindInv'
    BY <1>1, <1>2, <1>3, <1>4, <2>2, <2>3, <1>7 DEF StoredInv, KindInv
  <2>5. \A n \in DOMAIN family : family[n] \in DOMAIN sessions
    BY LenProperties DEF ClientInv, Documents
  <2>6. Len(sessions) + 1 \notin DOMAIN sessions
    BY LenProperties DEF ClientInv, Documents
  <2>7. \A j \in Slots : http[j].pc = "saveSession" => http[j].session \in DOMAIN sessions
    BY Credentials, LenProperties DEF Fine, ClientInv, Documents
  <2>8. FreshLogin'
    <3> SUFFICES ASSUME NEW l \in Slots, NEW p \in Nat,
                        http'[l].kind = "login", Answers(l, p)'
                 PROVE  Fresh(l, p)'
      BY DEF FreshLogin
    <3>1. CASE l = k
      <4>1. http[k].pc = "create" /\ x \notin DOMAIN sessions
        BY <1>2, <1>7, <2>6, <3>1 DEF StoredInv, KindInv
      <4>2. p = next
        BY <2>3, <3>1 DEF Answers
      <4>3. \A j \in Slots \ {l} :
              /\ http'[j].pair # next
              /\ http'[j].pc = "saveSession" => http'[j].session # x
        BY <1>1, <1>4, <2>2, <2>7, <3>1, <4>1
      <4> QED
        BY <1>1, <1>3, <1>4, <2>2, <4>2, <4>3 DEF Fresh
    <3>2. CASE l # k
      <4>1. Fresh(l, p)
        BY <1>1, <1>5, <3>2 DEF StoredInv, FreshLogin
      <4>2. family[p] # x
        <5>1. CASE http[k].pc = "saveSession"
          BY <1>7, <3>2, <4>1, <5>1 DEF Fresh
        <5>2. CASE http[k].pc = "create"
          BY <1>7, <2>5, <2>6, <4>1, <5>2 DEF Current, Fresh
        <5> QED
          BY <1>7, <5>1, <5>2
      <4>3. Current(p)' /\ family'[p] = family[p] /\ p # next
        BY <2>2, <4>1, <4>2 DEF Fresh
      <4>4. \A j \in Slots \ {l} :
              /\ http'[j].pair # p
              /\ http'[j].pc = "saveSession" => http'[j].session # family'[p]
        BY <1>1, <2>3, <4>1, <4>3 DEF Fresh
      <4> QED
        BY <1>1, <1>3, <4>1, <4>3, <4>4 DEF Fresh
    <3> QED
      BY <3>1, <3>2
  <2>9. OneRefresh'
    <3> SUFFICES ASSUME ~overlapped
                 PROVE  /\ \A i, j \in Refreshing : i = j
                        /\ \A j \in Refreshing, p \in Nat :
                             Answers(j, p)' => Current(p)'
                        /\ \A p \in Nat \ {0} :
                             stored = p /\ Refreshing = {} => Current(p)'
      BY <1>1, <1>3 DEF OneRefresh
    <3>1. \A i, j \in Refreshing : i = j
      BY DEF StoredInv, OneRefresh
    <3>2. CASE http[k].pc = "saveSession"
      <4>1. k \in Refreshing
        BY <3>2 DEF Refreshing, StoredInv, KindInv
      <4>2. \A j \in Refreshing, p \in Nat : Answers(j, p)' => p = next
        BY <2>3, <3>1, <4>1 DEF Answers
      <4> QED
        BY <2>2, <3>1, <4>1, <4>2
    <3>3. CASE http[k].pc = "create"
      <4>1. k \notin Refreshing /\ x \notin DOMAIN sessions
        BY <1>7, <2>6, <3>3 DEF Refreshing, StoredInv, KindInv
      <4>2. \A n : Current(n) => Current(n)'
        BY <2>2, <2>5, <4>1 DEF Current
      <4>3. \A j \in Refreshing, p \in Nat : Answers(j, p)' => Answers(j, p)
        BY <1>5, <4>1 DEF Refreshing
      <4> QED
        BY <4>2, <4>3 DEF StoredInv, OneRefresh
    <3> QED
      BY <1>7, <3>2, <3>3
  <2> QED
    BY <2>4, <2>8, <2>9 DEF StoredInv
<1> QED
  <2>1. \/ GoneOn(k)
        \/ /\ http[k].pc = "saveSession"
           /\ Issued(k, http[k].session)
           /\ http[k].session \in DOMAIN sessions
        \/ http[k].pc = "create" /\ Issued(k, Len(sessions) + 1)
    BY ServerEffect DEF Handle, StoredInv
  <2> QED
    BY <1>6, <1>7, <2>1

(* The browser: requests begin, wait and end, and tokens are stored.       *)

LEMMA RequestFields ==
  ASSUME NEW kind \in Kinds, NEW access \in Nat, NEW refresh \in Nat,
         NEW retried \in BOOLEAN,
         NEW q, q = Request(kind, access, refresh, retried)
  PROVE  /\ q.kind = kind /\ q.refresh = refresh /\ q.pair = 0
         /\ q.pc = FirstStage(kind)
         /\ q.pc = CASE kind \in {"api", "logout"} -> "authenticate"
                     [] kind \in {"refresh", "start"} -> "findSession"
                     [] kind = "login" -> "create"
<1> DEFINE none == NoRequest
           stage == FirstStage(kind)
<1>1. none \in HttpRequest /\ none.pair = 0
  BY NoRequestFine DEF Fine, NoRequest
<1>2. q = [none EXCEPT !.pc = stage, !.kind = kind, !.access = access,
                       !.refresh = refresh, !.retried = retried]
  BY DEF Request
<1> HIDE DEF none, stage
<1>3. q.kind = kind /\ q.refresh = refresh /\ q.pair = 0 /\ q.pc = stage
  BY <1>1, <1>2 DEF HttpRequest
<1> QED
  BY <1>3 DEF stage, FirstStage

LEMMA NoRequestFields ==
  /\ NoRequest.pc = "idle" /\ NoRequest.kind = "api"
  /\ NoRequest.refresh = 0 /\ NoRequest.pair = 0
BY DEF NoRequest

LEMMA BrowserFresh ==
  ASSUME ClientInv, FreshLogin, UNCHANGED server,
         \A j \in Slots :
           \/ http'[j] = http[j]
           \/ /\ http'[j].pc \notin {"answered", "saveSession"}
              /\ http'[j].pair \in {0, http[j].pair}
              /\ http'[j].refresh \in {0, stored, cookie, http[j].refresh},
         NEW i \in Slots, http'[i].pc # "answered",
         {stored', cookie'} \subseteq {0, stored, cookie, http[i].pair}
  PROVE  FreshLogin'
<1> SUFFICES ASSUME NEW l \in Slots, NEW p \in Nat,
                    http'[l].kind = "login", Answers(l, p)'
             PROVE  Fresh(l, p)'
  BY DEF FreshLogin
<1>1. http'[l] = http[l] /\ l # i
  BY DEF Answers
<1>2. Fresh(l, p)
  BY <1>1 DEF FreshLogin, Answers
<1>3. p # 0
  BY <1>2, LenProperties DEF Fresh, Current, ClientInv, Documents
<1>4. Current(p)'
  BY <1>2 DEF Fresh, Current, server
<1>5. p # stored' /\ p # cookie'
  BY <1>1, <1>2, <1>3 DEF Fresh
<1>6. ASSUME NEW j \in Slots
      PROVE  /\ http'[j].refresh # p
             /\ j # l => /\ http'[j].pair # p
                         /\ http'[j].pc = "saveSession" =>
                              http'[j].session # family'[p]
  <2>1. CASE http'[j] = http[j]
    BY <1>2, <2>1 DEF Fresh, server
  <2>2. CASE http'[j] # http[j]
    BY <1>2, <1>3, <2>2 DEF Fresh
  <2> QED
    BY <2>1, <2>2
<1> QED
  BY <1>4, <1>5, <1>6 DEF Fresh

\* No refresh begins.
LEMMA BrowserOneRefresh ==
  ASSUME OneRefresh, UNCHANGED <<server, overlapped>>,
         \A j \in Slots : j \in Refreshing' => j \in Refreshing /\ http'[j] = http[j],
         \/ stored' = 0
         \/ stored' = stored /\ Refreshing \subseteq Refreshing'
         \/ \A p \in Nat \ {0} : stored' = p /\ ~overlapped => Current(p)
  PROVE  OneRefresh'
<1> SUFFICES ASSUME ~overlapped
             PROVE  /\ \A j, k \in Refreshing' : j = k
                    /\ \A k \in Refreshing', p \in Nat : Answers(k, p)' => Current(p)'
                    /\ \A p \in Nat \ {0} :
                         stored' = p /\ Refreshing' = {} => Current(p)'
  BY DEF OneRefresh
<1>1. \A p : Current(p) => Current(p)'
  BY DEF Current, server
<1>2. Refreshing' \subseteq Slots /\ Refreshing' \subseteq Refreshing
  BY DEF Refreshing
<1>3. \A k \in Refreshing', p \in Nat : Answers(k, p)' => Answers(k, p)
  BY <1>2 DEF Answers
<1> QED
  BY <1>1, <1>2, <1>3 DEF OneRefresh

\* A call begins: k is a call, q its request.
LEMMA UserStored ==
  ASSUME ClientInv, StoredInv, User
  PROVE  StoredInv'
<1> USE SlotsAssumption
<1>p. PICK no \in BOOLEAN : no = FALSE
  OBVIOUS
<1> PICK k \in Calls : Call(k) \/ SignIn(k) \/ SignOut(k) \/ Start(k)
  BY DEF User
<1>1. /\ UNCHANGED server /\ UNCHANGED <<stored, cookie>>
      /\ http[k].pc = "idle" /\ k \in Slots /\ k \notin Tabs
      /\ http \in [Slots -> HttpRequest]
  BY DEF Call, SignIn, SignOut, Start, server, ClientInv, HttpFine
<1>2. /\ stored \in 0 .. Len(family) /\ cookie \in 0 .. Len(family)
      /\ stored \in Nat /\ Credential \in Nat /\ Len(family) \in Nat
  BY Credentials DEF ClientInv, Browser
<1>3. PICK kind \in {"api", "login", "logout", "start"}, access \in Nat,
           refresh \in {0, stored} :
        /\ http' = Put(k, Request(kind, access, refresh, no))
        /\ IF kind = "start" THEN overlapped' = (overlapped \/ Refreshing # {})
                             ELSE UNCHANGED overlapped
  <2>1. CASE Call(k)
    BY <2>1, <1>2, <1>p DEF Call
  <2>2. CASE SignIn(k)
    BY <2>2, <1>2, <1>p DEF SignIn
  <2>3. CASE SignOut(k)
    BY <2>3, <1>2, <1>p DEF SignOut
  <2>4. CASE Start(k)
    BY <2>4, <1>2, <1>p DEF Start
  <2> QED
    BY <2>1, <2>2, <2>3, <2>4
<1> PICK q : q = Request(kind, access, refresh, no)
  OBVIOUS
<1>4. /\ q.kind = kind /\ q.refresh = refresh /\ q.pair = 0
      /\ q.pc = CASE kind \in {"api", "logout"} -> "authenticate"
                  [] kind \in {"refresh", "start"} -> "findSession"
                  [] kind = "login" -> "create"
  <2>1. kind \in Kinds /\ refresh \in Nat
    BY <1>2 DEF Kinds
  <2> QED
    BY <2>1, RequestFields
<1>5. \A j \in Slots : http'[j] = IF j = k THEN q ELSE http[j]
  BY <1>1, <1>3 DEF Put
<1>6. q.pc \in {"authenticate", "findSession", "create"}
  BY <1>4
<1>7. KindInv'
  <2> SUFFICES ASSUME NEW j \in Slots
               PROVE  /\ http'[j].pc = "idle" =>
                           /\ http'[j].kind = "api" /\ http'[j].refresh = 0
                           /\ http'[j].pair = 0
                      /\ http'[j].pc # "idle" => (http'[j].kind = "refresh" <=> j \in Tabs)
                      /\ http'[j].pc \in {"findSession", "saveSession", "revokeFamily"} =>
                           http'[j].kind \in {"refresh", "start"}
                      /\ http'[j].pc \in {"authenticate", "updateMany", "waiting"} =>
                           http'[j].kind \in {"api", "logout"}
                      /\ http'[j].pc = "create" => http'[j].kind = "login"
                      /\ http'[j].refresh \in 0 .. Len(family')
    BY DEF KindInv
  <2>1. CASE j # k
    BY <1>1, <1>5, <2>1 DEF StoredInv, KindInv, server
  <2>2. CASE j = k
    BY <1>1, <1>2, <1>4, <1>5, <1>6, <2>2 DEF server
  <2> QED
    BY <2>1, <2>2
<1>8. FreshLogin'
  BY <1>1, <1>4, <1>5, <1>6, BrowserFresh DEF StoredInv
<1>9. OneRefresh'
  <2>1. k \notin Refreshing
    BY <1>1 DEF Refreshing
  <2>2. CASE kind # "start"
    <3>1. \A j \in Slots : j \in Refreshing' <=> j \in Refreshing
      BY <1>4, <1>5, <2>1, <2>2 DEF Refreshing
    <3>2. \A j \in Slots : j \in Refreshing' => j \in Refreshing /\ http'[j] = http[j]
      BY <1>5, <2>1, <3>1
    <3>3. Refreshing \subseteq Refreshing'
      BY <3>1 DEF Refreshing
    <3> QED
      BY <1>1, <1>3, <2>2, <3>2, <3>3, BrowserOneRefresh DEF StoredInv
  <2>3. CASE kind = "start"
    <3>1. Refreshing' = Refreshing \cup {k}
      BY <1>1, <1>4, <1>5, <1>6, <2>3 DEF Refreshing
    <3>2. ~overlapped' => ~overlapped /\ Refreshing = {}
      BY <1>3, <2>3
    <3>3. \A p \in Nat : ~Answers(k, p)'
      BY <1>1, <1>5, <1>6 DEF Answers
    <3> QED
      BY <3>1, <3>2, <3>3 DEF OneRefresh
  <2> QED
    BY <2>2, <2>3
<1> QED
  BY <1>7, <1>8, <1>9 DEF StoredInv

\* Some requests are over.
LEMMA KindOver ==
  ASSUME KindInv, UNCHANGED server,
         \A j \in Slots : http'[j] \in {http[j], NoRequest}
  PROVE  KindInv'
<1>1. \A j \in Slots : http'[j] = http[j] \/ http'[j] = NoRequest
  OBVIOUS
<1> QED
  BY <1>1, NoRequestFields DEF KindInv, server

LEMMA SettleStored ==
  ASSUME ClientInv, StoredInv, NEW k \in Slots, Settle(k)
  PROVE  StoredInv'
<1> USE SlotsAssumption
<1> DEFINE q == http[k]
<1>1. /\ k \in Calls /\ k \notin Tabs /\ UNCHANGED <<server, overlapped>>
      /\ q.pc = "answered"
      /\ http \in [Slots -> HttpRequest]
      /\ \A j \in Slots : http'[j] = IF j = k THEN NoRequest ELSE http[j]
  BY DEF Settle, Put, ClientInv, HttpFine
<1>2. q.kind # "refresh" /\ q.pair \in Nat
  BY <1>1, Credentials DEF StoredInv, KindInv, Fine
<1>3. stored' \in {0, stored, q.pair} /\ cookie' \in {0, cookie, q.pair}
  BY DEF Settle, Store
<1>4. KindInv'
  BY <1>1, KindOver DEF StoredInv
<1>5. FreshLogin'
  <2>1. http'[k].pc # "answered" /\ {stored', cookie'} \subseteq {0, stored, cookie, q.pair}
    BY <1>1, <1>3, NoRequestFields
  <2> HIDE DEF q
  <2>2. UNCHANGED server /\ FreshLogin
    BY <1>1 DEF StoredInv
  <2>3. \A j \in Slots :
           \/ http'[j] = http[j]
           \/ /\ http'[j].pc \notin {"answered", "saveSession"}
              /\ http'[j].pair \in {0, http[j].pair}
              /\ http'[j].refresh \in {0, stored, cookie, http[j].refresh}
    BY <1>1, NoRequestFields
  <2> QED
    BY <2>1, <2>2, <2>3, BrowserFresh DEF q
<1>6. OneRefresh'
  <2>1. \A j \in Slots : j \in Refreshing' => j \in Refreshing /\ http'[j] = http[j]
    BY <1>1, NoRequestFields DEF Refreshing
  <2>2. k \in Refreshing <=> q.kind = "start"
    BY <1>1, <1>2 DEF Refreshing
  <2>3. CASE q.ok /\ q.kind \in {"login", "start"}
    <3>1. stored' = q.pair
      BY <2>3 DEF Settle, Store
    <3>2. Answers(k, q.pair)
      BY <1>1, <2>3 DEF Answers
    <3>3. ~overlapped => Current(q.pair)
      <4>1. CASE q.kind = "login"
        BY <1>2, <3>2, <4>1 DEF StoredInv, FreshLogin, Fresh
      <4>2. CASE q.kind = "start"
        BY <1>2, <2>2, <3>2, <4>2 DEF StoredInv, OneRefresh
      <4> QED
        BY <2>3, <4>1, <4>2
    <3> QED
      BY <1>1, <2>1, <3>1, <3>3, BrowserOneRefresh DEF StoredInv
  <2>4. CASE stored' = 0
    BY <1>1, <2>1, <2>4, BrowserOneRefresh DEF StoredInv
  <2>5. CASE stored' = stored /\ q.kind # "start"
    <3>1. Refreshing \subseteq Refreshing'
      BY <1>1, <2>2, <2>5 DEF Refreshing
    <3> QED
      BY <1>1, <2>1, <2>5, <3>1, BrowserOneRefresh DEF StoredInv
  <2>6. \/ q.ok /\ q.kind \in {"login", "start"}
        \/ stored' = 0
        \/ stored' = stored /\ q.kind # "start"
    BY DEF Settle, Store
  <2> QED
    BY <2>3, <2>4, <2>5, <2>6
<1> QED
  BY <1>4, <1>5, <1>6 DEF StoredInv

LEMMA JoinRefreshStored ==
  ASSUME ClientInv, StoredInv, NEW k \in Slots, JoinRefresh(k)
  PROVE  StoredInv'
<1> USE SlotsAssumption
<1>p. PICK no \in BOOLEAN, yes \in BOOLEAN : no = FALSE /\ yes = TRUE
  OBVIOUS
<1> PICK t : t = TabOf[k]
  OBVIOUS
<1> PICK w : w = [http[k] EXCEPT !.pc = "waiting", !.retried = yes]
  OBVIOUS
<1> PICK r : r = Request("refresh", Credential, Credential, no)
  OBVIOUS
<1>1. /\ k \in Calls /\ k \in Slots /\ t \in Tabs /\ t \in Slots /\ t # k
      /\ http[k].pc = "answered" /\ http[k].kind \in {"api", "logout"}
      /\ UNCHANGED <<server, stored, cookie>>
      /\ http \in [Slots -> HttpRequest] /\ http[k] \in HttpRequest
  BY DEF JoinRefresh, Unauthorized, ClientInv, HttpFine
<1>2. /\ w.pc = "waiting" /\ w.kind = http[k].kind
      /\ w.refresh = http[k].refresh /\ w.pair = http[k].pair
  BY <1>1 DEF HttpRequest
<1>3. /\ r.pc = "findSession" /\ r.kind = "refresh"
      /\ r.pair = 0 /\ r.refresh = Credential /\ Credential \in {stored, cookie}
      /\ Credential \in 0 .. Len(family)
  <2>1. Credential \in Nat /\ "refresh" \in Kinds
    BY Credentials DEF Kinds
  <2>2. /\ r.pc = FirstStage("refresh") /\ r.kind = "refresh"
        /\ r.pair = 0 /\ r.refresh = Credential
    BY <2>1, RequestFields
  <2> QED
    BY <2>2 DEF Credential, ClientInv, Browser, FirstStage
<1>4. \/ /\ http[t].pc = "idle"
         /\ \A j \in Slots : http'[j] = IF j = t THEN r ELSE IF j = k THEN w ELSE http[j]
         /\ overlapped' = (overlapped \/ Refreshing # {})
      \/ /\ \A j \in Slots : http'[j] = IF j = k THEN w ELSE http[j]
         /\ UNCHANGED overlapped
  <2> DEFINE wait == [http EXCEPT ![k] = w]
  <2>1. \/ /\ http[t].pc = "idle" /\ http' = [wait EXCEPT ![t] = r]
           /\ overlapped' = (overlapped \/ Refreshing # {})
        \/ http' = wait /\ UNCHANGED overlapped
    BY <1>p DEF JoinRefresh
  <2> QED
    BY <1>1, <2>1
<1>5. KindInv'
  <2>1. \A j \in Slots \ {k, t} : http'[j] = http[j]
    BY <1>4
  <2>2. http'[k] = w /\ (http'[t] = http[t] \/ http'[t] = r)
    BY <1>1, <1>4
  <2>3. w.kind # "refresh" /\ w.refresh \in 0 .. Len(family')
    BY <1>1, <1>2 DEF StoredInv, KindInv, server
  <2>4. r.refresh \in 0 .. Len(family')
    BY <1>1, <1>3 DEF server
  <2> SUFFICES ASSUME NEW j \in Slots
               PROVE  /\ http'[j].pc = "idle" =>
                           /\ http'[j].kind = "api" /\ http'[j].refresh = 0
                           /\ http'[j].pair = 0
                      /\ http'[j].pc # "idle" => (http'[j].kind = "refresh" <=> j \in Tabs)
                      /\ http'[j].pc \in {"findSession", "saveSession", "revokeFamily"} =>
                           http'[j].kind \in {"refresh", "start"}
                      /\ http'[j].pc \in {"authenticate", "updateMany", "waiting"} =>
                           http'[j].kind \in {"api", "logout"}
                      /\ http'[j].pc = "create" => http'[j].kind = "login"
                      /\ http'[j].refresh \in 0 .. Len(family')
    BY DEF KindInv
  <2>5. CASE http'[j] = http[j]
    BY <1>1, <2>5 DEF StoredInv, KindInv, server
  <2>6. CASE j = k
    BY <1>1, <1>2, <2>2, <2>3, <2>6
  <2>7. CASE j = t /\ http'[t] = r
    BY <1>1, <1>3, <2>4, <2>7
  <2> QED
    BY <2>1, <2>2, <2>5, <2>6, <2>7
<1>6. FreshLogin'
  <2>1. \A j \in Slots :
           \/ http'[j] = http[j]
           \/ /\ http'[j].pc \notin {"answered", "saveSession"}
              /\ http'[j].pair \in {0, http[j].pair}
              /\ http'[j].refresh \in {0, stored, cookie, http[j].refresh}
    BY <1>2, <1>3, <1>4
  <2>2. http'[k].pc # "answered"
    BY <1>1, <1>2, <1>4
  <2> QED
    BY <1>1, <2>1, <2>2, BrowserFresh DEF StoredInv
<1>7. OneRefresh'
  <2>1. k \notin Refreshing /\ k \notin Refreshing'
    BY <1>1, <1>2, <1>4 DEF Refreshing
  <2>2. CASE /\ http[t].pc = "idle"
             /\ \A j \in Slots : http'[j] = IF j = t THEN r
                                            ELSE IF j = k THEN w ELSE http[j]
             /\ overlapped' = (overlapped \/ Refreshing # {})
    <3>1. Refreshing' \subseteq Refreshing \cup {t} /\ t \in Refreshing'
      BY <1>1, <1>3, <2>1, <2>2 DEF Refreshing
    <3>2. \A p \in Nat : ~Answers(t, p)'
      BY <1>1, <1>3, <2>2 DEF Answers
    <3>3. ~overlapped' => ~overlapped /\ Refreshing = {}
      BY <2>2
    <3> QED
      BY <3>1, <3>2, <3>3 DEF OneRefresh
  <2>3. CASE /\ \A j \in Slots : http'[j] = IF j = k THEN w ELSE http[j]
             /\ UNCHANGED overlapped
    <3>1. \A j \in Slots : j \in Refreshing' => j \in Refreshing /\ http'[j] = http[j]
      BY <2>1, <2>3 DEF Refreshing
    <3>2. Refreshing \subseteq Refreshing'
      BY <2>1, <2>3 DEF Refreshing
    <3> QED
      BY <1>1, <2>3, <3>1, <3>2, BrowserOneRefresh DEF StoredInv
  <2> QED
    BY <1>4, <2>2, <2>3
<1> QED
  BY <1>5, <1>6, <1>7 DEF StoredInv

LEMMA RefreshFailedStored ==
  ASSUME ClientInv, StoredInv, NEW t \in Tabs, RefreshFailed(t)
  PROVE  StoredInv'
<1> USE SlotsAssumption
<1>1. /\ \A j \in Slots : http'[j] \in {http[j], NoRequest}
      /\ http'[t] = NoRequest /\ t \in Slots
      /\ UNCHANGED <<server, cookie, overlapped>> /\ stored' = 0
  BY DEF RefreshFailed
<1>2. KindInv'
  BY <1>1, KindOver DEF StoredInv
<1>3. FreshLogin'
  <2>1. \A j \in Slots :
           \/ http'[j] = http[j]
           \/ /\ http'[j].pc \notin {"answered", "saveSession"}
              /\ http'[j].pair \in {0, http[j].pair}
              /\ http'[j].refresh \in {0, stored, cookie, http[j].refresh}
    BY <1>1, NoRequestFields
  <2>2. http'[t].pc # "answered"
    BY <1>1, NoRequestFields
  <2> QED
    BY <1>1, <2>1, <2>2, BrowserFresh DEF StoredInv
<1>4. \A j \in Slots : j \in Refreshing' => j \in Refreshing /\ http'[j] = http[j]
  BY <1>1, NoRequestFields DEF Refreshing
<1>5. OneRefresh'
  BY <1>1, <1>4, BrowserOneRefresh DEF StoredInv
<1> QED
  BY <1>2, <1>3, <1>5 DEF StoredInv

LEMMA RefreshSucceededStored ==
  ASSUME ClientInv, StoredInv, NEW t \in Tabs, RefreshSucceeded(t)
  PROVE  StoredInv'
<1> USE SlotsAssumption
<1>p. PICK yes \in BOOLEAN : yes = TRUE
  OBVIOUS
<1> PICK pair : pair = http[t].pair
  OBVIOUS
<1>1. /\ t \in Slots /\ http[t].pc = "answered" /\ http[t].ok
      /\ UNCHANGED <<server, overlapped>> /\ stored' = pair /\ cookie' = pair
      /\ pair \in Nat /\ Answers(t, pair) /\ http[t].kind = "refresh"
  BY Credentials DEF RefreshSucceeded, Store, Fine, Answers, StoredInv, KindInv
<1>2. ASSUME NEW j \in Slots
      PROVE  \/ http'[j] = http[j] /\ j # t
             \/ http'[j] = NoRequest
             \/ /\ http[j].pc = "waiting" /\ j \in Calls
                /\ http'[j] = Request(http[j].kind, pair, http[j].refresh, yes)
  BY <1>p DEF RefreshSucceeded, Waiters
<1>3. http'[t] = NoRequest
  <2>1. t \notin Waiters(t)
    BY DEF Waiters
  <2> QED
    BY <1>1, <2>1 DEF RefreshSucceeded
<1>4. ASSUME NEW j \in Slots, http[j].pc = "waiting", j \in Calls,
             http'[j] = Request(http[j].kind, pair, http[j].refresh, yes)
      PROVE  /\ http[j].kind \in {"api", "logout"} /\ http'[j].kind = http[j].kind
             /\ http'[j].pair = 0 /\ http'[j].refresh = http[j].refresh
             /\ http'[j].pc = "authenticate"
  <2>1. /\ http[j].kind \in {"api", "logout"} /\ http[j].kind \in Kinds
        /\ http[j].refresh \in Nat
    BY <1>4, Credentials DEF StoredInv, KindInv, HttpRequest
  <2>2. PICK kind, refresh : kind = http[j].kind /\ refresh = http[j].refresh
    OBVIOUS
  <2>3. http'[j] = Request(kind, pair, refresh, yes)
    BY <1>4, <2>2
  <2> QED
    BY <1>1, <2>1, <2>2, <2>3, RequestFields
<1>5. KindInv'
  <2> SUFFICES ASSUME NEW j \in Slots
               PROVE  /\ http'[j].pc = "idle" =>
                           /\ http'[j].kind = "api" /\ http'[j].refresh = 0
                           /\ http'[j].pair = 0
                      /\ http'[j].pc # "idle" => (http'[j].kind = "refresh" <=> j \in Tabs)
                      /\ http'[j].pc \in {"findSession", "saveSession", "revokeFamily"} =>
                           http'[j].kind \in {"refresh", "start"}
                      /\ http'[j].pc \in {"authenticate", "updateMany", "waiting"} =>
                           http'[j].kind \in {"api", "logout"}
                      /\ http'[j].pc = "create" => http'[j].kind = "login"
                      /\ http'[j].refresh \in 0 .. Len(family')
    BY DEF KindInv
  <2>1. CASE http'[j] = http[j]
    BY <1>1, <2>1 DEF StoredInv, KindInv, server
  <2>2. CASE http'[j] = NoRequest
    BY <1>1, <2>2, NoRequestFields, Credentials DEF server
  <2>3. CASE /\ http[j].pc = "waiting" /\ j \in Calls
             /\ http'[j] = Request(http[j].kind, pair, http[j].refresh, yes)
    BY <1>1, <1>4, <2>3 DEF StoredInv, KindInv, server
  <2> QED
    BY <1>2, <2>1, <2>2, <2>3
<1>6. FreshLogin'
  <2>1. \A j \in Slots :
           \/ http'[j] = http[j]
           \/ /\ http'[j].pc \notin {"answered", "saveSession"}
              /\ http'[j].pair \in {0, http[j].pair}
              /\ http'[j].refresh \in {0, stored, cookie, http[j].refresh}
    BY <1>2, <1>4, NoRequestFields
  <2>2. http'[t].pc # "answered"
    BY <1>3, NoRequestFields
  <2> QED
    BY <1>1, <2>1, <2>2, BrowserFresh DEF StoredInv
<1>7. \A j \in Slots : j \in Refreshing' => j \in Refreshing /\ http'[j] = http[j]
  <2> SUFFICES ASSUME NEW j \in Slots, j \in Refreshing'
               PROVE  j \in Refreshing /\ http'[j] = http[j]
    OBVIOUS
  <2>1. http'[j] # NoRequest /\ http'[j].kind \in {"refresh", "start"}
    BY NoRequestFields DEF Refreshing
  <2>2. http'[j] = http[j]
    BY <1>2, <1>4, <2>1
  <2> QED
    BY <2>2 DEF Refreshing
<1>8. OneRefresh'
  <2>1. t \in Refreshing
    BY <1>1 DEF Refreshing
  <2>2. ~overlapped => Current(pair)
    BY <1>1, <2>1 DEF StoredInv, OneRefresh
  <2> QED
    BY <1>1, <1>7, <2>2, BrowserOneRefresh DEF StoredInv
<1> QED
  BY <1>5, <1>6, <1>8 DEF StoredInv

LEMMA NetworkErrorStored ==
  ASSUME ClientInv, StoredInv, NEW k \in Slots, NetworkError(k)
  PROVE  StoredInv'
<1> USE SlotsAssumption
<1>1. CASE k \in Tabs
  BY <1>1, RefreshFailedStored DEF NetworkError
<1>2. CASE k \notin Tabs
  <2>1. /\ \A j \in Slots : http'[j] = IF j = k THEN NoRequest ELSE http[j]
        /\ http[k].pc # "idle" /\ http[k].kind # "refresh"
        /\ UNCHANGED <<server, cookie, overlapped>>
        /\ stored' = IF http[k].kind = "start" THEN 0 ELSE stored
    BY <1>2 DEF NetworkError, Put, ClientInv, HttpFine, StoredInv, KindInv
  <2>2. KindInv'
    BY <2>1, KindOver DEF StoredInv
  <2>3. FreshLogin'
    <3>1. \A j \in Slots :
             \/ http'[j] = http[j]
             \/ /\ http'[j].pc \notin {"answered", "saveSession"}
                /\ http'[j].pair \in {0, http[j].pair}
                /\ http'[j].refresh \in {0, stored, cookie, http[j].refresh}
      BY <2>1, NoRequestFields
    <3>2. http'[k].pc # "answered"
      BY <2>1, NoRequestFields
    <3> QED
      BY <2>1, <3>1, <3>2, BrowserFresh DEF StoredInv
  <2>4. \A j \in Slots : j \in Refreshing' => j \in Refreshing /\ http'[j] = http[j]
    BY <2>1, NoRequestFields DEF Refreshing
  <2>5. http[k].kind # "start" => Refreshing \subseteq Refreshing'
    BY <2>1 DEF Refreshing
  <2>6. OneRefresh'
    BY <2>1, <2>4, <2>5, BrowserOneRefresh DEF StoredInv
  <2> QED
    BY <2>2, <2>3, <2>6 DEF StoredInv
<1> QED
  BY <1>1, <1>2

\* What leaves the requests, the browser and the tokens of sessions alone.
LEMMA TokensStored ==
  ASSUME ClientInv, StoredInv, SameTokens,
         UNCHANGED <<http, stored, cookie, overlapped>>
  PROVE  StoredInv'
<1>1. \A n : Current(n) => Current(n)'
  BY CurrentKept
<1>2. KindInv'
  BY DEF StoredInv, KindInv, SameTokens
<1>3. \A k \in Slots, p \in Nat : (Answers(k, p)' <=> Answers(k, p))
                                  /\ (Fresh(k, p) => Fresh(k, p)')
  BY <1>1 DEF Answers, Fresh, SameTokens
<1>4. FreshLogin'
  BY <1>3 DEF StoredInv, FreshLogin
<1>5. Refreshing' = Refreshing /\ Refreshing \subseteq Slots
  BY DEF Refreshing
<1>6. OneRefresh'
  BY <1>1, <1>3, <1>5 DEF StoredInv, OneRefresh
<1> QED
  BY <1>2, <1>4, <1>6 DEF StoredInv

LEMMA StoredStep ==
  ASSUME ClientInv, StoredInv, [ClientNext]_clientVars
  PROVE  StoredInv'
<1>1. CASE UNCHANGED clientVars
  BY <1>1, TokensStored DEF clientVars, SameTokens
<1>2. ASSUME NEW k \in Slots, Handle(k)
      PROVE  StoredInv'
  BY <1>2, HandleStep, HandleStored
<1>3. ASSUME NEW k \in Slots, BrowserStep(k)
      PROVE  StoredInv'
  BY <1>3, SettleStored, JoinRefreshStored, RefreshSucceededStored,
     RefreshFailedStored DEF BrowserStep
<1>4. ASSUME NEW n \in valid, ExpireAccess(n),
             UNCHANGED <<stored, cookie, overlapped>>
      PROVE  StoredInv'
  BY <1>4, TokensStored DEF ExpireAccess, SameTokens
<1>5. ASSUME NEW s \in DOMAIN sessions, EndSession(s),
             UNCHANGED <<stored, cookie, overlapped>>
      PROVE  StoredInv'
  BY <1>5, TokenRevoked, TokensStored DEF EndSession, SameTokens
<1> QED
  BY <1>1, <1>2, <1>3, <1>4, <1>5, UserStored, NetworkErrorStored
     DEF ClientNext, Environment

LEMMA StoredStart == ClientInit => StoredInv
<1> SUFFICES ASSUME ClientInit PROVE StoredInv
  OBVIOUS
<1>1. \A k \in Slots : http[k] = NoRequest
  BY DEF ClientInit
<1>2. /\ sessions[1].token = 1 /\ family[1] = 1 /\ Len(family) = 1
      /\ 1 \in DOMAIN family /\ stored = 1
  BY DEF ClientInit
<1>3. Refreshing = {}
  BY <1>1, NoRequestFields DEF Refreshing
<1>4. KindInv
  BY <1>1, <1>2, NoRequestFields DEF KindInv
<1>5. FreshLogin
  BY <1>1, NoRequestFields DEF FreshLogin, Answers
<1>6. OneRefresh
  BY <1>2, <1>3 DEF OneRefresh, Current
<1> QED
  BY <1>4, <1>5, <1>6 DEF StoredInv

LEMMA StoredInvariant == ClientSpec => [](ClientInv /\ StoredInv)
<1>1. ClientInv /\ StoredInv /\ [ClientNext]_clientVars => (ClientInv /\ StoredInv)'
  BY ClientStep, StoredStep
<1>2. ClientInit => ClientInv /\ StoredInv
  BY ClientStart, StoredStart
<1> QED
  BY <1>1, <1>2, PTL DEF ClientSpec

-----------------------------------------------------------------------------
\* A browser does not lose its session by refreshing it: unless two refreshes
\* were once in flight together, the refresh token it keeps is the one its
\* session has, whenever no refresh is under way, whatever the network loses
\* and whoever signs in meanwhile (apiClient.js:15-18, authService.js:13).
THEOREM RefreshKeepsSession == ClientSpec => []StoredTokenCurrent
<1>1. ClientInv /\ StoredInv => StoredTokenCurrent
  <2> SUFFICES ASSUME ClientInv, StoredInv, stored # 0, ~overlapped, Refreshing = {}
               PROVE  sessions[family[stored]].token = stored
    BY DEF StoredTokenCurrent
  <2>1. stored \in Nat \ {0}
    BY Credentials
  <2> QED
    BY <2>1 DEF StoredInv, OneRefresh, Current
<1> QED
  BY <1>1, StoredInvariant, PTL

-----------------------------------------------------------------------------
(* Whoever is shut out stays out                                           *)

\* No pair is issued, and no request gets to where one is.
StaysOut ==
  /\ valid' \subseteq valid
  /\ ShutOut' \/ \E k \in Slots : http'[k].pc = "create"

LEMMA ShutOutKept ==
  ASSUME ClientInv, ShutOut, UNCHANGED family, valid' \subseteq valid,
         DOMAIN sessions' = DOMAIN sessions,
         \A s \in DOMAIN sessions : sessions[s].revoked => sessions'[s].revoked,
         \A j \in Slots : \/ http'[j].pc = http[j].pc
                          \/ http'[j].pc # "saveSession"
  PROVE  StaysOut
BY DEF ShutOut, StaysOut

LEMMA ShutOutServer ==
  ASSUME ClientInv, ShutOut, NEW k \in Slots, ServerStep(k)
  PROVE  StaysOut
<1> DEFINE q == http[k]
<1>1. /\ http \in [Slots -> HttpRequest] /\ q \in HttpRequest
      /\ Fine(q, Len(sessions), Len(family))
      /\ DOMAIN sessions = 1 .. Len(sessions)
      /\ sessions \in [DOMAIN sessions -> Session]
      /\ Documents
  BY LenProperties DEF ClientInv, HttpFine, Documents
<1>2. \A ok, pair : Answer(k, ok, pair) =>
        \A j \in Slots : http'[j].pc = http[j].pc \/ http'[j].pc # "saveSession"
  <2> SUFFICES ASSUME NEW ok, NEW pair, Answer(k, ok, pair), NEW j \in Slots
               PROVE  http'[j].pc = http[j].pc \/ http'[j].pc = "answered"
    OBVIOUS
  <2>1. http'[j] = IF j = k THEN Answered(q, ok, pair) ELSE http[j]
    BY <1>1 DEF Answer, Answered
  <2>2. Answered(q, ok, pair).pc = "answered"
    BY <1>1 DEF Answered, HttpRequest
  <2> QED
    BY <2>1, <2>2
<1>3. q.pc \notin {"saveSession", "create"}
  BY DEF ShutOut
<1>4. CASE Authenticate(k)
  <2>1. \A j \in Slots : http'[j].pc = http[j].pc \/ http'[j].pc # "saveSession"
    <3>1. CASE Goto(k, "updateMany")
      BY <1>1, <3>1 DEF Goto, HttpRequest
    <3> QED
      BY <1>2, <1>4, <3>1 DEF Authenticate
  <2> QED
    BY <1>4, <2>1, ShutOutKept DEF Authenticate
<1>5. CASE RevokeByToken(k)
  BY <1>1, <1>2, <1>5, SessionsRevoked, ShutOutKept DEF RevokeByToken
<1>6. CASE FindSession(k)
  <2>1. ASSUME NEW s \in SessionOf(q.refresh),
               http' = [http EXCEPT
                          ![k] = [@ EXCEPT !.pc = IF sessions[s].revoked
                                                  THEN "revokeFamily"
                                                  ELSE "saveSession",
                                           !.session = s]]
        PROVE  \A j \in Slots : http'[j].pc = http[j].pc \/ http'[j].pc # "saveSession"
    <3>1. sessions[s].revoked
      BY DEF SessionOf, ShutOut
    <3>2. http'[k] = [q EXCEPT !.pc = "revokeFamily", !.session = s]
      BY <1>1, <2>1, <3>1
    <3>3. http'[k].pc = "revokeFamily"
      BY <1>1, <3>2 DEF HttpRequest
    <3> QED
      BY <1>1, <2>1, <3>3
  <2>2. \A j \in Slots : http'[j].pc = http[j].pc \/ http'[j].pc # "saveSession"
    BY <1>2, <1>6, <2>1 DEF FindSession
  <2> QED
    BY <1>6, <2>2, ShutOutKept DEF FindSession
<1>7. CASE RevokeFamily(k)
  <2>1. q.session \in DOMAIN sessions
    BY <1>1, <1>7 DEF RevokeFamily, Fine
  <2> QED
    BY <1>1, <1>2, <1>7, <2>1, SessionRevoked, ShutOutKept DEF RevokeFamily
<1> QED
  BY <1>3, <1>4, <1>5, <1>6, <1>7 DEF ServerStep, SaveSession, CreateSession

LEMMA RequestNotSaved ==
  ASSUME NEW kind, NEW access, NEW refresh, NEW retried, kind \in Kinds
  PROVE  Request(kind, access, refresh, retried).pc # "saveSession"
<1> DEFINE stage == FirstStage(kind)
<1>1. stage # "saveSession"
  BY DEF FirstStage, Kinds
<1>2. Request(kind, access, refresh, retried).pc = stage
  <2> HIDE DEF stage
  <2> QED
    BY DEF Request, NoRequest, stage
<1> QED
  BY <1>1, <1>2

\* The browser sends requests, and the server begins with none of them at the
\* write of a session.
LEMMA ShutOutBrowser ==
  ASSUME ClientInv, ShutOut, User \/ \E k \in Slots : BrowserStep(k) \/ NetworkError(k)
  PROVE  StaysOut
<1> USE SlotsAssumption
<1>1. UNCHANGED server
  BY DEF User, Call, SignIn, SignOut, Start, BrowserStep, Settle, JoinRefresh,
         RefreshSucceeded, RefreshFailed, NetworkError, server
<1>2. \A j \in Slots : http[j] \in HttpRequest /\ http[j].kind \in Kinds
  BY Credentials DEF HttpRequest
<1>3. http \in [Slots -> HttpRequest]
  BY DEF ClientInv, HttpFine
<1>4. \A j \in Slots : http'[j].pc = http[j].pc \/ http'[j].pc # "saveSession"
  <2>1. CASE User
    <3>1. PICK k, kind, access, refresh, retried :
            /\ k \in Calls /\ kind \in Kinds
            /\ http' = Put(k, Request(kind, access, refresh, retried))
      BY <2>1 DEF User, Call, SignIn, SignOut, Start, Kinds
    <3>2. \A j \in Slots : http'[j] = http[j]
                           \/ http'[j] = Request(kind, access, refresh, retried)
      BY <1>3, <3>1 DEF Put
    <3> QED
      BY <3>1, <3>2, RequestNotSaved
  <2>2. ASSUME NEW k \in Slots, Settle(k)
        PROVE  \A j \in Slots : http'[j].pc = http[j].pc \/ http'[j].pc # "saveSession"
    BY <1>3, <2>2, NoRequestFields DEF Settle, Put
  <2>3. ASSUME NEW t \in Tabs, RefreshFailed(t)
        PROVE  \A j \in Slots : http'[j].pc = http[j].pc \/ http'[j].pc # "saveSession"
    BY <2>3, NoRequestFields DEF RefreshFailed
  <2>4. ASSUME NEW k \in Slots, NetworkError(k)
        PROVE  \A j \in Slots : http'[j].pc = http[j].pc \/ http'[j].pc # "saveSession"
    BY <1>3, <2>3, <2>4, NoRequestFields DEF NetworkError, Put
  <2>5. ASSUME NEW t \in Tabs, RefreshSucceeded(t), NEW j \in Slots
        PROVE  http'[j].pc = http[j].pc \/ http'[j].pc # "saveSession"
    <3>p. PICK yes : yes = TRUE
      OBVIOUS
    <3>1. \/ http'[j] = http[j]
          \/ http'[j] = NoRequest
          \/ http'[j] = Request(http[j].kind, http[t].pair, http[j].refresh, yes)
      BY <2>5, <3>p DEF RefreshSucceeded, Waiters
    <3> QED
      BY <1>2, <3>1, NoRequestFields, RequestNotSaved
  <2>6. ASSUME NEW k \in Slots, JoinRefresh(k), NEW j \in Slots
        PROVE  http'[j].pc = http[j].pc \/ http'[j].pc # "saveSession"
    <3> DEFINE w == [http[k] EXCEPT !.pc = "waiting", !.retried = TRUE]
               r == Request("refresh", Credential, Credential, FALSE)
    <3>p. PICK no : no = FALSE
      OBVIOUS
    <3>1. http'[j] = http[j] \/ http'[j] = w \/ http'[j] = r
      BY <1>3, <2>6 DEF JoinRefresh
    <3>2. r.pc # "saveSession"
      <4>1. "refresh" \in Kinds /\ r = Request("refresh", Credential, Credential, no)
        BY <3>p DEF Kinds
      <4> QED
        BY <4>1, RequestNotSaved
    <3>3. w.pc = "waiting"
      BY <1>2 DEF HttpRequest
    <3> QED
      BY <3>1, <3>2, <3>3
  <2> QED
    BY <2>1, <2>2, <2>3, <2>4, <2>5, <2>6 DEF BrowserStep
<1> QED
  BY <1>1, <1>4, ShutOutKept DEF server

\* Once all sessions are revoked and no rotation is under way, no request that
\* is still around gets a new access token, before the next login
\* (authService.js:13).
THEOREM ShutOutStaysOut == ClientSpec => NoAccessAfterRevocation
<1>1. ClientInv /\ ShutOut /\ [ClientNext]_clientVars => StaysOut \/ UNCHANGED clientVars
  <2> SUFFICES ASSUME ClientInv, ShutOut, ClientNext
               PROVE  StaysOut
    OBVIOUS
  <2>1. ASSUME NEW n \in valid, ExpireAccess(n)
        PROVE  StaysOut
    BY <2>1, ShutOutKept DEF ExpireAccess
  <2>2. ASSUME NEW s \in DOMAIN sessions, EndSession(s)
        PROVE  StaysOut
    <3>1. DOMAIN sessions' = DOMAIN sessions
      BY <2>2, TokenRevoked DEF EndSession
    <3>2. \A x \in DOMAIN sessions : sessions[x].revoked => sessions'[x].revoked
      BY <2>2, SessionRevoked DEF EndSession, ClientInv
    <3> QED
      BY <2>2, <3>1, <3>2, ShutOutKept DEF EndSession
  <2> QED
    BY <2>1, <2>2, ShutOutServer, ShutOutBrowser DEF ClientNext, Handle, Environment
<1>2. ClientInv /\ [ClientNext]_clientVars =>
        [ShutOut => /\ valid' \subseteq valid
                    /\ ShutOut' \/ \E k \in Slots : http'[k].pc = "create"]_clientVars
  BY <1>1 DEF StaysOut
<1> QED
  BY <1>2, ClientInvariant, PTL DEF ClientSpec, NoAccessAfterRevocation
=============================================================================
