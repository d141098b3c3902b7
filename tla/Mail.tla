-------------------------------- MODULE Mail --------------------------------
(***************************************************************************)
(* sendSmtp of services/emailService.js: the dialogue with a mail server,  *)
(* written on bare sockets, that a request waits for.                      *)
(*                                                                         *)
(* The mail server and the network are external and may do anything: reply *)
(* well, refuse, reset the connection, close it in an orderly way, or fall *)
(* silent.  A line stands for writing it and for reading its reply, however *)
(* many chunks that comes in.                                              *)
(***************************************************************************)
EXTENDS Naturals, Sequences

CONSTANTS
  Requests,
  MailHost,               \* whether config.email.host is set
  Secure, StartTls,       \* config.email.secure, .startTls
  Credentials             \* whether a user or a password is configured

ASSUME MailAssumption ==
  /\ MailHost \in BOOLEAN /\ Secure \in BOOLEAN
  /\ StartTls \in BOOLEAN /\ Credentials \in BOOLEAN

VARIABLE smtp

-----------------------------------------------------------------------------
Dialogue ==
  <<"connect", "greeting", "EHLO">>
    \o (IF StartTls /\ ~Secure THEN <<"STARTTLS", "upgrade", "EHLO">> ELSE <<>>)
    \o (IF Credentials THEN <<"AUTH LOGIN", "user", "password">> ELSE <<>>)
    \o <<"MAIL FROM", "RCPT TO", "DATA", "body", "QUIT">>

Dialog ==
  [state : {"none", "talking", "sent", "failed", "hung"},
   line : 0 .. Len(Dialogue), accepted : BOOLEAN]

NoMail == [state |-> "none", line |-> 0, accepted |-> FALSE]

Line(r) == Dialogue[smtp[r].line]

Talking(r) == smtp[r].state = "talking"

SendMail == [NoMail EXCEPT !.state = "talking", !.line = 1]

\* What a request gets that awaits a reply which is an error: QUIT has a catch.
Rejection(r) == IF Line(r) = "QUIT" THEN "sent" ELSE "failed"

-----------------------------------------------------------------------------
\* A reply below 400.
GoodReply(r) ==
  /\ Talking(r)
  /\ smtp' = [smtp EXCEPT ![r] =
                [smtp[r] EXCEPT !.accepted = @ \/ Line(r) = "body",
                                 !.state = IF Line(r) = "QUIT" THEN "sent" ELSE @,
                                 !.line = IF Line(r) = "QUIT" THEN @ ELSE @ + 1]]

\* Mutant: only 5xx is an error.
BadReply_GoesOn(r) ==
  /\ Talking(r) /\ Line(r) \notin {"connect", "upgrade"}
  /\ smtp' = [smtp EXCEPT ![r] =
                [smtp[r] EXCEPT !.state = IF Line(r) = "QUIT" THEN "sent" ELSE @,
                                 !.line = IF Line(r) = "QUIT" THEN @ ELSE @ + 1]]

BadReply(r) ==
  /\ Talking(r) /\ Line(r) \notin {"connect", "upgrade"}
  /\ smtp' = [smtp EXCEPT ![r].state = Rejection(r)]

\* A reset, or destroy after timeoutMs of silence.  Of a body whose reply is
\* lost nobody knows whether it was accepted.
SocketError(r) ==
  /\ Talking(r)
  /\ \E accepted \in {smtp[r].accepted, smtp[r].accepted \/ Line(r) = "body"} :
       smtp' = [smtp EXCEPT ![r] = [@ EXCEPT !.state = Rejection(r),
                                             !.accepted = accepted]]

\* readResponse listens for data and for errors.  The end of the stream is
\* neither; nor is, under TLS, the timeout of the socket underneath.
NeverSettles(r) ==
  /\ Talking(r) /\ Line(r) \notin {"connect", "upgrade"}
  /\ smtp' = [smtp EXCEPT ![r].state = "hung"]

\* The mail server does something, at the latest when the timeout is over.
MailStep(r) ==
  \/ GoodReply(r) \/ BadReply(r)
  \/ SocketError(r)
  \/ NeverSettles(r)

-----------------------------------------------------------------------------
MailTypeOK == smtp \in [Requests -> Dialog]

\* sendPasswordResetEmail answers "sent" only if the mail server has taken the
\* body, whichever command is refused and however the connection ends
\* (emailService.js:15-21, 61-75).
SentMeansAccepted ==
  \A r \in Requests : smtp[r].state = "sent" => smtp[r].accepted
=============================================================================
