---------------------------- MODULE SmtpSession ----------------------------
(* One conversation of _do_smtp_check with one host and port, under the      *)
(* budget of check_mailbox's `guarded` (app/checks/smtp.py).  The server is  *)
(* external: it answers the commands it was sent in order, one reply each,   *)
(* in as many lines as it likes, and may stall, close or reset.              *)
EXTENDS PortAttempt, Sequences

CONSTANTS
  Modes,            \* modes the port ladder uses: "plain", "starttls", "implicit-tls"
  RcptReplies,      \* what a server may answer to RCPT: a set of <<code, words>>
  MultiLineBanner,  \* may the greeting take several lines
  MaxInbox          \* bound: lines received and not yet handled

ASSUME ModesAssumption == Modes \subseteq {"plain", "starttls", "implicit-tls"}
ASSUME BannerAssumption == MultiLineBanner \in BOOLEAN
ASSUME InboxAssumption == MaxInbox \in Nat \ {0}
ASSUME RepliesAssumption == RcptReplies \subseteq Int \X SUBSET KeywordClass

VARIABLES
  mode,
  step,         \* the code's `step`: which reply the next line is taken for
  upgrading,    \* STARTTLS was accepted
  accessible,   \* smtp_accessible
  hasStarttls,  \* some EHLO line read so far was "starttls"
  sent,         \* commands sent, in order
  answered,     \* how many replies the server has finished, the banner first
  inbox,        \* lines received: [re |-> command answered (0: banner), code, words, cont, cap]
  link,         \* the connection
  result        \* what the call returned

vars == <<mode, step, upgrading, accessible, hasStarttls, sent, answered, inbox, link, result>>

Commands == {"EHLO", "STARTTLS", "MAIL", "RCPT", "QUIT"}

NoResult == [cause |-> "none", re |-> -1, code |-> 0, sub |-> "none", exists |-> "unknown",
             retry |-> FALSE, accessible |-> FALSE, tcpFailed |-> FALSE, tlsFailed |-> FALSE]

\* A result without an answer of the mailbox; `why` is not in the code, it
\* names the exit taken.
Gave(why, sub, acc, tcp, tls) ==
  [NoResult EXCEPT !.cause = why, !.sub = sub, !.accessible = acc,
                   !.tcpFailed = tcp, !.tlsFailed = tls]

Links == {"connecting", "open", "upgrading", "eof", "reset", "closed"}

TypeOK ==
  /\ mode \in Modes
  /\ step \in 0 .. 5
  /\ upgrading \in BOOLEAN /\ accessible \in BOOLEAN /\ hasStarttls \in BOOLEAN
  /\ sent \in Seq(Commands) /\ Len(sent) <= 6
  /\ answered \in 0 .. Len(sent) + 1
  /\ Len(inbox) <= MaxInbox
  /\ link \in Links
  /\ result.cause \in {"none", "connect", "line", "timeout", "tls", "error", "budget"}
  /\ result.exists \in Existence

Init ==
  /\ mode \in Modes
  /\ step = 0
  /\ upgrading = FALSE /\ accessible = FALSE /\ hasStarttls = FALSE
  /\ sent = <<>>
  /\ answered = 0
  /\ inbox = <<>>
  /\ link = "connecting"
  /\ result = NoResult

-----------------------------------------------------------------------------
(* The server and the network.                                               *)

\* The command the server is to answer now.
Asked == IF answered = 0 THEN "BANNER" ELSE sent[answered]

Replies(cmd) ==
  CASE cmd = "BANNER"   -> {<<220, {}>>, <<554, {}>>}
    [] cmd = "EHLO"     -> {<<250, {}>>, <<502, {}>>}
    [] cmd = "STARTTLS" -> {<<220, {}>>, <<454, {}>>}
    [] cmd = "MAIL"     -> {<<250, {}>>, <<451, {}>>, <<550, {"policyRejection"}>>}
    [] cmd = "RCPT"     -> RcptReplies
    [] cmd = "QUIT"     -> {<<221, {}>>}

ServerLine(cont) ==
  /\ link = "open"
  /\ answered <= Len(sent)
  /\ Len(inbox) < MaxInbox
  /\ cont /\ answered = 0 => MultiLineBanner
  /\ \E r \in Replies(Asked), cap \in BOOLEAN :
       /\ cap => Asked = "EHLO" /\ r[1] = 250
       /\ inbox' = Append(inbox, [re |-> answered, code |-> r[1], words |-> r[2],
                                  cont |-> cont, cap |-> cap])
  /\ answered' = IF cont THEN answered ELSE answered + 1
  /\ UNCHANGED <<mode, step, upgrading, accessible, hasStarttls, sent, link, result>>

\* Bytes that complete no line of a reply (half a line, a line the code does
\* not match): they keep the read from timing out, and the client skips them.
\* They are entered as a continuation line of code 0.
Noise ==
  /\ link = "open"
  /\ answered <= Len(sent)
  /\ Len(inbox) < MaxInbox
  /\ inbox' = Append(inbox, [re |-> answered, code |-> 0, words |-> {}, cont |-> TRUE, cap |-> FALSE])
  /\ UNCHANGED <<mode, step, upgrading, accessible, hasStarttls, sent, answered, link, result>>

\* The peer closes; a later write is answered with a reset.
PeerCloses ==
  /\ link = "open"
  /\ link' = "eof"
  /\ UNCHANGED <<mode, step, upgrading, accessible, hasStarttls, sent, answered, inbox, result>>

ConnectionReset ==
  /\ link \in {"open", "eof", "upgrading"}
  /\ link' = "reset"
  /\ UNCHANGED <<mode, step, upgrading, accessible, hasStarttls, sent, answered, inbox, result>>

-----------------------------------------------------------------------------
(* The client.                                                               *)

Return(r) ==
  /\ result' = r
  /\ link' = "closed"
  /\ UNCHANGED <<mode, step, upgrading, hasStarttls, answered, inbox>>

Connect ==
  /\ link = "connecting"
  /\ link' = "open"
  /\ UNCHANGED <<mode, step, upgrading, accessible, hasStarttls, sent, answered, inbox, result>>

ConnectTimeout ==
  /\ link = "connecting"
  /\ Return(Gave("connect", "smtp_timeout", FALSE, FALSE, FALSE))
  /\ UNCHANGED <<accessible, sent>>

ConnectFails ==
  /\ link = "connecting"
  /\ Return(Gave("connect", "smtp_connection_failed", FALSE, TRUE, FALSE))
  /\ UNCHANGED <<accessible, sent>>

\* The next line of the chunk.  A chunk read before a reset is still handled.
Line == Head(inbox)
HasLine == inbox # <<>> /\ link \in {"open", "eof", "reset"}
FinalLine(s) == HasLine /\ step = s /\ ~Line.cont

\* send() raises on a connection known to be reset (SocketError, below).
CanSend == link \in {"open", "eof"}

\* The line makes the client send `cmd` and take what follows for its reply.
Advance(cmd, next) ==
  /\ CanSend
  /\ sent' = Append(sent, cmd)
  /\ step' = next
  /\ inbox' = Tail(inbox)
  /\ UNCHANGED <<mode, upgrading, answered, link, result>>

\* Give up without a word; give up after QUIT.
GiveUp(r) == Return(r) /\ UNCHANGED <<accessible, sent>>
GiveUpPolitely(r) ==
  /\ CanSend
  /\ sent' = Append(sent, "QUIT")
  /\ Return(r)
  /\ UNCHANGED accessible

Refused == Gave("line", "smtp_connection_failed", accessible, FALSE, FALSE)
NoTls(why) == Gave(why, "smtp_connection_failed", accessible, FALSE, TRUE)

\* Step 0 takes any line for the whole greeting, a continuation line too.
BannerAccepted ==
  /\ HasLine /\ step = 0 /\ Line.code = 220
  /\ accessible' = TRUE
  /\ hasStarttls' = FALSE
  /\ Advance("EHLO", 1)

BannerRefused ==
  /\ HasLine /\ step = 0 /\ Line.code \notin {0, 220}
  /\ accessible' = FALSE
  /\ Return(Gave("line", "smtp_connection_failed", FALSE, FALSE, FALSE))
  /\ UNCHANGED sent

\* A continuation line of any later reply (EHLO's may announce STARTTLS), or
\* what is no reply line at all.
Continuation ==
  /\ HasLine /\ Line.cont
  /\ step = 0 => Line.code = 0
  /\ hasStarttls' = (hasStarttls \/ (step = 1 /\ mode = "starttls" /\ Line.cap))
  /\ inbox' = Tail(inbox)
  /\ UNCHANGED <<mode, step, upgrading, accessible, sent, answered, link, result>>

OffersTls == hasStarttls \/ Line.cap

EhloTls ==
  /\ FinalLine(1) /\ mode = "starttls" /\ OffersTls
  /\ Advance("STARTTLS", 2)
  /\ UNCHANGED <<accessible, hasStarttls>>

EhloNoTls ==
  /\ FinalLine(1) /\ mode = "starttls" /\ ~OffersTls
  /\ GiveUp(NoTls("line"))

\* A defect: without STARTTLS on offer the conversation goes on in the clear.
EndOfEhloAnyMode == (FinalLine(1) /\ ~(mode = "starttls" /\ OffersTls)) \/ FinalLine(3)

\* A defect: a continuation line is taken for the end of the reply.
EndOfEhloEarly == (HasLine /\ step = 1 /\ mode # "starttls") \/ FinalLine(3)

\* The end of the EHLO reply that MAIL follows: the first, or the one after TLS.
EndOfEhlo == (FinalLine(1) /\ mode # "starttls") \/ FinalLine(3)

EhloAccepted ==
  /\ EndOfEhlo /\ Line.code < 400
  /\ Advance("MAIL", 4)
  /\ UNCHANGED <<accessible, hasStarttls>>

EhloRefused ==
  /\ EndOfEhlo /\ Line.code >= 400
  /\ GiveUpPolitely(Refused)

\* From here on a broken connection is a failure of STARTTLS.
StarttlsAccepted ==
  /\ FinalLine(2) /\ Line.code = 220
  /\ upgrading' = TRUE
  /\ link' = IF link = "reset" THEN "reset" ELSE "upgrading"
  /\ UNCHANGED <<mode, step, accessible, hasStarttls, sent, answered, inbox, result>>

StarttlsRefused ==
  /\ FinalLine(2) /\ Line.code # 220
  /\ GiveUp(NoTls("line"))

\* start_tls succeeds: the rest of the chunk is dropped, and what the reader
\* had not handed out yet stays.
TlsReady ==
  /\ link = "upgrading"
  /\ link' = "open"
  /\ sent' = Append(sent, "EHLO")
  /\ step' = 3
  /\ \E k \in 2 .. Len(inbox) + 1 : inbox' = SubSeq(inbox, k, Len(inbox))
  /\ UNCHANGED <<mode, upgrading, accessible, hasStarttls, answered, result>>

\* A defect: a failed handshake is reported like a failed connection.
TlsFailsAsTcp ==
  /\ link = "upgrading"
  /\ GiveUp(Gave("tls", "smtp_connection_failed", accessible, TRUE, FALSE))

TlsFails ==
  /\ link = "upgrading"
  /\ GiveUp(NoTls("tls"))

MailAccepted ==
  /\ FinalLine(4) /\ Line.code < 400
  /\ Advance("RCPT", 5)
  /\ UNCHANGED <<accessible, hasStarttls>>

MailRefused ==
  /\ FinalLine(4) /\ Line.code >= 400
  /\ GiveUpPolitely(Refused)

\* The answer to RCPT.  QUIT is sent before the line is classified.
RcptAnswered ==
  /\ FinalLine(5)
  /\ LET c == Classify(Line.code, Line.words)
     IN  GiveUpPolitely([NoResult EXCEPT
           !.cause = "line", !.re = Line.re, !.code = Line.code, !.sub = c.sub,
           !.exists = c.exists, !.retry = Line.code \in RetryCodes, !.accessible = accessible])

\* A defect: a silent server is treated like a failed connection.
ReadTimeoutFallsThrough ==
  /\ inbox = <<>> /\ link \in {"open", "eof"}
  /\ GiveUp(Gave("timeout", "smtp_timeout", accessible, TRUE, FALSE))

\* A defect: the end of the stream is read as an empty chunk and read again.
ReadTimeoutOpenOnly ==
  /\ inbox = <<>> /\ link = "open"
  /\ GiveUp(Gave("timeout", "smtp_timeout", accessible, FALSE, FALSE))

\* No line within the response timeout, or the peer has closed.
ReadTimeout ==
  /\ inbox = <<>> /\ link \in {"open", "eof"}
  /\ GiveUp(Gave("timeout", "smtp_timeout", accessible, FALSE, FALSE))

\* A read or a send raises.
SocketError ==
  /\ link = "reset"
  /\ IF upgrading THEN GiveUp(NoTls("error"))
                  ELSE GiveUp(Gave("error", "smtp_connection_failed", FALSE, TRUE, FALSE))

\* guarded: the port budget cancels the conversation wherever it is.
BudgetExpires ==
  /\ result = NoResult
  /\ GiveUp(Gave("budget", "smtp_timeout", FALSE, FALSE, FALSE))

-----------------------------------------------------------------------------
Server == ServerLine(TRUE) \/ ServerLine(FALSE) \/ Noise \/ PeerCloses \/ ConnectionReset

\* What the client does by itself: every wait of it has a timeout of its own.
Bounded == \/ Connect \/ ConnectTimeout \/ ConnectFails
           \/ BannerAccepted \/ BannerRefused \/ Continuation
           \/ EhloTls \/ EhloNoTls \/ EhloAccepted \/ EhloRefused
           \/ StarttlsAccepted \/ StarttlsRefused
           \/ MailAccepted \/ MailRefused \/ RcptAnswered
           \/ ReadTimeout \/ SocketError

\* The handshake waits for the peer.
Client == Bounded \/ TlsReady \/ TlsFails

Next == Server \/ Client \/ BudgetExpires

Spec == Init /\ [][Next]_vars

\* A connect or a read comes to its end by its timeout, and a line that was
\* read is handled.  Nothing else is fair: not the server, not the TLS
\* handshake, and not the budget, whose part is what Returns leaves open.
FairSpec == Spec /\ WF_vars(Bounded)

-----------------------------------------------------------------------------
(* Properties.                                                               *)

\* The command whose reply the client is reading, as an index of `sent`.
Expected == Len(sent)

\* Client and server agree on what is being answered: a line waiting to be
\* read at step n answers the last command sent, never an earlier one.
LockStep == result = NoResult => \A k \in 1 .. Len(inbox) : inbox[k].re = Expected

\* smtp.py:55: what is classified, and decides a mailbox, is the server's
\* answer to RCPT TO and to no other command.
VerdictFromRcpt == result.code # 0 => sent[result.re] = "RCPT"

\* A mailbox is judged by the answer to RCPT and only after the whole dialogue
\* of the mode, on a STARTTLS port only inside TLS, and by a server that had
\* greeted.
Dialogue == IF mode = "starttls" THEN <<"EHLO", "STARTTLS", "EHLO", "MAIL", "RCPT", "QUIT">>
                                 ELSE <<"EHLO", "MAIL", "RCPT", "QUIT">>

VerdictNeedsDialogue ==
  result.code # 0 =>
    /\ VerdictFromRcpt /\ sent = Dialogue
    /\ upgrading = (mode = "starttls") /\ result.accessible

\* The flags that send check_mailbox to the next port never come with an
\* answer of the mailbox or a retry request, nor together; a server that
\* answered MAIL loses its say only to a broken connection.
FallThroughIsNoAnswer ==
  result.tcpFailed \/ result.tlsFailed =>
    /\ ~(result.tcpFailed /\ result.tlsFailed)
    /\ result.code = 0 /\ ~result.retry
    /\ step \in {4, 5} => result.cause = "error"
    /\ result.tlsFailed => mode = "starttls"

\* PortAttempt: whatever the server does, the conversation returns one of the
\* results the port ladder and the failover are built on, and no other.
ResultIsAttempt ==
  result # NoResult =>
    [f \in {"sub", "exists", "retry", "accessible", "tcpFailed", "tlsFailed"} |-> result[f]]
      \in AttemptResults(mode, RcptReplies)

\* smtp.py:404-408: every read and connect is bounded by itself, so a call
\* returns without the budget, whatever the server does: unless it stalls the
\* STARTTLS handshake or drips bytes forever that never end a reply.  Those are
\* the cases the budget is for, and the only ones.
Stalled == <>[](link = "upgrading")
Drips == []<>(inbox # <<>> /\ Head(inbox).cont)

Returns == <>(result # NoResult) \/ Stalled \/ Drips
=============================================================================
