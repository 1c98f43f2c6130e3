---------------------------- MODULE PortAttempt ----------------------------
(* What one attempt at one port may tell check_mailbox: the results that     *)
(* _do_smtp_check and `guarded` return (app/checks/smtp.py).  SmtpSession is *)
(* the conversation behind it and is checked to return nothing else.         *)
EXTENDS SmtpClassify

NoAnswer(sub, accessible, tcpFailed, tlsFailed) ==
  [sub |-> sub, exists |-> "unknown", retry |-> FALSE, accessible |-> accessible,
   tcpFailed |-> tcpFailed, tlsFailed |-> tlsFailed]

\* The server answered RCPT; a reply is <<code, words>>.
Answered(reply) ==
  LET c == Classify(reply[1], reply[2])
  IN  [sub |-> c.sub, exists |-> c.exists, retry |-> reply[1] \in RetryCodes,
       accessible |-> TRUE, tcpFailed |-> FALSE, tlsFailed |-> FALSE]

\* A stall, before or after the greeting; a refused greeting, EHLO or MAIL.
TimedOut   == {NoAnswer("smtp_timeout", a, FALSE, FALSE) : a \in BOOLEAN}
TurnedAway == {NoAnswer("smtp_connection_failed", a, FALSE, FALSE) : a \in BOOLEAN}

\* No connection, or a broken one; no STARTTLS on offer, or a broken one.
NotReached == NoAnswer("smtp_connection_failed", FALSE, TRUE, FALSE)
TlsMissing == NoAnswer("smtp_connection_failed", TRUE, FALSE, TRUE)

AttemptResults(mode, replies) ==
  {Answered(r) : r \in replies} \cup TimedOut \cup TurnedAway \cup {NotReached}
    \cup (IF mode = "starttls" THEN {TlsMissing} ELSE {})

\* check_mailbox goes on to the next port.
FallsThrough(res) == res.tcpFailed \/ res.tlsFailed
=============================================================================
