----------------------------- MODULE MxFailover -----------------------------
(* How one address gets its verdict from the mail servers of its domain: the *)
(* catch-all probe, the failover over MX hosts, the port ladder under each   *)
(* of them and the greylist retry (check_mailbox and check_catch_all in      *)
(* app/checks/smtp.py; smtp_domain_task, _check_mailbox_with_failover and    *)
(* retry_one in app/pipeline/runner.py).  The servers are external: what     *)
(* they are is chosen in Init, and any attempt may fail in any way.          *)
EXTENDS PortAttempt, Sequences

CONSTANTS
  MxLists,       \* the MX lists a domain may have, best preference first
  Domain,        \* the bare domain as a host name
  SoftReplies    \* RCPT replies a server may give to any address

Machines == {Domain} \cup UNION {{l[i] : i \in DOMAIN l} : l \in MxLists}

ASSUME MxListsAssumption ==
  \A l \in MxLists : /\ l \in Seq(Machines) /\ l # <<>>
                     /\ \A i, j \in DOMAIN l : l[i] = l[j] => i = j
ASSUME SoftRepliesAssumption == \A r \in SoftReplies : Classify(r[1], r[2]).exists = "unknown"

VARIABLES
  mxHosts,    \* the MX list of the domain
  acceptAll,  \* the machines that accept every address
  mailbox,    \* what is behind the address: "open", "full" or "absent"
  phase,      \* the call in progress
  at,         \* the failover's position in mxHosts
  rung,       \* the ladder's position; after the ports, the bare domain
  heard,      \* any_accessible of the call in progress
  verdict,    \* the ValidationResult: status, sub, mx, accessible
  said,       \* (history) answers to RCPT: [by, fake, exists, retry]
  last        \* (history) the last attempt's result

world == <<mxHosts, acceptAll, mailbox>>
vars == <<mxHosts, acceptAll, mailbox, phase, at, rung, heard, verdict, said, last>>

\* CONFIG.smtp.ports
Ports == <<"plain", "starttls", "starttls", "implicit-tls">>

Calls == {"catch_all", "failover", "retry"}
Mailboxes == {"open", "full", "absent"}
Pending == [status |-> "pending", sub |-> "none", mx |-> Head(mxHosts), accessible |-> FALSE]
Reserved(sub, mx, accessible) ==
  [status |-> "reserved", sub |-> sub, mx |-> mx, accessible |-> accessible]

\* An exception other than OSError escapes check_mailbox (UnicodeError for a
\* host name that is no host name).
Raised == NoAnswer("raised", FALSE, FALSE, FALSE)

Init ==
  /\ mxHosts \in MxLists
  /\ acceptAll \in SUBSET Machines
  /\ mailbox \in Mailboxes
  /\ phase = "catch_all"
  /\ at = 1 /\ rung = 1
  /\ heard = FALSE
  /\ verdict = Pending
  /\ said = {}
  /\ last = Raised

-----------------------------------------------------------------------------
(* One attempt.                                                              *)

\* The mx_host check_mailbox was called with, and whom the attempt asks.
Host == CASE phase = "catch_all" -> Head(mxHosts)
          [] phase = "failover"  -> mxHosts[at]
          [] phase = "retry"     -> verdict.mx
Target == IF rung <= Len(Ports) THEN Host ELSE Domain
Mode == IF rung <= Len(Ports) THEN Ports[rung] ELSE "plain"
LastRung == IF Host = Domain THEN Len(Ports) ELSE Len(Ports) + 1

\* A server that accepts everything does; another tells what there is.
Behind == IF phase = "catch_all" THEN "absent" ELSE mailbox
HardReply == CASE Target \in acceptAll \/ Behind = "open" -> <<250, {}>>
               [] Target \notin acceptAll /\ Behind = "full" -> <<452, {"mailboxFull"}>>
               [] Target \notin acceptAll /\ Behind = "absent" -> <<550, {"mailboxNotFound"}>>

Results == AttemptResults(Mode, {HardReply} \cup SoftReplies) \cup {Raised}

IsAnswer(res) == res.exists # "unknown" \/ res.retry

Hear(res) ==
  /\ last' = res
  /\ said' = IF IsAnswer(res)
             THEN said \cup {[by |-> Target, fake |-> phase = "catch_all",
                              exists |-> res.exists, retry |-> res.retry]}
             ELSE said

NextPort(res) ==
  /\ phase \in Calls
  /\ FallsThrough(res) /\ rung < LastRung
  /\ rung' = rung + 1
  /\ heard' = (heard \/ res.accessible)
  /\ UNCHANGED <<phase, at, verdict>>

\* check_mailbox returns: the attempt's result as it is, or, when the ladder
\* is exhausted, that there was no connection.
Returns(res) == FallsThrough(res) => rung = LastRung
Public(res) == IF FallsThrough(res)
               THEN NoAnswer("smtp_connection_failed", heard \/ res.accessible, FALSE, FALSE)
               ELSE [res EXCEPT !.accessible = heard \/ res.accessible]

\* Where the next call of check_mailbox starts.
NewCall == rung' = 1 /\ heard' = FALSE
Settle(v) == phase' = "done" /\ verdict' = v /\ UNCHANGED <<at, rung, heard>>

-----------------------------------------------------------------------------
(* The catch-all probe of the first MX host, with a made-up address.         *)

CatchAllYes(res) ==
  /\ phase = "catch_all" /\ Returns(res)
  /\ res.exists = "yes"
  /\ Settle(Reserved("accept_all", Head(mxHosts), TRUE))

\* Anything but a confirmation, an exception too, means "no catch-all".
CatchAllNo(res) ==
  /\ phase = "catch_all" /\ Returns(res)
  /\ res.exists # "yes"
  /\ phase' = "failover" /\ at' = 1
  /\ NewCall
  /\ UNCHANGED verdict

-----------------------------------------------------------------------------
(* The failover.                                                             *)

\* A defect: any answer but a confirmation leads to the next host.
GoesOnUnlessConfirmed(res) == res.exists # "yes"

GoesOn(res) == Public(res).sub \in {"smtp_connection_failed", "raised"}

NextHost(res) ==
  /\ phase = "failover" /\ Returns(res)
  /\ GoesOn(res)
  /\ at < Len(mxHosts) /\ at' = at + 1
  /\ NewCall
  /\ UNCHANGED <<phase, verdict>>

NoHost(res) ==
  /\ phase = "failover" /\ Returns(res)
  /\ GoesOn(res)
  /\ at = Len(mxHosts)
  /\ Settle(Reserved("smtp_connection_failed", Head(mxHosts), FALSE))

\* A defect: the entry of the retry queue keeps the first MX host.
AskedToRetryPrimary(res) ==
  /\ phase = "failover" /\ Returns(res)
  /\ ~GoesOn(res) /\ res.retry
  /\ phase' = "parked"
  /\ verdict' = Reserved("greylisted", Head(mxHosts), TRUE)
  /\ UNCHANGED <<at, rung, heard>>

\* The retry queue; its result is emitted when the shard is over.
AskedToRetry(res) ==
  /\ phase = "failover" /\ Returns(res)
  /\ ~GoesOn(res) /\ res.retry
  /\ phase' = "parked"
  /\ verdict' = Reserved("greylisted", Host, TRUE)
  /\ UNCHANGED <<at, rung, heard>>

\* A defect: not confirmed is taken for rejected.
StatusOfTruth(exists) == IF exists = "yes" THEN "valid" ELSE "invalid"

StatusOf(exists) == CASE exists = "yes" -> "valid"
                      [] exists = "no" -> "invalid"
                      [] exists = "unknown" -> "reserved"

Decided(res) ==
  /\ phase = "failover" /\ Returns(res)
  /\ ~GoesOn(res) /\ ~res.retry
  /\ Settle([status |-> StatusOf(res.exists), sub |-> res.sub, mx |-> Host,
             accessible |-> Public(res).accessible])

-----------------------------------------------------------------------------
(* The greylist retry, of the recorded host only.                            *)

StartRetry ==
  /\ phase = "parked"
  /\ phase' = "retry"
  /\ NewCall
  /\ UNCHANGED <<mxHosts, acceptAll, mailbox, at, verdict, said, last>>

\* A defect: an inconclusive retry counts as a rejection.
RetryDecidesAll(res) ==
  /\ phase = "retry" /\ Returns(res)
  /\ Settle([verdict EXCEPT !.status = IF res.exists = "yes" THEN "valid" ELSE "invalid",
                            !.sub = res.sub])

RetryDecides(res) ==
  /\ phase = "retry" /\ Returns(res)
  /\ res.exists # "unknown"
  /\ Settle([verdict EXCEPT !.status = StatusOf(res.exists), !.sub = res.sub])

\* A defect: an inconclusive retry is parked again, without end.
RetryAgain(res) ==
  /\ phase = "retry" /\ Returns(res)
  /\ res.exists = "unknown"
  /\ phase' = "parked"
  /\ UNCHANGED <<at, rung, heard, verdict>>

\* Still reserved: scored with the others (Pipeline).
RetryInconclusive(res) ==
  /\ phase = "retry" /\ Returns(res)
  /\ res.exists = "unknown"
  /\ Settle(verdict)

-----------------------------------------------------------------------------
Attempt ==
  /\ phase \in Calls
  /\ \E res \in Results :
       /\ Hear(res)
       /\ \/ NextPort(res)
          \/ CatchAllYes(res) \/ CatchAllNo(res)
          \/ NextHost(res) \/ NoHost(res) \/ AskedToRetry(res) \/ Decided(res)
          \/ RetryDecides(res) \/ RetryInconclusive(res)
  /\ UNCHANGED world

Next == Attempt \/ StartRetry

Spec == Init /\ [][Next]_vars

\* Every attempt ends within the port budget (SmtpSession!Returns), and the
\* retry waits for a sleep of the event loop.
FairSpec == Spec /\ WF_vars(Next)

-----------------------------------------------------------------------------
(* Properties.                                                               *)

Statuses == {"pending", "reserved", "valid", "invalid"}

\* Every variable has a value of its kind, and the ladder never runs past
\* the bare domain (smtp.py:437-452).
TypeOK ==
  /\ mxHosts \in MxLists /\ acceptAll \subseteq Machines /\ mailbox \in Mailboxes
  /\ phase \in Calls \cup {"parked", "done"}
  /\ at \in 1 .. Len(mxHosts)
  /\ rung \in 1 .. Len(Ports) + 1
  /\ phase \in Calls => rung <= LastRung
  /\ heard \in BOOLEAN
  /\ verdict.status \in Statuses /\ verdict.mx \in {mxHosts[i] : i \in DOMAIN mxHosts}
  /\ verdict.accessible \in BOOLEAN

RealAnswers == {a \in said : ~a.fake}
Definite(a) == a.exists # "unknown"

\* runner.py:108-115, 251-256, 584-602: the first definite answer about the
\* address ends the search whatever was tried before it, is what the verdict
\* says, and is never overridden by a later attempt; an answer with a retry
\* code (452 "mailbox full") is the exception, it is asked again.
AnswerDecides ==
  \A a \in RealAnswers : Definite(a) /\ ~a.retry =>
    /\ phase = "done"
    /\ verdict.status = StatusOf(a.exists)

\* A verdict other than "reserved" rests on an answer to RCPT about this
\* address, given by the host it names or, when that host could not be
\* reached at all, by the bare domain.
VerdictHasAnswer ==
  verdict.status \in {"valid", "invalid"} =>
    \E a \in RealAnswers : a.exists = (IF verdict.status = "valid" THEN "yes" ELSE "no")
                           /\ a.by \in {verdict.mx, Domain}

\* runner.py:244-249: the retry goes back to the server that asked for it and
\* not to the first of the list (or to the host in whose stead the bare
\* domain asked).
RetryAsksTheGreylister ==
  phase \in {"parked", "retry"} => \E a \in RealAnswers : a.retry /\ a.by \in {verdict.mx, Domain}

\* A server that tells the truth is believed, and the catch-all probe protects
\* against the machine it got an answer from: an open mailbox is never
\* reported invalid, and another one is reported valid only on the word of a
\* machine that accepts everything and did not answer the probe
\* (smtp.py:464-471, runner.py:209-225).
HonestServersHonestVerdict ==
  /\ verdict.status = "invalid" => mailbox # "open"
  /\ verdict.status = "valid" /\ mailbox # "open" =>
       \E a \in RealAnswers : /\ a.exists = "yes" /\ a.by \in acceptAll
                              /\ ~\E f \in said : f.fake /\ f.by = a.by /\ Definite(f)

\* Every address is decided, however the servers fail.
Decides == <>(phase = "done")

-----------------------------------------------------------------------------
(* What the code says of itself.                                             *)

\* runner.py:107: "fall through only on TCP-level failure".
FailoverOnlyOnTcpFailure ==
  [][phase = "failover" /\ at' # at => FallsThrough(last') \/ last' = Raised]_vars

\* scoring_core.py:26: a "catch-all server accepts every address - proves
\* nothing", so an address without a mailbox is not valid on the word of one.
ConfirmationProves == verdict.status = "valid" => mailbox = "open"
=============================================================================
