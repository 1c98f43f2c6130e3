---------------------------- MODULE MxFailoverProofs ----------------------------
(* Theorems of MxFailover, for every list of mail servers, every set of them *)
(* that accepts any address, and every way in which an attempt may fail.     *)
EXTENDS MxFailover, TLAPS

-----------------------------------------------------------------------------
(* Lemmas about one attempt.                                                 *)

\* The control flow has no result but those of an attempt, and the flags that
\* lead to the next port never come with an answer to RCPT.
LEMMA AnswersComeFromReplies ==
  ASSUME NEW res \in Results, IsAnswer(res)
  PROVE  /\ ~FallsThrough(res)
         /\ \E r \in {HardReply} \cup SoftReplies : res = Answered(r)
  BY DEF Results, AttemptResults, TimedOut, TurnedAway, NotReached, TlsMissing, Raised, NoAnswer,
         IsAnswer, FallsThrough, Answered

\* A definite classification never looks like a failed connection.
LEMMA DefiniteIsNoFailure ==
  ASSUME NEW code, NEW words, Classify(code, words).exists # "unknown"
  PROVE  Classify(code, words).sub \notin {"smtp_connection_failed", "raised"}
  BY DEF Classify, ClassifyRejection, Class

\* Nor does a reply that asks to come back.
LEMMA RetryIsNoFailure ==
  ASSUME NEW code, NEW words, code \in RetryCodes
  PROVE  Classify(code, words).sub \notin {"smtp_connection_failed", "raised"}
  BY DEF Classify, Class, RetryCodes

\* The hard reply of a machine tells the truth about what is asked of it.
LEMMA HardReplyIsTrue ==
  ASSUME mailbox \in Mailboxes
  PROVE  /\ Target \in acceptAll \/ Behind = "open" => Classify(HardReply[1], HardReply[2]).exists = "yes"
         /\ ~(Target \in acceptAll \/ Behind = "open") => Classify(HardReply[1], HardReply[2]).exists = "no"
<1>1. Behind \in {"open", "full", "absent"}
  BY DEF Behind, Mailboxes
<1>2. CASE Target \in acceptAll \/ Behind = "open"
  <2>1. HardReply = <<250, {}>>
    BY <1>2 DEF HardReply
  <2> QED
    BY <1>2, <2>1 DEF Classify, Class
<1>3. CASE Target \notin acceptAll /\ Behind = "full"
  <2>1. HardReply = <<452, {"mailboxFull"}>>
    BY <1>3 DEF HardReply
  <2> QED
    BY <1>3, <2>1 DEF Classify, Class
<1>4. CASE Target \notin acceptAll /\ Behind = "absent"
  <2>1. HardReply = <<550, {"mailboxNotFound"}>>
    BY <1>4 DEF HardReply
  <2> QED
    BY <1>4, <2>1 DEF Classify, ClassifyRejection, Class
<1> QED
  BY <1>1, <1>2, <1>3, <1>4

\* A definite answer is true of the machine that gave it.
LEMMA DefiniteAnswerIsTrue ==
  ASSUME mailbox \in Mailboxes, NEW res \in Results, res.exists # "unknown"
  PROVE  /\ res.exists \in {"yes", "no"}
         /\ res.exists = "yes" <=> Target \in acceptAll \/ Behind = "open"
         /\ res.sub \notin {"smtp_connection_failed", "raised"}
<1>1. PICK r \in {HardReply} \cup SoftReplies : res = Answered(r)
  BY AnswersComeFromReplies DEF IsAnswer
<1>2. res.exists = Classify(r[1], r[2]).exists /\ res.sub = Classify(r[1], r[2]).sub
  BY <1>1 DEF Answered
<1>3. r = HardReply
  BY <1>2, SoftRepliesAssumption
<1> QED
  BY <1>2, <1>3, HardReplyIsTrue, DefiniteIsNoFailure

\* The host of a call, and whom an attempt asks.
LEMMA WhoIsAsked ==
  /\ phase = "failover" => Host = mxHosts[at]
  /\ phase = "retry" => Host = verdict.mx
  /\ Target \in {Host, Domain}
<1>1. phase = "failover" => Host = mxHosts[at]
  BY DEF Host
<1>2. phase = "retry" => Host = verdict.mx
  BY DEF Host
<1> QED
  BY <1>1, <1>2 DEF Target

-----------------------------------------------------------------------------
(* Type correctness.                                                         *)

\* The verdict is a record of four fields.
VerdictRecord ==
  verdict \in [status : Statuses, sub : {verdict.sub}, mx : {mxHosts[i] : i \in DOMAIN mxHosts},
               accessible : BOOLEAN]

LEMMA RecordFields ==
  VerdictRecord => /\ verdict.status \in Statuses /\ verdict.accessible \in BOOLEAN
                   /\ verdict.mx \in {mxHosts[i] : i \in DOMAIN mxHosts}
  BY DEF VerdictRecord

\* What the callers of check_mailbox are told has the flags of a result.
LEMMA PublicFlags ==
  ASSUME NEW res \in Results, heard \in BOOLEAN
  PROVE  res.accessible \in BOOLEAN /\ Public(res).accessible \in BOOLEAN
<1>1. \/ \E r \in {HardReply} \cup SoftReplies : res = Answered(r)
      \/ \E b \in BOOLEAN : res = NoAnswer("smtp_timeout", b, FALSE, FALSE)
      \/ \E b \in BOOLEAN : res = NoAnswer("smtp_connection_failed", b, FALSE, FALSE)
      \/ res \in {NotReached, TlsMissing, Raised}
  BY DEF Results, AttemptResults, TimedOut, TurnedAway
<1>2. res.accessible \in BOOLEAN /\ "accessible" \in DOMAIN res
  <2>1. ASSUME NEW r, res = Answered(r)
        PROVE  res.accessible \in BOOLEAN /\ "accessible" \in DOMAIN res
    BY <2>1 DEF Answered
  <2>2. ASSUME NEW sub, NEW b \in BOOLEAN, NEW t, NEW l, res = NoAnswer(sub, b, t, l)
        PROVE  res.accessible \in BOOLEAN /\ "accessible" \in DOMAIN res
    BY <2>2 DEF NoAnswer
  <2>3. res \in {NotReached, TlsMissing, Raised} =>
          \E b \in BOOLEAN, t, l \in BOOLEAN, sub \in {"smtp_connection_failed", "raised"} :
            res = NoAnswer(sub, b, t, l)
    BY DEF NotReached, TlsMissing, Raised
  <2> QED
    BY <1>1, <2>1, <2>2, <2>3
<1>3. (heard \/ res.accessible) \in BOOLEAN
  BY <1>2
<1>4. FallsThrough(res) => Public(res).accessible = (heard \/ res.accessible)
  BY DEF Public, NoAnswer
<1>5. ~FallsThrough(res) => Public(res).accessible = (heard \/ res.accessible)
  BY <1>2 DEF Public
<1> QED
  BY <1>2, <1>3, <1>4, <1>5

\* A domain has at least one mail server.
LEMMA ListOfHosts ==
  ASSUME mxHosts \in MxLists
  PROVE  /\ Len(mxHosts) \in Nat \ {0} /\ DOMAIN mxHosts = 1 .. Len(mxHosts)
         /\ Head(mxHosts) \in {mxHosts[i] : i \in DOMAIN mxHosts}
<1>1. mxHosts \in Seq(Machines) /\ mxHosts # <<>>
  BY MxListsAssumption
<1>2. Len(mxHosts) \in Nat \ {0} /\ DOMAIN mxHosts = 1 .. Len(mxHosts) /\ Head(mxHosts) = mxHosts[1]
  BY <1>1
<1> QED
  BY <1>2

LEMMA Rungs == Len(Ports) = 4 /\ LastRung \in {4, 5}
  BY DEF Ports, LastRung

\* Leaving the calls alone keeps everything but the verdict.
LEMMA SettleType ==
  ASSUME TypeOK, VerdictRecord, UNCHANGED <<mxHosts, acceptAll, mailbox, at, rung, heard>>,
         phase' \in {"parked", "done"},
         NEW s \in Statuses, NEW sub, NEW m \in {mxHosts[i] : i \in DOMAIN mxHosts},
         NEW acc \in BOOLEAN, verdict' = [status |-> s, sub |-> sub, mx |-> m, accessible |-> acc]
  PROVE  TypeOK' /\ VerdictRecord'
<1>1. VerdictRecord'
  BY DEF VerdictRecord
<1>2. TypeOK'
  BY DEF TypeOK, Calls
<1> QED
  BY <1>1, <1>2

\* A new call of check_mailbox.
LEMMA NewCallType ==
  ASSUME TypeOK, VerdictRecord, UNCHANGED <<mxHosts, acceptAll, mailbox, verdict>>, NewCall,
         phase' \in Calls, at' \in 1 .. Len(mxHosts)
  PROVE  TypeOK' /\ VerdictRecord'
<1>1. VerdictRecord'
  BY DEF VerdictRecord
<1>2. rung' = 1 /\ heard' = FALSE /\ (LastRung \in {4, 5})'
  <2>1. (LastRung \in {4, 5})'
    BY Rungs, PTL
  <2> QED
    BY <2>1 DEF NewCall
<1>3. rung' <= LastRung' /\ rung' \in 1 .. Len(Ports) + 1
  BY <1>2, Rungs
<1> QED
  BY <1>1, <1>2, <1>3 DEF TypeOK

LEMMA StatusOfType == \A e : StatusOf(e) \in Statuses \/ e \notin Existence
  BY DEF StatusOf, Statuses, Existence

LEMMA ResultExistence ==
  ASSUME mailbox \in Mailboxes, NEW res \in Results
  PROVE  res.exists \in Existence
  BY DefiniteAnswerIsTrue DEF Existence

LEMMA AttemptType ==
  ASSUME TypeOK, VerdictRecord, Attempt
  PROVE  TypeOK' /\ VerdictRecord'
<1>1. /\ mxHosts \in MxLists /\ mailbox \in Mailboxes /\ heard \in BOOLEAN
      /\ at \in 1 .. Len(mxHosts) /\ phase \in Calls
      /\ UNCHANGED <<mxHosts, acceptAll, mailbox>>
  BY DEF TypeOK, Attempt, world
<1>2. PICK res \in Results :
        \/ NextPort(res) \/ CatchAllYes(res) \/ CatchAllNo(res) \/ NextHost(res) \/ NoHost(res)
        \/ AskedToRetry(res) \/ Decided(res) \/ RetryDecides(res) \/ RetryInconclusive(res)
  BY DEF Attempt
<1>3. /\ Len(mxHosts) \in Nat \ {0} /\ DOMAIN mxHosts = 1 .. Len(mxHosts)
      /\ Head(mxHosts) \in {mxHosts[i] : i \in DOMAIN mxHosts}
      /\ phase = "failover" => Host \in {mxHosts[i] : i \in DOMAIN mxHosts}
  BY <1>1, ListOfHosts, WhoIsAsked
<1>4. res.accessible \in BOOLEAN /\ Public(res).accessible \in BOOLEAN /\ res.exists \in Existence
  BY <1>1, PublicFlags, ResultExistence
<1>5. CASE NextPort(res)
  <2>1. VerdictRecord'
    BY <1>1, <1>5 DEF NextPort, VerdictRecord
  <2>2. LastRung' = LastRung
    BY <1>1, <1>5 DEF NextPort, LastRung, Host
  <2>3. rung' \in 1 .. Len(Ports) + 1 /\ rung' <= LastRung'
    BY <1>5, <2>2, Rungs DEF NextPort, TypeOK
  <2>4. heard' \in BOOLEAN
    BY <1>4, <1>5 DEF NextPort, TypeOK
  <2> QED
    BY <1>1, <1>5, <2>1, <2>3, <2>4 DEF NextPort, TypeOK
<1>6. CASE CatchAllYes(res) \/ NoHost(res) \/ AskedToRetry(res)
  BY <1>1, <1>3, <1>6, SettleType
     DEF CatchAllYes, NoHost, AskedToRetry, Settle, Reserved, Statuses
<1>7. CASE CatchAllNo(res) \/ NextHost(res)
  BY <1>1, <1>3, <1>7, NewCallType DEF CatchAllNo, NextHost, Calls
<1>8. CASE Decided(res)
  <2>1. StatusOf(res.exists) \in Statuses
    BY <1>4, StatusOfType
  <2> QED
    BY <1>1, <1>3, <1>4, <1>8, <2>1, SettleType DEF Decided, Settle
<1>9. CASE RetryDecides(res)
  <2>1. StatusOf(res.exists) \in Statuses
    BY <1>4, StatusOfType
  <2>2. verdict' = [status |-> StatusOf(res.exists), sub |-> res.sub, mx |-> verdict.mx,
                    accessible |-> verdict.accessible]
    BY <1>9 DEF RetryDecides, Settle, VerdictRecord
  <2> QED
    BY <1>1, <1>9, <2>1, <2>2, RecordFields, SettleType DEF RetryDecides, Settle
<1>10. CASE RetryInconclusive(res)
  <2>1. verdict' = [status |-> verdict.status, sub |-> verdict.sub, mx |-> verdict.mx,
                    accessible |-> verdict.accessible]
    BY <1>10 DEF RetryInconclusive, Settle, VerdictRecord
  <2> QED
    BY <1>1, <1>10, <2>1, RecordFields, SettleType DEF RetryInconclusive, Settle
<1> QED
  BY <1>2, <1>5, <1>6, <1>7, <1>8, <1>9, <1>10

\* Every variable keeps its type, and no ladder runs past the bare domain.
THEOREM TypeInvariant == Spec => [](TypeOK /\ VerdictRecord)
<1>1. Init => TypeOK /\ VerdictRecord
  <2> SUFFICES ASSUME Init PROVE TypeOK /\ VerdictRecord
    OBVIOUS
  <2>1. mxHosts \in MxLists
    BY DEF Init
  <2>2. /\ Len(mxHosts) \in Nat \ {0} /\ Head(mxHosts) \in {mxHosts[i] : i \in DOMAIN mxHosts}
        /\ LastRung \in {4, 5} /\ Len(Ports) = 4
    BY <2>1, ListOfHosts, Rungs
  <2>3. VerdictRecord
    BY <2>2 DEF Init, Pending, VerdictRecord, Statuses
  <2>4. verdict.status \in Statuses /\ verdict.mx \in {mxHosts[i] : i \in DOMAIN mxHosts}
        /\ verdict.accessible \in BOOLEAN
    BY <2>3, RecordFields
  <2>5. rung = 1 /\ at = 1 /\ heard = FALSE /\ phase = "catch_all" /\ mailbox \in Mailboxes
        /\ acceptAll \subseteq Machines
    BY DEF Init
  <2>6. at \in 1 .. Len(mxHosts) /\ rung \in 1 .. Len(Ports) + 1 /\ rung <= LastRung
    BY <2>2, <2>5
  <2>7. heard \in BOOLEAN /\ phase \in Calls \cup {"parked", "done"}
    BY <2>5 DEF Calls
  <2> QED
    BY <2>1, <2>3, <2>4, <2>5, <2>6, <2>7 DEF TypeOK
<1>2. TypeOK /\ VerdictRecord /\ [Next]_vars => (TypeOK /\ VerdictRecord)'
  <2> SUFFICES ASSUME TypeOK, VerdictRecord, [Next]_vars PROVE TypeOK' /\ VerdictRecord'
    OBVIOUS
  <2>1. CASE StartRetry
    BY <2>1, NewCallType DEF StartRetry, Calls, TypeOK
  <2>2. CASE UNCHANGED vars
    BY <2>2 DEF vars, TypeOK, VerdictRecord, LastRung, Host
  <2> QED
    BY <2>1, <2>2, AttemptType DEF Next
<1> QED
  BY <1>1, <1>2, PTL DEF Spec

-----------------------------------------------------------------------------
(* Answers and verdicts.                                                     *)

\* What an attempt adds to the history.
Fresh(res) == [by |-> Target, fake |-> phase = "catch_all", exists |-> res.exists,
               retry |-> res.retry]

LEMMA Hearing ==
  ASSUME NEW res, Hear(res)
  PROVE  /\ IsAnswer(res) => said' = said \cup {Fresh(res)}
         /\ ~IsAnswer(res) => said' = said
  BY DEF Hear, Fresh

\* The first definite answer about the address ends the search.
LEMMA AnswerDecidesStep ==
  ASSUME TypeOK, VerdictRecord, AnswerDecides, Attempt
  PROVE  AnswerDecides'
<1>1. PICK res \in Results :
        /\ Hear(res)
        /\ \/ NextPort(res) \/ CatchAllYes(res) \/ CatchAllNo(res) \/ NextHost(res) \/ NoHost(res)
           \/ AskedToRetry(res) \/ Decided(res) \/ RetryDecides(res) \/ RetryInconclusive(res)
  BY DEF Attempt
<1>2. phase \in Calls /\ mailbox \in Mailboxes
  BY DEF Attempt, TypeOK
<1>3. \A a \in said : ~a.fake => ~Definite(a) \/ a.retry
  BY <1>2 DEF AnswerDecides, RealAnswers, Calls
<1>4. ASSUME ~Fresh(res).fake, Definite(Fresh(res)), ~Fresh(res).retry
      PROVE  phase' = "done" /\ verdict'.status = StatusOf(res.exists)
  <2>1. phase # "catch_all" /\ res.exists # "unknown" /\ ~res.retry
    BY <1>4 DEF Fresh, Definite
  <2>2. ~FallsThrough(res) /\ res.sub \notin {"smtp_connection_failed", "raised"}
    BY <1>2, <2>1, AnswersComeFromReplies, DefiniteAnswerIsTrue DEF IsAnswer
  <2>3. ~GoesOn(res)
    <3>1. PICK r \in {HardReply} \cup SoftReplies : res = Answered(r)
      BY <2>1, AnswersComeFromReplies DEF IsAnswer
    <3>2. Public(res).sub = res.sub
      BY <2>2, <3>1 DEF Public, Answered
    <3> QED
      BY <2>2, <3>2 DEF GoesOn
  <2>4. Decided(res) \/ RetryDecides(res)
    BY <1>1, <2>1, <2>2, <2>3 DEF NextPort, CatchAllYes, CatchAllNo, NextHost, NoHost,
                                  AskedToRetry, RetryInconclusive
  <2>5. CASE Decided(res)
    BY <2>5 DEF Decided, Settle
  <2>6. CASE RetryDecides(res)
    BY <2>6 DEF RetryDecides, Settle, VerdictRecord
  <2> QED
    BY <2>4, <2>5, <2>6
<1>5. ASSUME NEW a \in said', ~a.fake, Definite(a), ~a.retry
      PROVE  phase' = "done" /\ verdict'.status = StatusOf(a.exists)
  <2>1. a = Fresh(res)
    BY <1>1, <1>3, <1>5, Hearing
  <2> QED
    BY <1>4, <1>5, <2>1 DEF Fresh
<1> QED
  BY <1>5 DEF AnswerDecides, RealAnswers, Definite

\* The first definite answer to RCPT about the address is the verdict: no
\* later attempt, at another port, host or time, overrides it (runner.py,
\* _check_mailbox_with_failover and retry_one).
THEOREM FirstAnswerDecides == Spec => []AnswerDecides
<1>1. Init => AnswerDecides
  BY DEF Init, AnswerDecides, RealAnswers
<1>2. TypeOK /\ VerdictRecord /\ AnswerDecides /\ [Next]_vars => AnswerDecides'
  <2> SUFFICES ASSUME TypeOK, VerdictRecord, AnswerDecides, [Next]_vars PROVE AnswerDecides'
    OBVIOUS
  <2>1. CASE StartRetry
    BY <2>1 DEF StartRetry, AnswerDecides, RealAnswers
  <2>2. CASE UNCHANGED vars
    BY <2>2 DEF vars, AnswerDecides, RealAnswers
  <2> QED
    BY <2>1, <2>2, AnswerDecidesStep DEF Next
<1> QED
  BY <1>1, <1>2, TypeInvariant, PTL DEF Spec

\* An answer of the address is one of the verdict's host, or of the domain.
LEMMA FreshAnswer ==
  ASSUME NEW res, Hear(res), IsAnswer(res), phase \in {"failover", "retry"},
         NEW m, Host = m
  PROVE  /\ Fresh(res) \in said' /\ Fresh(res).by \in {m, Domain}
         /\ ~Fresh(res).fake /\ Fresh(res).exists = res.exists /\ Fresh(res).retry = res.retry
  BY Hearing, WhoIsAsked DEF Fresh

\* What stays said, and is still about the address.
LEMMA SaidGrows ==
  ASSUME [Next]_vars
  PROVE  said \subseteq said'
  BY Hearing DEF Next, Attempt, StartRetry, vars

\* A verdict that says something rests on an answer that says it.
LEMMA VerdictHasAnswerStep ==
  ASSUME TypeOK, VerdictRecord, VerdictHasAnswer, Attempt
  PROVE  VerdictHasAnswer'
<1>1. PICK res \in Results :
        /\ Hear(res)
        /\ \/ NextPort(res) \/ CatchAllYes(res) \/ CatchAllNo(res) \/ NextHost(res) \/ NoHost(res)
           \/ AskedToRetry(res) \/ Decided(res) \/ RetryDecides(res) \/ RetryInconclusive(res)
  BY DEF Attempt
<1>2. said \subseteq said' /\ mailbox \in Mailboxes
  BY <1>1, Hearing DEF TypeOK
<1>3. CASE verdict' = verdict
  BY <1>2, <1>3 DEF VerdictHasAnswer, RealAnswers
<1>4. CASE CatchAllYes(res) \/ NoHost(res) \/ AskedToRetry(res)
  BY <1>4 DEF CatchAllYes, NoHost, AskedToRetry, Settle, Reserved, VerdictHasAnswer
<1>5. CASE Decided(res) \/ RetryDecides(res)
  <2>1. /\ phase \in {"failover", "retry"} /\ verdict'.mx = Host
        /\ verdict'.status = StatusOf(res.exists)
    <3>1. CASE Decided(res)
      BY <3>1 DEF Decided, Settle
    <3>2. CASE RetryDecides(res)
      BY <3>2, WhoIsAsked DEF RetryDecides, Settle, VerdictRecord
    <3> QED
      BY <1>5, <3>1, <3>2
  <2>2. res.exists \in {"yes", "no", "unknown"}
    BY <1>2, ResultExistence DEF Existence
  <2>3. CASE res.exists = "unknown"
    BY <2>1, <2>3 DEF StatusOf, VerdictHasAnswer
  <2>4. CASE res.exists \in {"yes", "no"}
    <3>1. IsAnswer(res)
      BY <2>4 DEF IsAnswer
    <3>2. /\ Fresh(res) \in said' /\ Fresh(res).by \in {verdict'.mx, Domain}
          /\ ~Fresh(res).fake /\ Fresh(res).exists = res.exists
      BY <1>1, <2>1, <3>1, FreshAnswer
    <3>3. res.exists = (IF verdict'.status = "valid" THEN "yes" ELSE "no")
      BY <2>1, <2>4 DEF StatusOf
    <3> QED
      BY <3>2, <3>3 DEF VerdictHasAnswer, RealAnswers
  <2> QED
    BY <2>2, <2>3, <2>4
<1>6. NextPort(res) \/ CatchAllNo(res) \/ NextHost(res) \/ RetryInconclusive(res) => verdict' = verdict
  BY DEF NextPort, CatchAllNo, NextHost, RetryInconclusive, Settle
<1> QED
  BY <1>1, <1>3, <1>4, <1>5, <1>6

\* "valid" and "invalid" rest on an answer to RCPT about this address, of the
\* host the verdict names or of the bare domain asked in its stead.
THEOREM VerdictsHaveAnswers == Spec => []VerdictHasAnswer
<1>1. Init => VerdictHasAnswer
  BY DEF Init, Pending, VerdictHasAnswer
<1>2. TypeOK /\ VerdictRecord /\ VerdictHasAnswer /\ [Next]_vars => VerdictHasAnswer'
  <2> SUFFICES ASSUME TypeOK, VerdictRecord, VerdictHasAnswer, [Next]_vars PROVE VerdictHasAnswer'
    OBVIOUS
  <2>1. CASE StartRetry \/ UNCHANGED vars
    BY <2>1 DEF StartRetry, vars, VerdictHasAnswer, RealAnswers
  <2> QED
    BY <2>1, VerdictHasAnswerStep DEF Next
<1> QED
  BY <1>1, <1>2, TypeInvariant, PTL DEF Spec

\* An address waits for its second try because a server asked for it.
LEMMA RetryAsksStep ==
  ASSUME RetryAsksTheGreylister, Attempt
  PROVE  RetryAsksTheGreylister'
<1>1. PICK res \in Results :
        /\ Hear(res)
        /\ \/ NextPort(res) \/ CatchAllYes(res) \/ CatchAllNo(res) \/ NextHost(res) \/ NoHost(res)
           \/ AskedToRetry(res) \/ Decided(res) \/ RetryDecides(res) \/ RetryInconclusive(res)
  BY DEF Attempt
<1>2. CASE AskedToRetry(res)
  <2>1. phase = "failover" /\ IsAnswer(res) /\ res.retry /\ verdict'.mx = Host
    BY <1>2 DEF AskedToRetry, IsAnswer, Reserved
  <2>2. /\ Fresh(res) \in said' /\ Fresh(res).by \in {verdict'.mx, Domain}
        /\ ~Fresh(res).fake /\ Fresh(res).retry
    BY <1>1, <2>1, FreshAnswer
  <2> QED
    BY <2>2 DEF RetryAsksTheGreylister, RealAnswers
<1>3. CASE NextPort(res)
  BY <1>1, <1>3, Hearing DEF NextPort, RetryAsksTheGreylister, RealAnswers
<1>4. CASE \/ CatchAllYes(res) \/ CatchAllNo(res) \/ NextHost(res) \/ NoHost(res)
           \/ Decided(res) \/ RetryDecides(res) \/ RetryInconclusive(res)
  BY <1>4 DEF CatchAllYes, CatchAllNo, NextHost, NoHost, Decided, RetryDecides, RetryInconclusive,
              Settle, RetryAsksTheGreylister
<1> QED
  BY <1>1, <1>2, <1>3, <1>4

\* The greylist retry goes back to the server that asked for it, or to the
\* host in whose stead the bare domain asked (runner.py, retry_queue).
THEOREM RetryGoesBack == Spec => []RetryAsksTheGreylister
<1>1. Init => RetryAsksTheGreylister
  BY DEF Init, RetryAsksTheGreylister
<1>2. RetryAsksTheGreylister /\ [Next]_vars => RetryAsksTheGreylister'
  <2> SUFFICES ASSUME RetryAsksTheGreylister, [Next]_vars PROVE RetryAsksTheGreylister'
    OBVIOUS
  <2>1. CASE StartRetry \/ UNCHANGED vars
    BY <2>1 DEF StartRetry, vars, RetryAsksTheGreylister, RealAnswers
  <2> QED
    BY <2>1, RetryAsksStep DEF Next
<1> QED
  BY <1>1, <1>2, PTL DEF Spec

-----------------------------------------------------------------------------
(* Honest servers.                                                           *)

\* A definite answer says what its machine does: it accepts every address, or
\* it tells whether the mailbox is open.
AnswersAreTrue ==
  \A a \in said : Definite(a) =>
    /\ a.exists \in {"yes", "no"}
    /\ a.exists = "yes" <=> a.by \in acceptAll \/ (~a.fake /\ mailbox = "open")

\* A confirmed probe of the made-up address ends the search without a verdict.
ProbeProtects ==
  \A f \in said : f.fake /\ f.exists = "yes" => phase = "done" /\ verdict.status = "reserved"

LEMMA AnswersAreTrueStep ==
  ASSUME TypeOK, AnswersAreTrue, Attempt
  PROVE  AnswersAreTrue'
<1>1. PICK res \in Results : Hear(res)
  BY DEF Attempt
<1>2. UNCHANGED <<mailbox, acceptAll>> /\ mailbox \in Mailboxes
  BY DEF Attempt, world, TypeOK
<1>3. ASSUME Definite(Fresh(res))
      PROVE  /\ Fresh(res).exists \in {"yes", "no"}
             /\ Fresh(res).exists = "yes" <=>
                  Fresh(res).by \in acceptAll \/ (~Fresh(res).fake /\ mailbox = "open")
  <2>1. res.exists # "unknown"
    BY <1>3 DEF Definite, Fresh
  <2>2. /\ res.exists \in {"yes", "no"}
        /\ res.exists = "yes" <=> Target \in acceptAll \/ Behind = "open"
    BY <1>2, <2>1, DefiniteAnswerIsTrue
  <2>3. Behind = "open" <=> phase # "catch_all" /\ mailbox = "open"
    BY DEF Behind
  <2> QED
    BY <2>2, <2>3 DEF Fresh
<1>4. \A a \in said' : a \in said \/ a = Fresh(res)
  BY <1>1, Hearing
<1> QED
  BY <1>2, <1>3, <1>4 DEF AnswersAreTrue, Definite

LEMMA ProbeProtectsStep ==
  ASSUME TypeOK, ProbeProtects, Attempt
  PROVE  ProbeProtects'
<1>1. PICK res \in Results :
        /\ Hear(res)
        /\ \/ NextPort(res) \/ CatchAllYes(res) \/ CatchAllNo(res) \/ NextHost(res) \/ NoHost(res)
           \/ AskedToRetry(res) \/ Decided(res) \/ RetryDecides(res) \/ RetryInconclusive(res)
  BY DEF Attempt
<1>2. phase \in Calls
  BY DEF Attempt
<1>3. \A f \in said : ~(f.fake /\ f.exists = "yes")
  BY <1>2 DEF ProbeProtects, Calls
<1>4. ASSUME NEW f \in said', f.fake, f.exists = "yes"
      PROVE  phase' = "done" /\ verdict'.status = "reserved"
  <2>1. f = Fresh(res)
    BY <1>1, <1>3, <1>4, Hearing
  <2>2. phase = "catch_all" /\ res.exists = "yes"
    BY <1>4, <2>1 DEF Fresh
  <2>3. ~FallsThrough(res)
    BY <2>2, AnswersComeFromReplies DEF IsAnswer
  <2>4. CatchAllYes(res)
    BY <1>1, <2>2, <2>3 DEF NextPort, CatchAllNo, NextHost, NoHost, AskedToRetry, Decided,
                            RetryDecides, RetryInconclusive
  <2> QED
    BY <2>4 DEF CatchAllYes, Settle, Reserved
<1> QED
  BY <1>4 DEF ProbeProtects

LEMMA HonestStep ==
  ASSUME TypeOK, AnswersAreTrue, ProbeProtects, [Next]_vars
  PROVE  AnswersAreTrue' /\ ProbeProtects'
<1>1. CASE StartRetry \/ UNCHANGED vars
  BY <1>1 DEF StartRetry, vars, AnswersAreTrue, ProbeProtects
<1> QED
  BY <1>1, AnswersAreTrueStep, ProbeProtectsStep DEF Next

\* An open mailbox is never reported invalid, and another one is reported
\* valid only on the word of a machine that accepts everything and that did
\* not answer the catch-all probe (smtp.py, check_catch_all).
THEOREM HonestVerdicts == Spec => []HonestServersHonestVerdict
<1>1. Init => AnswersAreTrue /\ ProbeProtects
  BY DEF Init, AnswersAreTrue, ProbeProtects
<1>2. AnswersAreTrue /\ ProbeProtects /\ VerdictHasAnswer => HonestServersHonestVerdict
  <2> SUFFICES ASSUME AnswersAreTrue, ProbeProtects, VerdictHasAnswer
               PROVE  HonestServersHonestVerdict
    OBVIOUS
  <2>1. ASSUME verdict.status = "invalid" PROVE mailbox # "open"
    <3>1. PICK a \in RealAnswers : a.exists = "no"
      BY <2>1 DEF VerdictHasAnswer
    <3> QED
      BY <3>1 DEF AnswersAreTrue, RealAnswers, Definite
  <2>2. ASSUME verdict.status = "valid", mailbox # "open"
        PROVE  \E a \in RealAnswers : /\ a.exists = "yes" /\ a.by \in acceptAll
                                      /\ ~\E f \in said : f.fake /\ f.by = a.by /\ Definite(f)
    <3>1. PICK a \in RealAnswers : a.exists = "yes"
      BY <2>2 DEF VerdictHasAnswer
    <3>2. a.by \in acceptAll
      BY <2>2, <3>1 DEF AnswersAreTrue, RealAnswers, Definite
    <3>3. ASSUME NEW f \in said, f.fake, f.by = a.by, Definite(f) PROVE FALSE
      <4>1. f.exists = "yes"
        BY <3>2, <3>3 DEF AnswersAreTrue
      <4> QED
        BY <2>2, <3>3, <4>1 DEF ProbeProtects
    <3> QED
      BY <3>1, <3>2, <3>3
  <2> QED
    BY <2>1, <2>2 DEF HonestServersHonestVerdict
<1> QED
  BY <1>1, <1>2, HonestStep, TypeInvariant, VerdictsHaveAnswers, PTL DEF Spec
=============================================================================
