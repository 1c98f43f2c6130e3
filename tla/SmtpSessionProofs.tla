--------------------------- MODULE SmtpSessionProofs ---------------------------
(* Theorems of SmtpClassify and SmtpSession.  Of classify_smtp_response: what*)
(* the order of its tests guarantees, for every reply code and every wording *)
(* (a server words its rejection freely, so a message is compared with any   *)
(* other one, or with the same one and one keyword more).  Of _do_smtp_check:*)
(* which reply is taken for the answer to RCPT and what is made of it, for   *)
(* every set of replies and every length of the inbox.  Progress is what the *)
(* client knows of itself, Wire what is true of the lines on their way.      *)
EXTENDS SmtpSession, SequenceTheorems, TLAPS

MailboxWords == {"mailboxNotFound", "mailboxFull", "mailboxDisabled", "mailboxSuspended"}
SenderWords == KeywordClass \ MailboxWords

-----------------------------------------------------------------------------
\* What is known of the mailbox for a given sub-status.
ExistenceOf(sub) ==
  IF sub = "smtp_confirmed" THEN "yes"
  ELSE IF sub \in {"mailbox_not_found", "mailbox_full", "mailbox_disabled", "mailbox_suspended"}
  THEN "no" ELSE "unknown"

\* smtp.py:54-95: the two fields of a classification agree.
LEMMA FieldsAgree ==
  ASSUME NEW code \in Int, NEW words \in SUBSET KeywordClass
  PROVE  Classify(code, words).exists = ExistenceOf(Classify(code, words).sub)
<1>1. ClassifyRejection(words).exists = ExistenceOf(ClassifyRejection(words).sub)
  BY DEF ClassifyRejection, Class, ExistenceOf
<1> QED
  BY <1>1 DEF Classify, Class, ExistenceOf

\* The sub-status alone tells what is known of the mailbox, whatever the code
\* and the words behind it: Stage 4 and the failover look at nothing else
\* (runner.py:111, scoring_core.py:111-114).
THEOREM SubStatusTellsExistence ==
  \A c1, c2 \in Int, w1, w2 \in SUBSET KeywordClass :
    Classify(c1, w1).sub = Classify(c2, w2).sub
      => Classify(c1, w1).exists = Classify(c2, w2).exists
BY FieldsAgree

\* smtp.py:73-85: what is said about the sender (a block list, a policy) never
\* condemns or confirms a mailbox that the rest of the message leaves open; it
\* may only take a verdict back.
THEOREM SenderWordsNeverDecide ==
  \A code \in Int, words \in SUBSET KeywordClass, w \in SenderWords :
    Classify(code, words).exists = "unknown" => Classify(code, words \cup {w}).exists = "unknown"
BY DEF Classify, ClassifyRejection, Class, SenderWords, MailboxWords, KeywordClass

\* smtp.py:73-85: one more complaint about the mailbox never clears a mailbox
\* that was condemned, although the first match in the chain of tests wins.
THEOREM MailboxWordsNeverClear ==
  \A code \in Int, words \in SUBSET KeywordClass, w \in MailboxWords :
    Classify(code, words).exists = "no" => Classify(code, words \cup {w}).exists = "no"
BY DEF Classify, ClassifyRejection, Class, MailboxWords

\* smtp.py:87-90, 356: the retry flag is set by the code alone and the verdict
\* by code and text.  A reply that asks the client to come back has decided
\* nothing but a full mailbox, and the failover, which goes on after
\* "smtp_connection_failed" (runner.py:111), never passes over it.
THEOREM RetryRepliesStayOpen ==
  \A code \in RetryCodes, words \in SUBSET KeywordClass :
    /\ Classify(code, words).exists # "unknown" => Classify(code, words).sub = "mailbox_full"
    /\ Classify(code, words).sub # "smtp_connection_failed"
BY DEF Classify, Class, RetryCodes

-----------------------------------------------------------------------------
(* The types of a conversation.                                              *)

LineType == [re : Nat, code : Int, words : SUBSET KeywordClass, cont : BOOLEAN, cap : BOOLEAN]

\* The commands sent are the beginning of the dialogue, and how far it is.
SentSoFar == sent \in Seq(Commands) /\ \A k \in 1 .. Len(sent) : sent[k] = Dialogue[k]
SentBefore == IF mode = "starttls" \/ step < 2 THEN step ELSE step - 2

\* Where the dialogue is while the call has not returned.
Position ==
  /\ step \in 0 .. 5 /\ Len(sent) = SentBefore /\ SentSoFar
  /\ step \in {2, 3} => mode = "starttls"
  /\ upgrading \in BOOLEAN
  /\ step < 2 \/ mode # "starttls" => upgrading = FALSE
  /\ step > 2 /\ mode = "starttls" => upgrading = TRUE

Progress ==
  /\ inbox \in Seq(LineType)
  /\ accessible \in BOOLEAN
  /\ mode \in {"plain", "starttls", "implicit-tls"}
  /\ answered \in Nat
  /\ link \in Links
  /\ result = NoResult <=> link # "closed"
  /\ link # "closed" =>
       /\ Position
       /\ step # 0 => accessible = TRUE
  /\ link = "connecting" => step = 0 /\ inbox = <<>> /\ answered = 0
  /\ link = "upgrading" => step = 2 /\ upgrading = TRUE /\ inbox # <<>> /\ ~Line.cont

\* Every reply the server has is a code and keywords.
LEMMA RepliesType ==
  ASSUME NEW cmd \in Commands \cup {"BANNER"}, NEW r \in Replies(cmd)
  PROVE  r[1] \in Int /\ r[2] \in SUBSET KeywordClass
<1>1. CASE cmd = "RCPT"
  BY <1>1, RepliesAssumption DEF Replies
<1>2. CASE cmd # "RCPT"
  <2>1. r \in {<<220, {}>>, <<554, {}>>, <<250, {}>>, <<502, {}>>, <<454, {}>>, <<451, {}>>,
               <<550, {"policyRejection"}>>, <<221, {}>>}
    BY <1>2 DEF Replies, Commands
  <2> QED
    BY <2>1 DEF KeywordClass
<1> QED
  BY <1>1, <1>2

\* The dialogue of each mode, and that its commands tell it.
LEMMA DialogueType ==
  /\ Dialogue \in Seq(Commands)
  /\ mode = "starttls" =>
       /\ Len(Dialogue) = 6
       /\ Dialogue[1] = "EHLO" /\ Dialogue[2] = "STARTTLS" /\ Dialogue[3] = "EHLO"
       /\ Dialogue[4] = "MAIL" /\ Dialogue[5] = "RCPT" /\ Dialogue[6] = "QUIT"
  /\ mode # "starttls" =>
       /\ Len(Dialogue) = 4
       /\ Dialogue[1] = "EHLO" /\ Dialogue[2] = "MAIL" /\ Dialogue[3] = "RCPT" /\ Dialogue[4] = "QUIT"
<1>1. <<"EHLO", "STARTTLS", "EHLO", "MAIL", "RCPT", "QUIT">> \in Seq(Commands)
  BY DEF Commands
<1>2. <<"EHLO", "MAIL", "RCPT", "QUIT">> \in Seq(Commands)
  BY DEF Commands
<1> QED
  BY <1>1, <1>2 DEF Dialogue

LEMMA WholeDialogue ==
  ASSUME SentSoFar, Len(sent) = Len(Dialogue)
  PROVE  sent = Dialogue
  BY DialogueType, SeqEqual DEF SentSoFar

\* The next command of the dialogue is sent.
LEMMA Sending ==
  ASSUME SentSoFar, NEW cmd \in Commands, cmd = Dialogue[Len(sent) + 1],
         sent' = Append(sent, cmd), mode' = mode
  PROVE  SentSoFar' /\ Len(sent') = Len(sent) + 1
<1>1. Dialogue' = Dialogue
  BY DEF Dialogue
<1>2. sent' \in Seq(Commands) /\ Len(sent') = Len(sent) + 1
      /\ \A k \in 1 .. Len(sent') : sent'[k] = IF k = Len(sent) + 1 THEN cmd ELSE sent[k]
  BY DEF SentSoFar
<1> QED
  BY <1>1, <1>2 DEF SentSoFar

\* The command a server is to answer is one the client sent.
LEMMA AskedType ==
  ASSUME Position, answered \in Nat, answered <= Len(sent)
  PROVE  Asked \in Commands \cup {"BANNER"}
  BY DEF Position, SentSoFar, Asked

\* A call that returns is over.
LEMMA ReturningProgress ==
  ASSUME Progress, result'.cause # "none", link' = "closed",
         UNCHANGED <<mode, answered, inbox>>, accessible' \in BOOLEAN
  PROVE  Progress'
  BY DEF Progress, Links, NoResult

LEMMA LineOfInbox ==
  ASSUME Progress, inbox # <<>>
  PROVE  /\ Line \in LineType /\ Tail(inbox) \in Seq(LineType)
         /\ Len(inbox) \in Nat \ {0} /\ Len(Tail(inbox)) = Len(inbox) - 1
         /\ \A k \in 1 .. Len(inbox) - 1 : Tail(inbox)[k] = inbox[k + 1]
         /\ Line = inbox[1]
  BY DEF Progress, Line

\* The server and the network do not move the client.
LEMMA ServerProgress ==
  ASSUME Progress, Server
  PROVE  Progress'
<1>1. CASE PeerCloses \/ ConnectionReset
  BY <1>1 DEF PeerCloses, ConnectionReset, Progress, Position, SentSoFar, SentBefore, Dialogue, Links, Line
<1>2. ASSUME NEW cont \in BOOLEAN, ServerLine(cont) PROVE Progress'
  <2>1. PICK r \in Replies(Asked), cap \in BOOLEAN :
          inbox' = Append(inbox, [re |-> answered, code |-> r[1], words |-> r[2],
                                  cont |-> cont, cap |-> cap])
    BY <1>2 DEF ServerLine
  <2>2. link = "open" /\ Position /\ answered \in Nat /\ answered <= Len(sent)
    BY <1>2 DEF ServerLine, Progress
  <2>3. r[1] \in Int /\ r[2] \in SUBSET KeywordClass
    BY <2>2, AskedType, RepliesType
  <2>4. inbox' \in Seq(LineType)
    <3>1. [re |-> answered, code |-> r[1], words |-> r[2], cont |-> cont, cap |-> cap] \in LineType
      BY <2>2, <2>3 DEF LineType
    <3> QED
      BY <2>1, <3>1 DEF Progress
  <2>5. answered' \in Nat
    BY <1>2, <2>2 DEF ServerLine
  <2> QED
    BY <1>2, <2>2, <2>4, <2>5 DEF ServerLine, Progress, Position, SentSoFar, SentBefore, Dialogue
<1>3. CASE Noise
  <2>1. link = "open" /\ answered \in Nat /\ inbox \in Seq(LineType)
    BY <1>3 DEF Noise, Progress
  <2>2. [re |-> answered, code |-> 0, words |-> {}, cont |-> TRUE, cap |-> FALSE] \in LineType
    BY <2>1 DEF LineType
  <2>3. inbox' \in Seq(LineType)
    BY <1>3, <2>1, <2>2 DEF Noise
  <2> QED
    BY <1>3, <2>1, <2>3 DEF Noise, Progress, Position, SentSoFar, SentBefore, Dialogue
<1> QED
  BY <1>1, <1>2, <1>3 DEF Server

\* The client takes the next line and sends the next command.
LEMMA AdvanceProgress ==
  ASSUME Progress, inbox # <<>>, NEW cmd, NEW next \in 1 .. 5, Advance(cmd, next),
         accessible' = TRUE, Position'
  PROVE  Progress'
<1>1. inbox' \in Seq(LineType) /\ link \in {"open", "eof"} /\ UNCHANGED <<mode, answered, link, result>>
  BY LineOfInbox DEF Advance, CanSend
<1> QED
  BY <1>1 DEF Progress, Advance

LEMMA ClientProgress ==
  ASSUME Progress, Client
  PROVE  Progress'
<1>0. accessible \in BOOLEAN
  BY DEF Progress
<1>1. CASE Connect
  BY <1>1 DEF Connect, Progress, Position, SentSoFar, SentBefore, Dialogue, Links
<1>2. CASE ConnectTimeout
  <2>1. result'.cause # "none" /\ link' = "closed" /\ UNCHANGED <<mode, answered, inbox>>
    BY <1>2 DEF ConnectTimeout, Return, Gave, NoResult
  <2>2. accessible' = accessible
    BY <1>2 DEF ConnectTimeout
  <2> QED
    BY <1>0, <2>1, <2>2, ReturningProgress
<1>15. CASE ConnectFails
  <2>1. result'.cause # "none" /\ link' = "closed" /\ UNCHANGED <<mode, answered, inbox>>
    BY <1>15 DEF ConnectFails, Return, Gave, NoResult
  <2>2. accessible' = accessible
    BY <1>15 DEF ConnectFails
  <2> QED
    BY <1>0, <2>1, <2>2, ReturningProgress
<1>3. CASE BannerAccepted
  <2>1. inbox # <<>> /\ Advance("EHLO", 1) /\ accessible' = TRUE /\ Position /\ step = 0
    BY <1>3 DEF BannerAccepted, HasLine, Progress
  <2>2. "EHLO" \in Commands /\ "EHLO" = Dialogue[Len(sent) + 1]
    BY <2>1, DialogueType DEF Position, SentBefore, Commands, Progress
  <2>3. SentSoFar' /\ Len(sent') = Len(sent) + 1
    BY <2>1, <2>2, Sending DEF Advance, Position
  <2>4. Position'
    BY <2>1, <2>3 DEF Position, SentBefore, Advance, Progress
  <2> QED
    BY <2>1, <2>4, AdvanceProgress
<1>4. CASE BannerRefused
  <2>1. result'.cause # "none" /\ link' = "closed" /\ UNCHANGED <<mode, answered, inbox>>
    BY <1>4 DEF BannerRefused, Return, Gave, NoResult
  <2> QED
    BY <1>4, <2>1, ReturningProgress DEF BannerRefused
<1>5. CASE Continuation
  <2>1. inbox # <<>> /\ inbox' \in Seq(LineType) /\ link \in {"open", "eof", "reset"}
    BY <1>5, LineOfInbox DEF Continuation, HasLine
  <2> QED
    BY <1>5, <2>1 DEF Continuation, Progress, Position, SentSoFar, SentBefore, Dialogue
<1>6. CASE EhloTls
  <2>1. /\ inbox # <<>> /\ Advance("STARTTLS", 2) /\ accessible' = TRUE /\ Position
        /\ step = 1 /\ mode = "starttls"
    BY <1>6 DEF EhloTls, FinalLine, HasLine, Progress
  <2>2. "STARTTLS" \in Commands /\ "STARTTLS" = Dialogue[Len(sent) + 1]
    BY <2>1, DialogueType DEF Position, SentBefore, Commands, Progress
  <2>3. SentSoFar' /\ Len(sent') = Len(sent) + 1
    BY <2>1, <2>2, Sending DEF Advance, Position
  <2>4. Position'
    BY <2>1, <2>3 DEF Position, SentBefore, Advance, Progress
  <2> QED
    BY <2>1, <2>4, AdvanceProgress
<1>7. CASE EhloNoTls \/ StarttlsRefused \/ TlsFails \/ ReadTimeout
  <2>1. result'.cause # "none" /\ link' = "closed" /\ UNCHANGED <<mode, answered, inbox>>
    BY <1>7 DEF EhloNoTls, StarttlsRefused, TlsFails, ReadTimeout, GiveUp, NoTls, Return, Gave, NoResult
  <2>2. accessible' = accessible
    BY <1>7 DEF EhloNoTls, StarttlsRefused, TlsFails, ReadTimeout, GiveUp
  <2> QED
    BY <1>0, <2>1, <2>2, ReturningProgress
<1>8. CASE EhloAccepted
  <2>1. /\ inbox # <<>> /\ Advance("MAIL", 4) /\ accessible' = TRUE /\ Position
        /\ (step = 1 /\ mode # "starttls") \/ step = 3
    BY <1>8 DEF EhloAccepted, EndOfEhlo, FinalLine, HasLine, Progress
  <2>2. "MAIL" \in Commands /\ "MAIL" = Dialogue[Len(sent) + 1]
    BY <2>1, DialogueType DEF Position, SentBefore, Commands, Progress
  <2>3. SentSoFar' /\ Len(sent') = Len(sent) + 1
    BY <2>1, <2>2, Sending DEF Advance, Position
  <2>4. Position'
    BY <2>1, <2>3 DEF Position, SentBefore, Advance, Progress
  <2> QED
    BY <2>1, <2>4, AdvanceProgress
<1>9. CASE EhloRefused \/ MailRefused
  <2>1. result'.cause # "none" /\ link' = "closed" /\ UNCHANGED <<mode, answered, inbox>>
    BY <1>9 DEF EhloRefused, MailRefused, GiveUpPolitely, Refused, Return, Gave, NoResult
  <2>2. accessible' = accessible
    BY <1>9 DEF EhloRefused, MailRefused, GiveUpPolitely
  <2> QED
    BY <1>0, <2>1, <2>2, ReturningProgress
<1>10. CASE StarttlsAccepted
  <2>1. inbox # <<>> /\ ~Line.cont /\ step = 2 /\ link \in {"open", "eof", "reset"} /\ upgrading' = TRUE
    BY <1>10 DEF StarttlsAccepted, FinalLine, HasLine
  <2>2. Position /\ Position'
    BY <1>10, <2>1 DEF StarttlsAccepted, Progress, Position, SentSoFar, SentBefore, Dialogue
  <2> QED
    BY <1>10, <2>1, <2>2 DEF StarttlsAccepted, Progress, Links, Line
<1>11. CASE TlsReady
  <2>1. inbox' \in Seq(LineType)
    BY <1>11 DEF TlsReady, Progress
  <2>2. Position /\ step = 2 /\ upgrading = TRUE /\ accessible = TRUE
    BY <1>11 DEF TlsReady, Progress
  <2>3. "EHLO" \in Commands /\ "EHLO" = Dialogue[Len(sent) + 1]
    BY <2>2, DialogueType DEF Position, SentBefore, Commands, Progress
  <2>4. SentSoFar' /\ Len(sent') = Len(sent) + 1
    BY <1>11, <2>2, <2>3, Sending DEF TlsReady, Position
  <2>5. Position'
    BY <1>11, <2>2, <2>4 DEF TlsReady, Position, SentBefore, Progress
  <2> QED
    BY <1>11, <2>1, <2>2, <2>5 DEF TlsReady, Progress, Links
<1>12. CASE MailAccepted
  <2>1. inbox # <<>> /\ Advance("RCPT", 5) /\ accessible' = TRUE /\ Position /\ step = 4
    BY <1>12 DEF MailAccepted, FinalLine, HasLine, Progress
  <2>2. "RCPT" \in Commands /\ "RCPT" = Dialogue[Len(sent) + 1]
    BY <2>1, DialogueType DEF Position, SentBefore, Commands, Progress
  <2>3. SentSoFar' /\ Len(sent') = Len(sent) + 1
    BY <2>1, <2>2, Sending DEF Advance, Position
  <2>4. Position'
    BY <2>1, <2>3 DEF Position, SentBefore, Advance, Progress
  <2> QED
    BY <2>1, <2>4, AdvanceProgress
<1>13. CASE RcptAnswered
  <2>1. result'.cause # "none" /\ link' = "closed" /\ UNCHANGED <<mode, answered, inbox>>
    BY <1>13 DEF RcptAnswered, GiveUpPolitely, Return, NoResult
  <2>2. accessible' = accessible
    BY <1>13 DEF RcptAnswered, GiveUpPolitely
  <2> QED
    BY <1>0, <2>1, <2>2, ReturningProgress
<1>14. CASE SocketError
  <2>1. result'.cause # "none" /\ link' = "closed" /\ UNCHANGED <<mode, answered, inbox>>
    BY <1>14 DEF SocketError, GiveUp, NoTls, Return, Gave, NoResult
  <2>2. accessible' = accessible
    BY <1>14 DEF SocketError, GiveUp
  <2> QED
    BY <1>0, <2>1, <2>2, ReturningProgress
<1> QED
  BY <1>1, <1>2, <1>3, <1>4, <1>5, <1>6, <1>7, <1>8, <1>9, <1>10, <1>11, <1>12, <1>13, <1>14, <1>15
     DEF Client, Bounded

\* The dialogue of a call: each command is sent where the steps of the code
\* stand, and a call that has returned does nothing more.
THEOREM ProgressInvariant == Spec => []Progress
<1>1. Init => Progress
  <2> SUFFICES ASSUME Init PROVE Progress
    OBVIOUS
  <2>0. upgrading \in BOOLEAN
    BY DEF Init
  <2>1. Position /\ inbox = <<>> /\ link = "connecting" /\ result = NoResult /\ answered = 0
        /\ accessible = FALSE /\ step = 0 /\ mode \in Modes
    BY <2>0 DEF Init, Position, SentSoFar, SentBefore
  <2>2. inbox \in Seq(LineType)
    BY <2>1
  <2> QED
    BY <2>1, <2>2, ModesAssumption DEF Progress, Links
<1>2. Progress /\ [Next]_vars => Progress'
  <2> SUFFICES ASSUME Progress, [Next]_vars PROVE Progress'
    OBVIOUS
  <2>1. CASE BudgetExpires
    <3>1. result'.cause # "none" /\ link' = "closed" /\ UNCHANGED <<mode, answered, inbox>>
      BY <2>1 DEF BudgetExpires, GiveUp, Return, Gave, NoResult
    <3> QED
      BY <2>1, <3>1, ReturningProgress DEF BudgetExpires, GiveUp, Progress
  <2>2. CASE UNCHANGED vars
    BY <2>2 DEF vars, Progress, Position, SentSoFar, SentBefore, Dialogue, Line
  <2> QED
    BY <2>1, <2>2, ServerProgress, ClientProgress DEF Next
<1> QED
  BY <1>1, <1>2, PTL DEF Spec

-----------------------------------------------------------------------------
(* Whose reply a line is.  From here on the greeting takes one line: when it *)
(* takes more, the client counts a line too many (see VerdictFromRcpt).      *)

\* A line waiting answers the last command, and once the reply is complete the
\* server has nothing more to say.
LineWire(k) ==
  /\ inbox[k].re = Len(sent)
  /\ inbox[k].cont => Len(sent) > 0 \/ inbox[k].code = 0
  /\ ~inbox[k].cont => k = Len(inbox) /\ answered = Len(sent) + 1
  /\ step = 5 /\ ~inbox[k].cont => <<inbox[k].code, inbox[k].words>> \in RcptReplies

Wire ==
  result = NoResult =>
    /\ answered \in {Len(sent), Len(sent) + 1}
    /\ \A k \in 1 .. Len(inbox) : LineWire(k)

\* A call that has returned is over.
LEMMA ClosedIsFinal ==
  ASSUME Progress, result # NoResult, [Next]_vars
  PROVE  UNCHANGED vars
<1>1. link = "closed" /\ ~HasLine /\ ~CanSend
  BY DEF Progress, HasLine, CanSend
<1>2. ~Server
  BY <1>1 DEF Server, ServerLine, Noise, PeerCloses, ConnectionReset
<1>3. ~(Connect \/ ConnectTimeout \/ ConnectFails \/ TlsReady \/ TlsFails \/ ReadTimeout \/ SocketError)
  BY <1>1 DEF Connect, ConnectTimeout, ConnectFails, TlsReady, TlsFails, ReadTimeout, SocketError
<1>4. ~(BannerAccepted \/ BannerRefused \/ Continuation)
  BY <1>1 DEF BannerAccepted, BannerRefused, Continuation
<1>5. ~(EhloTls \/ EhloNoTls \/ EhloAccepted \/ EhloRefused)
  BY <1>1 DEF EhloTls, EhloNoTls, EhloAccepted, EhloRefused, EndOfEhlo, FinalLine
<1>6. ~(StarttlsAccepted \/ StarttlsRefused \/ MailAccepted \/ MailRefused \/ RcptAnswered)
  BY <1>1 DEF StarttlsAccepted, StarttlsRefused, MailAccepted, MailRefused, RcptAnswered, FinalLine
<1>7. ~BudgetExpires
  BY DEF BudgetExpires
<1> QED
  BY <1>2, <1>3, <1>4, <1>5, <1>6, <1>7 DEF Next, Client, Bounded

\* The server adds a line to the reply it owes, and only to that one.
LEMMA ServerWire ==
  ASSUME MultiLineBanner = FALSE, Progress, Wire, Server
  PROVE  Wire'
<1>1. CASE PeerCloses \/ ConnectionReset
  BY <1>1 DEF PeerCloses, ConnectionReset, Wire, LineWire
<1>2. ASSUME NEW cont \in BOOLEAN, ServerLine(cont) PROVE Wire'
  <2>1. PICK r \in Replies(Asked), cap \in BOOLEAN :
          inbox' = Append(inbox, [re |-> answered, code |-> r[1], words |-> r[2],
                                  cont |-> cont, cap |-> cap])
    BY <1>2 DEF ServerLine
  <2> DEFINE l == [re |-> answered, code |-> r[1], words |-> r[2], cont |-> cont, cap |-> cap]
  <2>2. /\ link = "open" /\ Position /\ answered \in Nat /\ answered <= Len(sent)
        /\ inbox \in Seq(LineType) /\ result = NoResult /\ UNCHANGED <<step, sent, result, mode>>
    BY <1>2 DEF ServerLine, Progress
  <2>3. answered = Len(sent) /\ Len(sent) \in Nat
    BY <2>2 DEF Wire, Position, SentSoFar
  <2>4. \A k \in 1 .. Len(inbox) : inbox[k].cont /\ LineWire(k)
    BY <2>2, <2>3 DEF Wire, LineWire
  <2>5. cont => Len(sent) > 0
    BY <1>2, <2>3 DEF ServerLine
  <2>6. step = 5 => <<r[1], r[2]>> \in RcptReplies
    <3> SUFFICES ASSUME step = 5 PROVE <<r[1], r[2]>> \in RcptReplies
      OBVIOUS
    <3>1. Asked = "RCPT"
      BY <2>2, <2>3, DialogueType DEF Asked, Position, SentSoFar, SentBefore, Progress
    <3>2. r \in RcptReplies
      BY <3>1 DEF Replies
    <3> QED
      BY <3>2, RepliesAssumption
  <2>7. answered' = IF cont THEN answered ELSE answered + 1
    BY <1>2 DEF ServerLine
  <2>8. Len(inbox') = Len(inbox) + 1 /\ Len(inbox) \in Nat
        /\ \A k \in 1 .. Len(inbox') : inbox'[k] = IF k = Len(inbox) + 1 THEN l ELSE inbox[k]
    BY <2>1, <2>2
  <2>9. \A k \in 1 .. Len(inbox') : LineWire(k)'
    <3> SUFFICES ASSUME NEW k \in 1 .. Len(inbox') PROVE LineWire(k)'
      OBVIOUS
    <3>1. CASE k = Len(inbox) + 1
      <4>1. inbox'[k].re = Len(sent) /\ inbox'[k].cont = cont /\ inbox'[k].code = r[1]
            /\ inbox'[k].words = r[2]
        BY <2>3, <2>8, <3>1
      <4> QED
        BY <2>2, <2>3, <2>5, <2>6, <2>7, <2>8, <3>1, <4>1 DEF LineWire
    <3>2. CASE k # Len(inbox) + 1
      <4>1. k \in 1 .. Len(inbox) /\ inbox'[k] = inbox[k]
        BY <2>8, <3>2
      <4> QED
        BY <2>2, <2>4, <4>1 DEF LineWire
    <3> QED
      BY <3>1, <3>2
  <2> QED
    BY <2>2, <2>3, <2>7, <2>9 DEF Wire
<1>3. CASE Noise
  <2>1. /\ link = "open" /\ Position /\ answered \in Nat /\ answered <= Len(sent)
        /\ inbox \in Seq(LineType) /\ result = NoResult /\ UNCHANGED <<answered, step, sent, result, mode>>
    BY <1>3 DEF Noise, Progress
  <2>2. answered = Len(sent) /\ Len(sent) \in Nat
    BY <2>1 DEF Wire, Position, SentSoFar
  <2>3. \A k \in 1 .. Len(inbox) : inbox[k].cont /\ LineWire(k)
    BY <2>1, <2>2 DEF Wire, LineWire
  <2> DEFINE l == [re |-> answered, code |-> 0, words |-> {}, cont |-> TRUE, cap |-> FALSE]
  <2>4. Len(inbox') = Len(inbox) + 1 /\ Len(inbox) \in Nat
        /\ \A k \in 1 .. Len(inbox') : inbox'[k] = IF k = Len(inbox) + 1 THEN l ELSE inbox[k]
    BY <1>3, <2>1 DEF Noise
  <2>5. \A k \in 1 .. Len(inbox') : LineWire(k)'
    <3> SUFFICES ASSUME NEW k \in 1 .. Len(inbox') PROVE LineWire(k)'
      OBVIOUS
    <3>1. CASE k = Len(inbox) + 1
      <4>1. inbox'[k].re = Len(sent) /\ inbox'[k].cont = TRUE /\ inbox'[k].code = 0
        BY <2>2, <2>4, <3>1
      <4> QED
        BY <2>1, <4>1 DEF LineWire
    <3>2. CASE k # Len(inbox) + 1
      <4>1. k \in 1 .. Len(inbox) /\ inbox'[k] = inbox[k]
        BY <2>4, <3>2
      <4> QED
        BY <2>1, <2>3, <4>1 DEF LineWire
    <3> QED
      BY <3>1, <3>2
  <2> QED
    BY <2>1, <2>2, <2>5 DEF Wire
<1> QED
  BY <1>1, <1>2, <1>3 DEF Server

\* The last line of a reply is the only line there is, and completes the reply
\* to the last command; the first line of the greeting is its last.
LEMMA LastLine ==
  ASSUME Progress, Wire, result = NoResult, inbox # <<>>,
         ~Line.cont \/ (step = 0 /\ Line.code # 0)
  PROVE  /\ Len(inbox) = 1 /\ Tail(inbox) = <<>>
         /\ answered = Len(sent) + 1 /\ Line.re = Len(sent) /\ Len(sent) \in Nat
         /\ step = 5 => <<Line.code, Line.words>> \in RcptReplies
<1>1. Position /\ inbox \in Seq(LineType) /\ Len(Tail(inbox)) = Len(inbox) - 1
      /\ Tail(inbox) \in Seq(LineType)
  BY LineOfInbox DEF Progress
<1>2. Len(sent) \in Nat /\ (step = 0 => Len(sent) = 0)
  BY <1>1 DEF Position, SentSoFar, SentBefore
<1>3. Line = inbox[1] /\ 1 \in 1 .. Len(inbox)
  BY LineOfInbox
<1>4. LineWire(1)
  BY <1>3 DEF Wire
<1>5. ~inbox[1].cont
  <2>1. CASE ~Line.cont
    BY <1>3, <2>1
  <2>2. CASE step = 0 /\ Line.code # 0
    BY <1>2, <1>3, <1>4, <2>2 DEF LineWire
  <2> QED
    BY <2>1, <2>2
<1>6. Len(inbox) = 1 /\ answered = Len(sent) + 1 /\ inbox[1].re = Len(sent)
      /\ (step = 5 => <<inbox[1].code, inbox[1].words>> \in RcptReplies)
  BY <1>4, <1>5 DEF LineWire
<1>7. Tail(inbox) = <<>>
  <2>1. \A t \in Seq(LineType) : Len(t) = 0 => t = <<>>
    BY EmptySeq
  <2>2. Len(Tail(inbox)) = 0
    BY <1>1, <1>6
  <2> QED
    BY <1>1, <2>1, <2>2
<1> QED
  BY <1>2, <1>3, <1>6, <1>7

LEMMA AdvanceWire ==
  ASSUME Progress, Wire, HasLine, ~Line.cont \/ (step = 0 /\ Line.code # 0),
         NEW cmd, NEW next, Advance(cmd, next)
  PROVE  Wire'
<1>1. result = NoResult /\ inbox # <<>> /\ sent \in Seq(Commands)
  BY DEF Progress, HasLine, Position, SentSoFar
<1>2. Tail(inbox) = <<>> /\ answered = Len(sent) + 1
  BY <1>1, LastLine
<1>3. inbox' = <<>> /\ answered' = Len(sent) + 1 /\ Len(sent') = Len(sent) + 1
  BY <1>1, <1>2 DEF Advance
<1> QED
  BY <1>3 DEF Wire

LEMMA ClientWire ==
  ASSUME Progress, Progress', Wire, Client
  PROVE  Wire'
<1> SUFFICES ASSUME result' = NoResult PROVE Wire'
  BY DEF Wire
<1>0. link' # "closed"
  BY DEF Progress
<1>1. CASE Connect
  BY <1>1 DEF Connect, Wire, LineWire
<1>2. CASE BannerAccepted
  BY <1>2, AdvanceWire DEF BannerAccepted
<1>3. CASE EhloTls \/ EhloAccepted \/ MailAccepted
  <2>1. HasLine /\ ~Line.cont /\ \E cmd \in Commands, next \in 1 .. 5 : Advance(cmd, next)
    BY <1>3 DEF EhloTls, EhloAccepted, EndOfEhlo, MailAccepted, FinalLine, Commands
  <2> QED
    BY <2>1, AdvanceWire
<1>4. CASE Continuation
  <2>1. /\ HasLine /\ Line.cont /\ inbox' = Tail(inbox) /\ inbox # <<>>
        /\ UNCHANGED <<step, sent, answered, result>>
    BY <1>4 DEF Continuation, HasLine
  <2>2. /\ Len(inbox) \in Nat \ {0} /\ Len(inbox') = Len(inbox) - 1
        /\ \A k \in 1 .. Len(inbox) - 1 : inbox'[k] = inbox[k + 1]
    BY <2>1, LineOfInbox
  <2>3. result = NoResult /\ answered' \in {Len(sent'), Len(sent') + 1}
    BY <2>1 DEF Wire
  <2>4. ASSUME NEW k \in 1 .. Len(inbox') PROVE LineWire(k)'
    <3>1. k + 1 \in 1 .. Len(inbox) /\ inbox'[k] = inbox[k + 1]
      BY <2>2
    <3>2. LineWire(k + 1)
      BY <2>3, <3>1 DEF Wire
    <3>3. /\ inbox'[k].re = Len(sent')
          /\ inbox'[k].cont => Len(sent') > 0 \/ inbox'[k].code = 0
      BY <2>1, <3>1, <3>2 DEF LineWire
    <3>4. ~inbox'[k].cont => k = Len(inbox') /\ answered' = Len(sent') + 1
      <4> SUFFICES ASSUME ~inbox'[k].cont PROVE k = Len(inbox') /\ answered' = Len(sent') + 1
        OBVIOUS
      <4>1. ~inbox[k + 1].cont
        BY <3>1
      <4>2. k + 1 = Len(inbox) /\ answered = Len(sent) + 1
        BY <3>2, <4>1 DEF LineWire
      <4>3. k \in Int /\ Len(inbox) \in Int
        BY <2>2
      <4>4. k = Len(inbox')
        BY <2>2, <4>2, <4>3
      <4> QED
        BY <2>1, <4>2, <4>4
    <3>5. step' = 5 /\ ~inbox'[k].cont => <<inbox'[k].code, inbox'[k].words>> \in RcptReplies
      BY <2>1, <3>1, <3>2 DEF LineWire
    <3> QED
      BY <3>3, <3>4, <3>5 DEF LineWire
  <2> QED
    BY <2>3, <2>4 DEF Wire
<1>5. CASE StarttlsAccepted
  BY <1>5 DEF StarttlsAccepted, Wire, LineWire
<1>6. CASE TlsReady
  <2>1. link = "upgrading" /\ inbox # <<>> /\ ~Line.cont /\ result = NoResult /\ Position
    BY <1>6 DEF TlsReady, Progress
  <2>3. Len(inbox) = 1 /\ answered = Len(sent) + 1
    BY <2>1, LastLine
  <2>4. inbox' = <<>>
    BY <1>6, <2>3 DEF TlsReady, Progress
  <2>5. Len(sent') = Len(sent) + 1 /\ answered' = answered
    BY <1>6, <2>1 DEF TlsReady, Position, SentSoFar
  <2> QED
    BY <2>3, <2>4, <2>5 DEF Wire
<1>7. CASE ConnectTimeout \/ ConnectFails \/ BannerRefused \/ RcptAnswered
  BY <1>0, <1>7 DEF ConnectTimeout, ConnectFails, BannerRefused, RcptAnswered, GiveUpPolitely, Return
<1>8. CASE EhloNoTls \/ EhloRefused \/ StarttlsRefused \/ TlsFails \/ MailRefused \/ ReadTimeout
           \/ SocketError
  BY <1>0, <1>8 DEF EhloNoTls, EhloRefused, StarttlsRefused, TlsFails, MailRefused, ReadTimeout,
                    SocketError, GiveUp, GiveUpPolitely, Return
<1> QED
  BY <1>1, <1>2, <1>3, <1>4, <1>5, <1>6, <1>7, <1>8 DEF Client, Bounded

\* Wire holds of every conversation with a server that greets in one line.
THEOREM WireInvariant ==
  ASSUME MultiLineBanner = FALSE
  PROVE  Spec => []Wire
<1>1. Init => Wire
  BY DEF Init, Wire
<1>2. Progress /\ Progress' /\ Wire /\ [Next]_vars => Wire'
  <2> SUFFICES ASSUME Progress, Progress', Wire, [Next]_vars PROVE Wire'
    OBVIOUS
  <2>1. CASE BudgetExpires
    BY <2>1 DEF BudgetExpires, GiveUp, Return, Progress, Wire
  <2>2. CASE UNCHANGED vars
    BY <2>2 DEF vars, Wire, LineWire
  <2> QED
    BY <2>1, <2>2, ServerWire, ClientWire DEF Next
<1> QED
  BY <1>1, <1>2, ProgressInvariant, PTL DEF Spec

\* smtp.py:276-356: client and server agree on what is being answered, for
\* every set of replies and as many lines as a reply may take.
THEOREM DialogueInStep ==
  ASSUME MultiLineBanner = FALSE
  PROVE  Spec => []LockStep
<1>1. Wire => LockStep
  BY DEF Wire, LineWire, LockStep, Expected
<1> QED
  BY <1>1, WireInvariant, PTL

-----------------------------------------------------------------------------
(* What a call returns.                                                      *)

\* A result without an answer: nothing is known, or the connection failed, or
\* a STARTTLS port gave no TLS.
ReturnsNoAnswer ==
  /\ result'.code = 0 /\ result'.exists = "unknown" /\ result'.retry = FALSE
  /\ UNCHANGED <<mode, step>>
  /\ result'.sub \in {"smtp_timeout", "smtp_connection_failed"} /\ result'.accessible \in BOOLEAN
  /\ \/ result'.tcpFailed = FALSE /\ result'.tlsFailed = FALSE
     \/ /\ result'.tcpFailed = TRUE /\ result'.tlsFailed = FALSE
        /\ result'.sub = "smtp_connection_failed" /\ result'.accessible = FALSE
        /\ step # 0 => result'.cause = "error"
     \/ /\ result'.tcpFailed = FALSE /\ result'.tlsFailed = TRUE
        /\ result'.sub = "smtp_connection_failed" /\ result'.accessible = TRUE
        /\ mode = "starttls" /\ (step > 3 => result'.cause = "error")

\* Every exit but the answer to RCPT is one of these.
LEMMA HowItReturns ==
  ASSUME Progress, result = NoResult, [Next]_vars
  PROVE  result' = NoResult \/ RcptAnswered \/ ReturnsNoAnswer
<1>0. accessible \in BOOLEAN /\ Position /\ (step # 0 => accessible = TRUE) /\ step \in 0 .. 5
  BY DEF Progress, Position
<1>1. CASE ConnectTimeout
  BY <1>1 DEF ConnectTimeout, Return, Gave, NoResult, ReturnsNoAnswer
<1>2. CASE ConnectFails
  <2>1. step = 0
    BY <1>2 DEF ConnectFails, Progress
  <2> QED
    BY <1>2, <2>1 DEF ConnectFails, Return, Gave, NoResult, ReturnsNoAnswer
<1>3. CASE BannerRefused
  BY <1>3 DEF BannerRefused, Return, Gave, NoResult, ReturnsNoAnswer
<1>4. CASE EhloRefused \/ MailRefused
  <2>1. Return(Refused)
    BY <1>4 DEF EhloRefused, MailRefused, GiveUpPolitely
  <2>2. result'.accessible = accessible
    BY <2>1 DEF Refused, Return, Gave, NoResult
  <2> QED
    BY <1>0, <2>1, <2>2 DEF Refused, Return, Gave, NoResult, ReturnsNoAnswer
<1>5. CASE ReadTimeout
  BY <1>0, <1>5 DEF ReadTimeout, GiveUp, Return, Gave, NoResult, ReturnsNoAnswer
<1>6. CASE EhloNoTls \/ StarttlsRefused \/ TlsFails
  <2>1. mode = "starttls" /\ step \in {1, 2} /\ accessible = TRUE
    BY <1>0, <1>6 DEF EhloNoTls, StarttlsRefused, TlsFails, FinalLine, Progress, Position
  <2>2. result'.accessible = accessible /\ result'.code = 0 /\ result'.exists = "unknown"
    BY <1>6 DEF EhloNoTls, StarttlsRefused, TlsFails, GiveUp, NoTls, Return, Gave, NoResult
  <2>3. /\ result'.retry = FALSE /\ result'.sub = "smtp_connection_failed" /\ UNCHANGED <<mode, step>>
        /\ result'.tcpFailed = FALSE /\ result'.tlsFailed = TRUE
    BY <1>6 DEF EhloNoTls, StarttlsRefused, TlsFails, GiveUp, NoTls, Return, Gave, NoResult
  <2> QED
    BY <2>1, <2>2, <2>3 DEF ReturnsNoAnswer
<1>7. CASE SocketError
  <2>1. CASE upgrading = TRUE
    <3>1. mode = "starttls" /\ accessible = TRUE
      BY <1>0, <2>1 DEF Position
    <3> QED
      BY <1>7, <2>1, <3>1 DEF SocketError, GiveUp, NoTls, Return, Gave, NoResult, ReturnsNoAnswer
  <2>2. CASE ~upgrading
    BY <1>7, <2>2 DEF SocketError, GiveUp, Return, Gave, NoResult, ReturnsNoAnswer
  <2>3. upgrading \in BOOLEAN
    BY <1>0 DEF Position
  <2> QED
    BY <2>1, <2>2, <2>3
<1>8. CASE BudgetExpires
  BY <1>8 DEF BudgetExpires, GiveUp, Return, Gave, NoResult, ReturnsNoAnswer
<1>9. CASE Server \/ Connect \/ BannerAccepted \/ Continuation
  BY <1>9 DEF Server, ServerLine, Noise, PeerCloses, ConnectionReset, Connect, BannerAccepted, Advance,
              Continuation
<1>10. CASE EhloTls \/ EhloAccepted \/ StarttlsAccepted \/ TlsReady \/ MailAccepted
  BY <1>10 DEF EhloTls, EhloAccepted, StarttlsAccepted, TlsReady, MailAccepted, Advance
<1>11. CASE UNCHANGED vars
  BY <1>11 DEF vars
<1> QED
  BY <1>1, <1>2, <1>3, <1>4, <1>5, <1>6, <1>7, <1>8, <1>9, <1>10, <1>11 DEF Next, Client, Bounded

\* smtp.py:276-434: the flags that send check_mailbox to the next port never
\* come with an answer of the mailbox or a request to come back, nor together,
\* whatever the server sends and however its greeting is laid out.
THEOREM FallThroughHasNoAnswer == Spec => []FallThroughIsNoAnswer
<1>1. Init => FallThroughIsNoAnswer
  BY DEF Init, NoResult, FallThroughIsNoAnswer
<1>2. Progress /\ FallThroughIsNoAnswer /\ [Next]_vars => FallThroughIsNoAnswer'
  <2> SUFFICES ASSUME Progress, FallThroughIsNoAnswer, [Next]_vars PROVE FallThroughIsNoAnswer'
    OBVIOUS
  <2>1. CASE result # NoResult
    <3>1. UNCHANGED vars
      BY <2>1, ClosedIsFinal
    <3> QED
      BY <3>1 DEF vars, FallThroughIsNoAnswer
  <2>2. CASE result' = NoResult
    BY <2>2 DEF NoResult, FallThroughIsNoAnswer
  <2>3. CASE RcptAnswered
    <3>1. result'.tcpFailed = FALSE /\ result'.tlsFailed = FALSE
      BY <2>3 DEF RcptAnswered, GiveUpPolitely, Return, NoResult
    <3> QED
      BY <3>1 DEF FallThroughIsNoAnswer
  <2>4. CASE ReturnsNoAnswer
    <3>1. step \in 0 .. 5 \/ result # NoResult
      BY DEF Progress, Position
    <3> QED
      BY <2>1, <2>4, <3>1 DEF ReturnsNoAnswer, FallThroughIsNoAnswer
  <2> QED
    BY <2>1, <2>2, <2>3, <2>4, HowItReturns
<1> QED
  BY <1>1, <1>2, ProgressInvariant, PTL DEF Spec

\* smtp.py:343-356: a mailbox is judged by the answer to RCPT and only after
\* the whole dialogue of the mode, on a STARTTLS port only inside TLS, and by a
\* server that had greeted, whatever the server sends.
THEOREM VerdictAfterDialogue ==
  ASSUME MultiLineBanner = FALSE
  PROVE  Spec => []VerdictNeedsDialogue
<1>1. Init => VerdictNeedsDialogue
  BY DEF Init, NoResult, VerdictNeedsDialogue
<1>2. Progress /\ Wire /\ VerdictNeedsDialogue /\ [Next]_vars => VerdictNeedsDialogue'
  <2> SUFFICES ASSUME Progress, Wire, VerdictNeedsDialogue, [Next]_vars PROVE VerdictNeedsDialogue'
    OBVIOUS
  <2>1. CASE result # NoResult
    <3>1. UNCHANGED vars
      BY <2>1, ClosedIsFinal
    <3> QED
      BY <3>1 DEF vars, VerdictNeedsDialogue, VerdictFromRcpt, Dialogue
  <2>2. CASE result' = NoResult
    BY <2>2 DEF NoResult, VerdictNeedsDialogue
  <2>3. CASE result = NoResult /\ RcptAnswered
    <3>1. /\ HasLine /\ ~Line.cont /\ step = 5 /\ inbox # <<>> /\ Position
          /\ accessible = TRUE /\ mode \in {"plain", "starttls", "implicit-tls"}
      BY <2>3 DEF RcptAnswered, FinalLine, HasLine, Progress
    <3>2. Line.re = Len(sent)
      BY <2>3, <3>1, LastLine
    <3>3. /\ sent' = Append(sent, "QUIT") /\ result'.re = Line.re /\ UNCHANGED <<mode, upgrading>>
      BY <2>3 DEF RcptAnswered, GiveUpPolitely, Return, NoResult
    <3>4. result'.accessible = TRUE
      <4>1. result'.accessible = accessible
        BY <2>3 DEF RcptAnswered, GiveUpPolitely, Return, NoResult
      <4> QED
        BY <3>1, <4>1
    <3>5. /\ "QUIT" \in Commands /\ "QUIT" = Dialogue[Len(sent) + 1] /\ Len(Dialogue) = Len(sent) + 1
          /\ sent[Len(sent)] = "RCPT" /\ Len(sent) \in Nat \ {0} /\ sent \in Seq(Commands)
      BY <3>1, DialogueType DEF Position, SentSoFar, SentBefore, Commands
    <3>6. SentSoFar' /\ Len(sent') = Len(sent) + 1
      BY <3>1, <3>3, <3>5, Sending DEF Position
    <3>7. Dialogue' = Dialogue
      BY <3>3 DEF Dialogue
    <3>8. sent' = Dialogue'
      <4>1. sent' \in Seq(Commands) /\ \A k \in 1 .. Len(sent') : sent'[k] = Dialogue[k]
        BY <3>6, <3>7 DEF SentSoFar
      <4> QED
        BY <3>5, <3>6, <3>7, <4>1, DialogueType, SeqEqual
    <3>9. sent'[result'.re] = "RCPT"
      BY <3>2, <3>3, <3>5
    <3>10. upgrading' = (mode' = "starttls")
      <4>1. CASE mode = "starttls"
        <5>1. upgrading = TRUE
          BY <3>1, <4>1 DEF Position
        <5>2. upgrading' = TRUE /\ mode' = "starttls"
          BY <3>3, <4>1, <5>1
        <5> QED
          BY <5>2
      <4>2. CASE mode # "starttls"
        BY <3>1, <3>3, <4>2 DEF Position
      <4> QED
        BY <4>1, <4>2
    <3> QED
      BY <3>4, <3>8, <3>9, <3>10 DEF VerdictNeedsDialogue, VerdictFromRcpt
  <2>4. CASE ReturnsNoAnswer
    BY <2>4 DEF ReturnsNoAnswer, VerdictNeedsDialogue
  <2> QED
    BY <2>1, <2>2, <2>3, <2>4, HowItReturns
<1> QED
  BY <1>1, <1>2, ProgressInvariant, WireInvariant, PTL DEF Spec

-----------------------------------------------------------------------------
(* PortAttempt, what the port ladder and the failover are built on.          *)

AttemptFields == {"sub", "exists", "retry", "accessible", "tcpFailed", "tlsFailed"}

LEMMA FieldsOf ==
  ASSUME NEW r
  PROVE  [f \in AttemptFields |-> r[f]]
           = [sub |-> r.sub, exists |-> r.exists, retry |-> r.retry, accessible |-> r.accessible,
              tcpFailed |-> r.tcpFailed, tlsFailed |-> r.tlsFailed]
  BY DEF AttemptFields

\* smtp.py:243-434: whatever the server sends, the conversation returns one of
\* the results of PortAttempt and no other.
THEOREM ConversationIsAttempt ==
  ASSUME MultiLineBanner = FALSE
  PROVE  Spec => []ResultIsAttempt
<1>1. Init => ResultIsAttempt
  BY DEF Init, ResultIsAttempt
<1>2. Progress /\ Wire /\ ResultIsAttempt /\ [Next]_vars => ResultIsAttempt'
  <2> SUFFICES ASSUME Progress, Wire, ResultIsAttempt, [Next]_vars PROVE ResultIsAttempt'
    OBVIOUS
  <2> DEFINE projected == [sub |-> result'.sub, exists |-> result'.exists, retry |-> result'.retry,
                           accessible |-> result'.accessible, tcpFailed |-> result'.tcpFailed,
                           tlsFailed |-> result'.tlsFailed]
  <2>0. projected \in AttemptResults(mode', RcptReplies) => ResultIsAttempt'
    BY FieldsOf DEF AttemptFields, ResultIsAttempt
  <2>1. CASE result # NoResult
    <3>1. UNCHANGED vars
      BY <2>1, ClosedIsFinal
    <3> QED
      BY <3>1 DEF vars, ResultIsAttempt
  <2>2. CASE result' = NoResult
    BY <2>2 DEF ResultIsAttempt
  <2>3. CASE result = NoResult /\ RcptAnswered
    <3>1. HasLine /\ ~Line.cont /\ step = 5 /\ inbox # <<>> /\ accessible = TRUE
      BY <2>3 DEF RcptAnswered, FinalLine, HasLine, Progress
    <3>2. <<Line.code, Line.words>> \in RcptReplies
      BY <2>3, <3>1, LastLine
    <3>3. projected = Answered(<<Line.code, Line.words>>)
      BY <2>3, <3>1 DEF RcptAnswered, GiveUpPolitely, Return, NoResult, Answered
    <3>4. projected \in AttemptResults(mode', RcptReplies)
      BY <3>2, <3>3 DEF AttemptResults
    <3> QED
      BY <2>0, <3>4
  <2>4. CASE ReturnsNoAnswer
    <3>1. projected \in AttemptResults(mode', RcptReplies)
      BY <2>4 DEF ReturnsNoAnswer, AttemptResults, TimedOut, TurnedAway, NotReached, TlsMissing, NoAnswer
    <3> QED
      BY <2>0, <3>1
  <2> QED
    BY <2>1, <2>2, <2>3, <2>4, HowItReturns
<1> QED
  BY <1>1, <1>2, ProgressInvariant, WireInvariant, PTL DEF Spec
=============================================================================
