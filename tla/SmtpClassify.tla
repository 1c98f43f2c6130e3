---------------------------- MODULE SmtpClassify ----------------------------
(* classify_smtp_response (app/checks/smtp.py): what one answer to RCPT says *)
(* about the mailbox.  A message is the set of keyword classes of            *)
(* CONFIG.smtpParser that its lower-cased text contains.                     *)
EXTENDS Integers

KeywordClass == {"mailboxNotFound", "mailboxFull", "mailboxDisabled", "mailboxSuspended",
                 "ipReputation", "policyRejection"}

\* `exists` of a result: True, False or None.
Existence == {"yes", "no", "unknown"}

RetryCodes == {421, 450, 451, 452}

Class(sub, exists) == [sub |-> sub, exists |-> exists]

\* A 550: the reason decides, in this order.  A word about the sender hides
\* only a missing mailbox, and both together say nothing.
ClassifyRejection(words) ==
  LET absent == "mailboxNotFound" \in words
      sender == "ipReputation" \in words
  IN  IF "mailboxFull" \in words THEN Class("mailbox_full", "no")
      ELSE IF "mailboxDisabled" \in words THEN Class("mailbox_disabled", "no")
      ELSE IF "mailboxSuspended" \in words THEN Class("mailbox_suspended", "no")
      ELSE IF sender /\ ~absent THEN Class("ip_reputation_block", "unknown")
      ELSE IF absent /\ ~sender THEN Class("mailbox_not_found", "no")
      ELSE IF ~absent /\ "policyRejection" \in words THEN Class("policy_rejection", "unknown")
      ELSE Class("ambiguous_rejection", "unknown")

Classify(code, words) ==
  IF code \in {250, 251} THEN Class("smtp_confirmed", "yes")
  ELSE IF code \in {551, 553} THEN Class("mailbox_not_found", "no")
  ELSE IF code = 550 THEN ClassifyRejection(words)
  ELSE IF code = 452 /\ "mailboxFull" \in words THEN Class("mailbox_full", "no")
  ELSE IF code \in RetryCodes THEN Class(IF code = 421 THEN "greylisted" ELSE "temp_error", "unknown")
  ELSE Class(IF code \in {503, 504} THEN "server_error" ELSE "smtp_connection_failed", "unknown")
=============================================================================
