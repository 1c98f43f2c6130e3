--------------------------- MODULE MCSmtpSession ---------------------------
(* Instances of SmtpSession: every mode of the port ladder, one RCPT reply   *)
(* of each class.                                                            *)
EXTENDS SmtpSession

MCModes == {"plain", "starttls", "implicit-tls"}

MCRcptReplies ==
  { <<250, {}>>, <<451, {}>>, <<451, {"mailboxNotFound"}>>, <<421, {}>>, <<452, {"mailboxFull"}>>,
    <<550, {"mailboxNotFound"}>>, <<550, {"mailboxNotFound", "ipReputation"}>>,
    <<550, {}>>, <<503, {}>>, <<554, {}>> }

MCFewReplies == { <<250, {}>>, <<550, {"mailboxNotFound"}>> }
=============================================================================
