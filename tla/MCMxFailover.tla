---------------------------- MODULE MCMxFailover ----------------------------
(* Instances of MxFailover: two MX hosts, or one that is the bare domain.    *)
EXTENDS MxFailover

CONSTANTS mx1, mx2

MCLists == { <<mx1, mx2>>, <<Domain, mx1>> }

MCSoftReplies ==
  { <<451, {}>>, <<554, {}>>, <<550, {"ipReputation"}>> }
=============================================================================
