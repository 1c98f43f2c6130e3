---------------------------- MODULE MCResultFile ----------------------------
(* The instance of ResultFile that TLC checks: two spellings of one mailbox, *)
(* another mailbox and a text that is no address, in a file of four rows.    *)
EXTENDS ResultFile, TLC

CONSTANTS plain, alias, other, broken

MCTexts == {plain, alias, other, broken}
MCMailboxOf == (plain :> 1) @@ (alias :> 1) @@ (other :> 2) @@ (broken :> 3)
=============================================================================
