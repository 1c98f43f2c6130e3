------------------------------ MODULE MCSyntax ------------------------------
(* The instance of Syntax that TLC checks: "gm" and "gmgg" are Gmail's     *)
(* two domains, the others are as close to each other as mail.com, gmail.com *)
(* and email.com are.                                                        *)
EXTENDS Syntax

MCProviders == <<<<"g", "m">>, <<"g", "m", "g", "g">>, <<"m">>, <<"m", "m", "m">>>>
MCGmailNames == {<<"g", "m">>, <<"g", "m", "g", "g">>}
=============================================================================
