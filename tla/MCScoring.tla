------------------------------ MODULE MCScoring ------------------------------
(* The instance of Scoring that TLC checks: a local part for each class the  *)
(* name tests tell apart, and the mail hosts of the providers by list.       *)
EXTENDS Scoring

Shape(dot, dash, digit, vowels, length) ==
  [dot |-> dot, under |-> 0, dash |-> dash, digit |-> digit, sign |-> FALSE,
   vowels |-> vowels, length |-> length]

MCNames ==
  {Shape(1, 0, FALSE, TRUE, 10),     \* john.smith
   Shape(0, 0, FALSE, TRUE, 6),      \* jsmith
   Shape(0, 0, FALSE, TRUE, 9),      \* johnsmith
   Shape(1, 1, FALSE, TRUE, 34),     \* a long name with both separators
   Shape(0, 0, TRUE, FALSE, 24)}     \* xq7z9k2..., too long

\* Yahoo, Outlook, and a host of nobody's list: the worst, the best and none.
MCMailers == {{"honest"}, {"reputable", "defensive"}, {}}
=============================================================================
