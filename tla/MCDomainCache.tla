--------------------------- MODULE MCDomainCache ---------------------------
(* Instances of DomainCache: two jobs and one domain, with a mail server or  *)
(* with an address only.                                                     *)
EXTENDS DomainCache, TLC

CONSTANTS c1, c2

MCZones == { [f \in Fields |-> f \in {"mx", "a", "ip", "whois"}] }

\* The jobs are alike, and no property names one.
MCSymmetry == Permutations(Callers)
=============================================================================
