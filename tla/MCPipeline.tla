----------------------------- MODULE MCPipeline -----------------------------
(* Instances of Pipeline for TLC: four addresses at two domains.             *)
EXTENDS PipelineRefinement

CONSTANTS big, small,              \* domains: the first has two addresses
          ann, bob, dee, cy,       \* addresses that pass Stage 1
          trap, role, disp,        \* addresses a list check settles
          bad, odd, glitch         \* malformed, unstorable, faulty

MCDomain == {big, small}
MCAddress == {ann, bob, dee, cy, trap, role, disp, bad, odd, glitch}
MCDomainOf == [a \in MCAddress |-> IF a \in {cy, disp, glitch} THEN small ELSE big]

MCTraits ==
  [a \in MCAddress |->
     CASE a = trap -> {"spam_trap", "role_rejected"}
       [] a = role -> {"role_rejected"}
       [] a = disp -> {"disposable", "role_rejected"}
       [] a = bad -> {"malformed"}
       [] a = odd -> {"malformed", "unstorable"}
       [] a = glitch -> {"faulty"}
       [] OTHER -> {}]

MCMailboxLimit == [d \in MCDomain |-> IF d = big THEN 2 ELSE 1]

\* With the reputation switch on: three emails of one domain meet one of another; every Stage-1 outcome comes
\* before, between and after emails that go on.
MCPromoting == { <<ann, bob, cy, ann>>, <<glitch, ann, glitch, bob>>, <<trap, bad, ann, cy>>,
               <<role, disp, bob, cy>>, <<ann, odd, bob, cy>>, <<ann, bob, dee, cy>> }

\* And with the switch off, as config.py ships it.
MCBatches == MCPromoting \cup { <<bob, ann, cy, bob>>, <<dee, bob, ann, cy>> }
=============================================================================
