---------------------------- MODULE BatchVerdicts ----------------------------
(* What a validation job promises, without stages, domains or coroutines:    *)
(* every entry of the batch gets one verdict; only "reserved" is provisional,*)
(* and it is settled, if at all, once every entry has a verdict; the counts  *)
(* are at every moment those of the verdicts; the job ends, and it fails only*)
(* while some entry has no verdict.                                          *)
EXTENDS JobCounts

CONSTANT Entry      \* the positions of the batch

VARIABLES outcome,  \* the status of each entry, "none" before it has one
          tally,    \* how many entries have each status
          job       \* "running", "complete" or "failed"

vars == <<outcome, tally, job>>

TallyOf(o) == [s \in Statuses |-> Cardinality({e \in Entry : o[e] = s})]

Pending == {e \in Entry : outcome[e] = "none"}

Init ==
  /\ outcome = [e \in Entry |-> "none"]
  /\ tally = TallyOf(outcome)
  /\ job = "running"

\* Some entries, and no others, change from `from` to a status of `to`.
Move(from, to) ==
  /\ outcome' \in [Entry -> Statuses \cup {"none"}]
  /\ outcome' # outcome
  /\ \A e \in Entry : outcome'[e] # outcome[e] => outcome[e] = from /\ outcome'[e] \in to
  /\ tally' = TallyOf(outcome')

\* Some entries get the same verdict at once (those of a domain, or one).
Report ==
  /\ job = "running"
  /\ \E s \in Statuses : Move("none", {s})
  /\ UNCHANGED job

\* Some reserved entries become valid and some invalid.
Resolve ==
  /\ job = "running"
  /\ Pending = {}
  /\ Move("reserved", {"valid", "invalid"})
  /\ UNCHANGED job

Finish ==
  /\ job = "running"
  /\ Pending = {}
  /\ job' = "complete"
  /\ UNCHANGED <<outcome, tally>>

Abort ==
  /\ job = "running"
  /\ Pending # {}
  /\ job' = "failed"
  /\ UNCHANGED <<outcome, tally>>

Next == Report \/ Resolve \/ Finish \/ Abort

Spec == Init /\ [][Next]_vars

\* A job that could end does.
FairSpec == Spec /\ WF_vars(Finish \/ Abort)
=============================================================================
