----------------------------- MODULE JobCounts -----------------------------
(* The count fields of one job record (app/store/jobs.py): the five statuses *)
(* a result can have, the derived field "processed", and the two fields      *)
(* Stage 4 adds.  Pure operators; Pipeline applies them to its variable.     *)
EXTENDS Integers, FiniteSets

\* VALID_STATUSES: every status string that is a count field.
Statuses == {"valid", "invalid", "reserved", "do_not_use", "duplicate"}

CountFields == Statuses \cup {"processed", "promoted_to_valid", "demoted_to_invalid"}

\* The counts of a record that `create` has just built ("total" never changes
\* and is the parameter `total` below).
NewCounts == [f \in CountFields |-> 0]

Tallied(c) ==
  c["valid"] + c["invalid"] + c["reserved"] + c["do_not_use"] + c["duplicate"]

\* "processed" as increment_count recomputes it: the tally, never above total.
Processed(total, c) == IF Tallied(c) <= total THEN Tallied(c) ELSE total

Recount(total, c) == [c EXCEPT !["processed"] = Processed(total, c)]

\* increment_count(id, field, amount).  `amount` calls that each add 1 leave
\* the same record as one call that adds `amount`.
IncrementCount(total, c, field, amount) == Recount(total, [c EXCEPT ![field] = @ + amount])

\* apply_score_count over a set of scored results: `promoted` of them become
\* valid, `demoted` become invalid, `dropped` become invalid with neither flag.
\* Its calls of increment_count commute, and "processed" follows the last one.
ApplyScoreCounts(total, c, promoted, demoted, dropped) ==
  Recount(total, [c EXCEPT !["promoted_to_valid"]  = @ + promoted,
                           !["demoted_to_invalid"] = @ + demoted,
                           !["reserved"]           = @ - (promoted + demoted + dropped),
                           !["valid"]              = @ + promoted,
                           !["invalid"]            = @ + (demoted + dropped)])
=============================================================================
