--------------------------- MODULE MCPatternStore ---------------------------
(* Instances of PatternStore: two jobs and two domains.  A plan follows the  *)
(* order of run_pipeline: all record_valid, then a batch's record_reserved   *)
(* and its snapshot, then those of the greylisted addresses.                 *)
EXTENDS PatternStore

CONSTANTS j1, j2, d1, d2, f1, f2

Valid(d, f) == [op |-> "valid", domain |-> d, format |-> f]
Res(d) == [op |-> "reserved", domain |-> d, format |-> f1]
Snap(d) == [op |-> "snapshot", domain |-> d, format |-> f1]

MCPlans == { <<Valid(d1, f1), Valid(d1, f2), Res(d1), Snap(d1)>>,
             <<Valid(d1, f2), Res(d2), Res(d1), Snap(d2), Snap(d1)>>,
             <<Res(d1), Res(d2), Snap(d1), Snap(d2)>>,
             <<Valid(d2, f1), Res(d2), Snap(d2), Res(d2), Snap(d2)>> }
=============================================================================
