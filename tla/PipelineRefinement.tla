------------------------- MODULE PipelineRefinement -------------------------
(* run_pipeline implements BatchVerdicts: forget where an email is and keep  *)
(* the status of its result, the five status counts and whether the job has  *)
(* ended.                                                                    *)
EXTENDS Pipeline

Abstract == INSTANCE BatchVerdicts WITH
              Entry   <- Email,
              outcome <- [i \in Email |-> verdict[i].status],
              tally   <- [s \in Statuses |-> counts[s]],
              job     <- IF status \in {"complete", "failed"} THEN status ELSE "running"

\* The pipeline keeps every promise of the abstract job, the end included.
ImplementsBatchVerdicts == Abstract!FairSpec
=============================================================================
