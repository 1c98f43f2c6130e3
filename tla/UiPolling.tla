------------------------------ MODULE UiPolling ------------------------------
(* The Streamlit page and the job thread it watches (streamlit_app.py).      *)
(* The thread appends results and counts them in separate writes to the job  *)
(* record; the page script reads that record without a lock, field by field, *)
(* renders, reads the status again and reruns itself or stops.               *)
EXTENDS JobCounts, Sequences

CONSTANT Total      \* emails of the job

ASSUME TotalAssumption == Total \in Nat \ {0}

VARIABLES
  status,     \* job["status"]: "running" stands for every status before the end
  results,    \* job["results"]: the status of each result
  counts,     \* job["counts"]
  todo,       \* increment_count calls the thread is still to make: <<field, amount>>
  half,       \* the first of them has moved its field and not yet "processed"
  page,       \* where the page script is
  seen,       \* the status progress_view has read
  shown       \* what the user sees

worker == <<status, results, counts, todo, half>>
vars == <<status, results, counts, todo, half, page, seen, shown>>

JobStatus == {"running", "complete", "failed"}

NothingShown == [status |-> "none", processed |-> 0, results |-> <<>>, counts |-> NewCounts]

TypeOK ==
  /\ status \in JobStatus
  /\ results \in Seq(Statuses) /\ Len(results) <= Total
  /\ counts \in [CountFields -> -1 .. Total]
  /\ \A k \in 1 .. Len(todo) : todo[k] \in CountFields \X {-1, 1}
  /\ half \in BOOLEAN /\ (half => todo # <<>>)
  /\ page \in {"start", "counts", "results", "recheck", "sleep", "idle"}
  /\ seen \in JobStatus
  /\ shown.processed \in 0 .. Total

Init ==
  /\ status = "running"
  /\ results = <<>>
  /\ counts = NewCounts
  /\ todo = <<>> /\ half = FALSE
  /\ page = "start"
  /\ seen = "running"
  /\ shown = NothingShown

-----------------------------------------------------------------------------
(* The job thread: run_pipeline under asyncio.run.                           *)

Working == status = "running" /\ todo = <<>>

\* add_result, then one increment_count.
AddResult(s) ==
  /\ Working /\ Len(results) < Total
  /\ results' = Append(results, s)
  /\ todo' = << <<s, 1>> >>
  /\ UNCHANGED <<status, counts, half, page, seen, shown>>

\* A defect: the result is taken off "reserved" twice.
SettleTwice(k, s, flagged) ==
  /\ Working /\ Len(results) = Total
  /\ results[k] = "reserved"
  /\ results' = [results EXCEPT ![k] = s]
  /\ todo' = << <<"reserved", -1>>, <<"reserved", -1>>, <<s, 1>> >>
  /\ UNCHANGED <<status, counts, half, page, seen, shown>>

\* Stage 4 changes a reserved result in place, then makes its counts: two, or
\* three when the result is flagged.  What becomes valid is always flagged.
Settle(k, s, flagged) ==
  /\ Working /\ Len(results) = Total
  /\ results[k] = "reserved"
  /\ s = "valid" => flagged
  /\ results' = [results EXCEPT ![k] = s]
  /\ todo' = (IF flagged
              THEN << <<IF s = "valid" THEN "promoted_to_valid" ELSE "demoted_to_invalid", 1>> >>
              ELSE << >>)
             \o << <<"reserved", -1>>, <<s, 1>> >>
  /\ UNCHANGED <<status, counts, half, page, seen, shown>>

\* increment_count: first the field ...
CountField ==
  /\ todo # <<>> /\ ~half
  /\ counts' = [counts EXCEPT ![Head(todo)[1]] = @ + Head(todo)[2]]
  /\ half' = TRUE
  /\ UNCHANGED <<status, results, todo, page, seen, shown>>

\* ... then "processed", recomputed from the five statuses.
CountProcessed ==
  /\ half
  /\ counts' = Recount(Total, counts)
  /\ half' = FALSE
  /\ todo' = Tail(todo)
  /\ UNCHANGED <<status, results, page, seen, shown>>

\* A defect: the status is written before the last counts.
FinishUncounted ==
  /\ status = "running" /\ Len(results) = Total
  /\ status' = "complete"
  /\ UNCHANGED <<results, counts, todo, half, page, seen, shown>>

Finish ==
  /\ Working /\ Len(results) = Total
  /\ status' = "complete"
  /\ UNCHANGED <<results, counts, todo, half, page, seen, shown>>

\* _run_in_thread: run_pipeline raised before every address had a result.
Crash ==
  /\ Working /\ Len(results) < Total
  /\ status' = "failed"
  /\ UNCHANGED <<results, counts, todo, half, page, seen, shown>>

-----------------------------------------------------------------------------
(* One run of the page script.                                               *)

\* A defect: the status of the first run is kept.
ViewStatusCached ==
  /\ page = "start"
  /\ seen' = seen
  /\ page' = "counts"
  /\ UNCHANGED <<worker, shown>>

\* progress_view reads the status ...
ViewStatus ==
  /\ page = "start"
  /\ seen' = status
  /\ page' = "counts"
  /\ UNCHANGED <<worker, shown>>

\* ... then the counts, from the live record.  A failed job shows its error
\* only: `shown.processed` is the last number the user saw.
ViewCounts ==
  /\ page = "counts"
  /\ shown' = [NothingShown EXCEPT !.status = seen,
                 !.processed = IF seen = "failed" THEN shown.processed ELSE counts["processed"]]
  /\ page' = IF seen = "complete" THEN "results" ELSE "recheck"
  /\ UNCHANGED <<worker, seen>>

\* render_results.
ViewResults ==
  /\ page = "results"
  /\ shown' = [shown EXCEPT !.results = results, !.counts = counts]
  /\ page' = "recheck"
  /\ UNCHANGED <<worker, seen>>

\* A defect: the page sleeps and reruns whatever the status.
RecheckForever ==
  /\ page = "recheck"
  /\ page' = "sleep"
  /\ UNCHANGED <<worker, seen, shown>>

\* The status is read a second time to decide whether to go on polling.
Recheck ==
  /\ page = "recheck"
  /\ page' = IF status = "running" THEN "sleep" ELSE "idle"
  /\ UNCHANGED <<worker, seen, shown>>

\* time.sleep(1) and st.rerun().
Wake ==
  /\ page = "sleep"
  /\ page' = "start"
  /\ UNCHANGED <<worker, seen, shown>>

\* Any widget the user touches makes Streamlit run the script from the top.
UserActs ==
  /\ page \in {"sleep", "idle"}
  /\ page' = "start"
  /\ UNCHANGED <<worker, seen, shown>>

Worker == \/ \E s \in {"valid", "invalid", "reserved"} : AddResult(s)
          \/ \E k \in 1 .. Len(results), s \in {"valid", "invalid"}, flagged \in BOOLEAN :
               Settle(k, s, flagged)
          \/ CountField \/ CountProcessed \/ Finish \/ Crash

Page == ViewStatus \/ ViewCounts \/ ViewResults \/ Recheck \/ Wake

Next == Worker \/ Page \/ UserActs

Spec == Init /\ [][Next]_vars

\* The thread is never blocked and every script run goes on; a user may leave
\* the page alone.
FairSpec == Spec /\ WF_vars(Worker) /\ WF_vars(Page)

-----------------------------------------------------------------------------
(* Properties.                                                               *)

Tally(s) == Cardinality({k \in 1 .. Len(shown.results) : shown.results[k] = s})

\* Results once rendered are those of the finished job, one per address, and
\* the metrics beside the table agree with it: no half-counted record shows.
RenderedIsFinal ==
  shown.results # <<>> =>
    /\ shown.results = results /\ Len(results) = Total
    /\ \A s \in Statuses : shown.counts[s] = Tally(s)
    /\ shown.counts["processed"] = Total

\* The page may catch a promotion between its two counts: "processed" is then
\* one short, and never by more, of what the user saw before.
ProgressDipsByOne == [][shown'.processed >= shown.processed - 1]_vars

\* The page stops polling once the job has ended.
PollingStops == [](status # "running" => <>(page = "idle"))

\* streamlit_app.py:479-480: polling stops the moment results are ready, and
\* so a complete job's results are on the page.
ResultsShown == (status = "complete") ~> (shown.status = "complete" /\ shown.results # <<>>)

\* What holds of it: a user who, looking at an idle page, touches it again
\* and again does get the results of a complete job.
ResultsShownIfAttended == WF_vars(UserActs) => ResultsShown
=============================================================================
