----------------------------- MODULE ResultFile -----------------------------
(* The file a user uploads and the file he gets back (streamlit_app.py): the *)
(* job's results, in the order of the job, are looked up by the text of the  *)
(* address and put beside the rows, and two filters on the page select what is*)
(* downloaded.  The job is reduced to the order in which it reports.         *)
EXTENDS Integers, Sequences

CONSTANTS
  Texts,       \* addresses as written, in lower case and without blanks
  MailboxOf,   \* [Texts -> mailboxes]: what check_syntax normalises one to
  Malformed,   \* texts that check_syntax refuses
  RowCount,    \* rows of the file
  NoEmail      \* an empty cell

ASSUME InputsAssumption ==
  /\ Malformed \subseteq Texts /\ NoEmail \notin Texts
  /\ RowCount \in Nat \ {0}

Row == 1 .. RowCount

VARIABLES
  rows,      \* rows[i]: the address of a row of the file
  cursor,    \* Stage 1 has read the rows before it
  queue,     \* rows whose address is still being checked
  results,   \* job["results"]
  shown,     \* the job is complete and its results are on the page
  filter,    \* the status selected on the page
  ofSub      \* the results that have the sub-status selected on the page

vars == <<rows, cursor, queue, results, shown, filter, ofSub>>

Verdicts == {"valid", "invalid", "reserved", "do_not_use"}
Statuses == Verdicts \cup {"duplicate"}

\* parse_upload; a file without any address starts no job.
Init ==
  /\ rows \in [Row -> Texts \cup {NoEmail}]
  /\ \E i \in Row : rows[i] # NoEmail
  /\ cursor = 1 /\ queue = {} /\ results = <<>>
  /\ shown = FALSE /\ filter = "(all)" /\ ofSub = {}

-----------------------------------------------------------------------------
(* The job.                                                                  *)

Report(i, s) == results' = Append(results, [email |-> rows[i], status |-> s])

Reading(i) == cursor = i /\ i \in Row

\* The row's mailbox was met in an earlier row.
Seen(i) == \E j \in 1 .. i - 1 : /\ rows[j] \notin Malformed \cup {NoEmail}
                                 /\ MailboxOf[rows[j]] = MailboxOf[rows[i]]

Skip(i) ==
  /\ Reading(i) /\ rows[i] = NoEmail
  /\ cursor' = i + 1
  /\ UNCHANGED <<rows, queue, results, shown, filter, ofSub>>

\* A defect: an address that is left out of the check gets no result.
RejectSilently(i) ==
  /\ Reading(i) /\ rows[i] \in Malformed
  /\ cursor' = i + 1
  /\ UNCHANGED <<rows, queue, results, shown, filter, ofSub>>

Reject(i) ==
  /\ Reading(i) /\ rows[i] \in Malformed
  /\ Report(i, "invalid")
  /\ cursor' = i + 1
  /\ UNCHANGED <<rows, queue, shown, filter, ofSub>>

Repeat(i) ==
  /\ Reading(i) /\ rows[i] \in Texts \ Malformed /\ Seen(i)
  /\ Report(i, "duplicate")
  /\ cursor' = i + 1
  /\ UNCHANGED <<rows, queue, shown, filter, ofSub>>

\* Settled by a list of Stage 1, or queued for the later stages.
Accept(i) ==
  /\ Reading(i) /\ rows[i] \in Texts \ Malformed /\ ~Seen(i)
  /\ cursor' = i + 1
  /\ \/ /\ \E s \in {"invalid", "do_not_use"} : Report(i, s)
        /\ UNCHANGED queue
     \/ /\ queue' = queue \cup {i}
        /\ UNCHANGED results
  /\ UNCHANGED <<rows, shown, filter, ofSub>>

\* Stages 2 and 3 report in any order.
Settle(i, s) ==
  /\ cursor \notin Row /\ i \in queue
  /\ Report(i, s)
  /\ queue' = queue \ {i}
  /\ UNCHANGED <<rows, cursor, shown, filter, ofSub>>

\* Stage 4 changes a reserved result in its place.
Rescore(k, s) ==
  /\ cursor \notin Row /\ queue = {} /\ ~shown
  /\ k \in DOMAIN results /\ results[k].status = "reserved"
  /\ results' = [results EXCEPT ![k].status = s]
  /\ UNCHANGED <<rows, cursor, queue, shown, filter, ofSub>>

Complete ==
  /\ cursor \notin Row /\ queue = {} /\ ~shown
  /\ shown' = TRUE /\ ofSub' = DOMAIN results
  /\ UNCHANGED <<rows, cursor, queue, results, filter>>

-----------------------------------------------------------------------------
(* The page.                                                                 *)

\* The filter offers the statuses that occur.
Select(f) ==
  /\ shown /\ f # filter
  /\ f \in {"(all)"} \cup {results[k].status : k \in DOMAIN results}
  /\ filter' = f
  /\ UNCHANGED <<rows, cursor, queue, results, shown, ofSub>>

\* The second filter offers the sub-statuses that occur; which results have one
\* in common is any choice of some results, and "(all)" is every result.
SelectSub(S) ==
  /\ shown /\ S # ofSub
  /\ S \subseteq DOMAIN results /\ S # {}
  /\ ofSub' = S
  /\ UNCHANGED <<rows, cursor, queue, results, shown, filter>>

\* The results in the table on the page.
View == {k \in ofSub : filter \in {"(all)", results[k].status}}

About(e) == {k \in DOMAIN results : results[k].email = e}

\* A defect: the last result of an address is written into its rows.
StatusLastWins(e) ==
  IF About(e) = {} THEN ""
  ELSE results[CHOOSE k \in About(e) : \A l \in About(e) : l <= k].status

\* status_by_email: the last result that is no "duplicate", if there is one.
StatusByEmail(e) ==
  LET found == {k \in About(e) : results[k].status # "duplicate"}
  IN  IF found # {} THEN results[CHOOSE k \in found : \A l \in found : l <= k].status
      ELSE IF About(e) # {} THEN "duplicate" ELSE ""

\* A defect: the table's position is taken for the row's.
DownloadByPosition == {i \in Row : rows[i] # NoEmail /\ i \in View}

\* The rows of the file that is downloaded.
Download == {i \in Row : rows[i] # NoEmail /\ rows[i] \in {results[k].email : k \in View}}

Next ==
  \/ \E i \in Row : Skip(i) \/ Reject(i) \/ Repeat(i) \/ Accept(i)
  \/ \E i \in Row, s \in Verdicts \ {"do_not_use"} : Settle(i, s)
  \/ \E k \in Row, s \in {"valid", "invalid"} : Rescore(k, s)
  \/ Complete
  \/ \E f \in Statuses \cup {"(all)"} : Select(f)
  \/ \E S \in SUBSET Row : SelectSub(S)

Spec == Init /\ [][Next]_vars

-----------------------------------------------------------------------------
\* Every variable has a value of its kind.
TypeOK ==
  /\ rows \in [Row -> Texts \cup {NoEmail}] /\ cursor \in 1 .. RowCount + 1
  /\ queue \subseteq Row /\ shown \in BOOLEAN
  /\ results \in Seq([email : Texts, status : Statuses])
  /\ filter \in Statuses \cup {"(all)"} /\ ofSub \subseteq DOMAIN results

\* streamlit_app.py:166-186: in a finished file every row with an address has a
\* status, and the statuses counted on the page are those of as many rows.
EveryRowAnswered ==
  shown => /\ \A i \in Row : rows[i] # NoEmail => StatusByEmail(rows[i]) \in Statuses
           /\ \E f \in [DOMAIN results -> Row] :
                /\ \A k, l \in DOMAIN results : f[k] = f[l] => k = l
                /\ {f[k] : k \in DOMAIN results} = {i \in Row : rows[i] # NoEmail}
                /\ \A k \in DOMAIN results : rows[f[k]] = results[k].email

\* streamlit_app.py:168-169 "the real verdict wins": a row says "duplicate" only
\* if another spelling of its mailbox, in an earlier row, has the verdict.
DuplicateHasOriginal ==
  shown => \A i \in Row :
    rows[i] # NoEmail /\ StatusByEmail(rows[i]) = "duplicate" =>
      \E j \in 1 .. i - 1 :
        /\ rows[j] \notin {NoEmail, rows[i]}
        /\ MailboxOf[rows[j]] = MailboxOf[rows[i]]
        /\ StatusByEmail(rows[j]) \in Verdicts

\* Whatever the two filters, no result in the table is missing from the file, and
\* a row of the file with a result outside the table is one of several with its
\* text.
DownloadCoversView ==
  shown => /\ \A k \in View : \E i \in Download : rows[i] = results[k].email
           /\ \A i \in Download :
                About(rows[i]) \subseteq View \/ \E j \in Row \ {i} : rows[j] = rows[i]

\* streamlit_app.py:284 "Either way filter to match the on-screen view."
DownloadMatchesView ==
  shown => \A i \in Download : filter \in {"(all)", StatusByEmail(rows[i])}
=============================================================================
