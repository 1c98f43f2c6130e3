--------------------------- MODULE AddressProofs ---------------------------
(* Theorems about addresses as texts.  Of ResultFile, for a file of any      *)
(* length, any texts and any way of writing a mailbox: every result is that  *)
(* of a row of its own, and so what the user downloads accounts for every    *)
(* row.  Of Syntax, for any alphabet, any list of providers and any bounds:  *)
(* the normalised address is stable, aliases are one mailbox at Gmail's      *)
(* domains only, and the suggestion for a mistyped domain is the nearest.    *)
EXTENDS ResultFile, Syntax, SequenceTheorems, WellFoundedInduction, TLAPS

-----------------------------------------------------------------------------
(* The first and the last of a set of numbers.                               *)

LEMMA First ==
  ASSUME NEW S, S \subseteq Nat, S # {}
  PROVE  \E k \in S : \A l \in S : k <= l
<1>1. PICK k \in S : \A l \in S : <<l, k>> \notin OpToRel(<, Nat)
  BY NatLessThanWellFounded, WFMin
<1>2. \A l \in S : ~(l < k)
  BY <1>1 DEF OpToRel
<1> QED
  BY <1>2

LEMMA Latest ==
  ASSUME NEW n \in Nat, NEW S, S \subseteq 1 .. n, S # {}
  PROVE  \E k \in S : \A l \in S : l <= k
<1> DEFINE U == {n - k : k \in S}
<1>1. U \subseteq Nat /\ U # {}
  <2>1. \A k \in S : n - k \in Nat
    OBVIOUS
  <2> QED
    BY <2>1
<1>2. PICK u \in U : \A v \in U : u <= v
  BY <1>1, First
<1>3. PICK k \in S : u = n - k
  OBVIOUS
<1>4. \A l \in S : n - k <= n - l
  BY <1>2, <1>3
<1> QED
  BY <1>4

-----------------------------------------------------------------------------
(* Induction: a set that has 0, and with a number the next, has all numbers; *)
(* a set that has the empty word, and with a word all that are one letter    *)
(* longer, has all words.                                                    *)

LEMMA AllNumbers ==
  ASSUME NEW P, 0 \in P, \A k \in Nat : k \in P => k + 1 \in P
  PROVE  Nat \subseteq P
<1> DEFINE T == Nat \ P
<1> SUFFICES ASSUME T # {} PROVE FALSE
  OBVIOUS
<1>1. PICK k \in T : \A l \in T : k <= l
  BY First
<1>2. k - 1 \in Nat /\ k - 1 \notin T
  BY <1>1
<1> QED
  BY <1>2

LEMMA AllWords ==
  ASSUME NEW S, NEW P, <<>> \in P,
         \A w \in Seq(S), c \in S : w \in P => Append(w, c) \in P
  PROVE  Seq(S) \subseteq P
<1> DEFINE N == {k \in Nat : \A w \in Seq(S) : Len(w) = k => w \in P}
<1>1. 0 \in N
  BY EmptySeq
<1>2. ASSUME NEW k \in Nat, k \in N PROVE k + 1 \in N
  <2> SUFFICES ASSUME NEW w \in Seq(S), Len(w) = k + 1 PROVE w \in P
    OBVIOUS
  <2>1. PICK v \in Seq(S), c \in S : w = Append(v, c)
    BY EmptySeq, SequenceEmptyOrAppend
  <2>2. Len(v) = k
    BY <2>1, AppendProperties, LenProperties
  <2> QED
    BY <1>2, <2>1, <2>2
<1>3. Nat \subseteq N
  <2> HIDE DEF N
  <2> QED
    BY <1>1, <1>2, AllNumbers
<1> QED
  BY <1>3, LenProperties

-----------------------------------------------------------------------------
(* ResultFile: the inductive invariant.                                      *)

\* The rows that have been reported.
Reported == {i \in Row : i < cursor /\ rows[i] # NoEmail} \ queue

Repeated(i) == rows[i] \notin Malformed /\ Seen(i)

\* f tells of each result which row it is about.  The rows are S.
Fits(f, S) ==
  /\ f \in [1 .. Len(results) -> S]
  /\ \A k, l \in 1 .. Len(results) : f[k] = f[l] => k = l
  /\ \A i \in S : \E k \in 1 .. Len(results) : f[k] = i
  /\ \A k \in 1 .. Len(results) :
       /\ results[k].email = rows[f[k]]
       /\ results[k].status = "duplicate" <=> Repeated(f[k])

Matched == \E f : Fits(f, Reported)

\* What is still being checked has been read and is the first of its mailbox.
Checking ==
  \A i \in queue : i < cursor /\ rows[i] \in Texts \ Malformed /\ ~Seen(i)

Books ==
  /\ TypeOK /\ Checking /\ Matched
  /\ shown => cursor \notin Row /\ queue = {}

-----------------------------------------------------------------------------
(* ResultFile: results and rows.                                             *)

LEMMA Lengths ==
  ASSUME TypeOK
  PROVE  /\ Len(results) \in Nat /\ DOMAIN results = 1 .. Len(results)
         /\ \A k \in 1 .. Len(results) :
              results[k].email \in Texts /\ results[k].status \in Statuses
<1>1. results \in Seq([email : Texts, status : Statuses])
  BY DEF TypeOK
<1>2. \A k \in 1 .. Len(results) : results[k] \in [email : Texts, status : Statuses]
  BY <1>1, ElementOfSeq
<1> QED
  BY <1>1, <1>2, LenProperties

\* A result for a row without one.
LEMMA ReportFits ==
  ASSUME TypeOK, NEW f, NEW S, S \subseteq Row, Fits(f, S), NEW i \in Row \ S, NEW s \in Statuses,
         Report(i, s), rows' = rows, rows[i] \in Texts, s = "duplicate" <=> Repeated(i)
  PROVE  /\ \E g : Fits(g, S \cup {i})'
         /\ results' \in Seq([email : Texts, status : Statuses])
         /\ DOMAIN results \subseteq DOMAIN results'
<1>0. PICK n \in Nat : n = Len(results)
  BY Lengths
<1> DEFINE new == [email |-> rows[i], status |-> s]
           g == [k \in 1 .. n + 1 |-> IF k <= n THEN f[k] ELSE i]
<1>1. results' = Append(results, new) /\ new \in [email : Texts, status : Statuses]
  BY DEF Report
<1>2. results \in Seq([email : Texts, status : Statuses])
  BY DEF TypeOK
<1>3. /\ results' \in Seq([email : Texts, status : Statuses]) /\ Len(results') = n + 1
      /\ \A k \in 1 .. n : results'[k] = results[k]
      /\ results'[n + 1] = new
  BY <1>0, <1>1, <1>2, AppendProperties
<1>4. /\ \A k \in 1 .. n : g[k] = f[k] /\ f[k] \in S
      /\ g[n + 1] = i /\ 1 .. n + 1 = 1 .. n \cup {n + 1}
      /\ g \in [1 .. n + 1 -> S \cup {i}]
  BY <1>0 DEF Fits
<1> HIDE DEF g
<1>5. \A k, l \in 1 .. n + 1 : g[k] = g[l] => k = l
  BY <1>0, <1>4 DEF Fits
<1>6. \A j \in S \cup {i} : \E k \in 1 .. n + 1 : g[k] = j
  BY <1>0, <1>4 DEF Fits
<1>7. \A j : Repeated(j)' <=> Repeated(j)
  BY DEF Repeated, Seen
<1>8. ASSUME NEW k \in 1 .. n + 1
      PROVE  /\ results'[k].email = rows'[g[k]]
             /\ results'[k].status = "duplicate" <=> Repeated(g[k])'
  <2>1. CASE k \in 1 .. n
    BY <1>0, <1>3, <1>4, <1>7, <2>1 DEF Fits
  <2>2. CASE k = n + 1
    BY <1>3, <1>4, <1>7, <2>2
  <2> QED
    BY <1>4, <1>8, <2>1, <2>2
<1>9. Fits(g, S \cup {i})'
  BY <1>3, <1>4, <1>5, <1>6, <1>8 DEF Fits
<1>10. DOMAIN results = 1 .. n /\ DOMAIN results' = 1 .. n + 1
  BY <1>0, <1>2, <1>3, LenProperties
<1> QED
  BY <1>3, <1>9, <1>10

-----------------------------------------------------------------------------
(* ResultFile: the steps.                                                    *)

\* Stage 1 reports the row it reads.
LEMMA ReadAndReport ==
  ASSUME Books, NEW i \in Row, NEW s \in Statuses, Reading(i), Report(i, s),
         cursor' = i + 1, UNCHANGED <<rows, queue, shown, filter, ofSub>>,
         rows[i] \in Texts, s = "duplicate" <=> Repeated(i)
  PROVE  Books'
<1>1. PICK f, S : Fits(f, S) /\ S = Reported
  BY DEF Books, Matched
<1>2. cursor = i /\ i \in 1 .. RowCount /\ RowCount \in Nat /\ queue \subseteq Row
  BY InputsAssumption DEF Reading, Row, Books, TypeOK
<1>3. i \notin Reported /\ Reported \subseteq Row /\ i \notin queue
  BY <1>2 DEF Reported, Books, Checking, Row
<1>4. /\ \E g : Fits(g, S \cup {i})'
      /\ results' \in Seq([email : Texts, status : Statuses])
      /\ DOMAIN results \subseteq DOMAIN results'
  BY <1>1, <1>3, ReportFits DEF Books
<1>5. Reported' = S \cup {i}
  <2>1. rows[i] # NoEmail
    BY InputsAssumption
  <2> QED
    BY <1>1, <1>2, <1>3, <2>1 DEF Reported, Row
<1>6. Matched'
  BY <1>4, <1>5 DEF Matched
<1>7. TypeOK'
  BY <1>2, <1>4 DEF Books, TypeOK
<1>8. Checking'
  <2>1. queue' = queue /\ rows' = rows /\ cursor' = cursor + 1 /\ \A k : Seen(k)' <=> Seen(k)
    BY <1>2 DEF Seen
  <2>2. \A k \in queue : k < cursor /\ k < cursor + 1 /\ rows[k] \in Texts \ Malformed /\ ~Seen(k)
    BY <1>2 DEF Books, Checking, Row
  <2> QED
    BY <2>1, <2>2 DEF Checking
<1>9. ~shown
  BY <1>2 DEF Books, Row
<1> QED
  BY <1>6, <1>7, <1>8, <1>9 DEF Books

LEMMA SkipStep ==
  ASSUME Books, NEW i \in Row, Skip(i)
  PROVE  Books'
<1>1. /\ cursor = i /\ cursor' = i + 1 /\ rows[i] = NoEmail
      /\ UNCHANGED <<rows, queue, results, shown, filter, ofSub>>
  BY DEF Skip, Reading
<1>2. i \in 1 .. RowCount /\ RowCount \in Nat /\ queue \subseteq Row
  BY InputsAssumption DEF Row, Books, TypeOK
<1>3. Reported' = Reported
  BY <1>1, <1>2 DEF Reported, Row
<1>4. Matched'
  BY <1>1, <1>3 DEF Books, Matched, Fits, Repeated, Seen
<1>5. TypeOK' /\ Checking' /\ ~shown
  BY <1>1, <1>2 DEF Books, TypeOK, Checking, Seen, Row
<1> QED
  BY <1>1, <1>4, <1>5 DEF Books

\* The first row of a mailbox goes into the queue.
LEMMA QueueStep ==
  ASSUME Books, NEW i \in Row, Reading(i), rows[i] \in Texts \ Malformed, ~Seen(i),
         cursor' = i + 1, queue' = queue \cup {i}, UNCHANGED <<rows, results, shown, filter, ofSub>>
  PROVE  Books'
<1>1. cursor = i /\ i \in 1 .. RowCount /\ RowCount \in Nat /\ queue \subseteq Row
  BY InputsAssumption DEF Reading, Row, Books, TypeOK
<1>2. Reported' = Reported
  BY <1>1 DEF Reported, Row
<1>3. Matched'
  BY <1>2 DEF Books, Matched, Fits, Repeated, Seen
<1>4. TypeOK' /\ Checking' /\ ~shown
  BY <1>1 DEF Books, TypeOK, Checking, Seen, Row
<1> QED
  BY <1>3, <1>4 DEF Books

LEMMA SettleStep ==
  ASSUME Books, NEW i \in Row, NEW s \in Verdicts, Settle(i, s)
  PROVE  Books'
<1>1. PICK f, S : Fits(f, S) /\ S = Reported
  BY DEF Books, Matched
<1>2. /\ cursor \notin Row /\ i \in queue /\ Report(i, s) /\ queue' = queue \ {i}
      /\ UNCHANGED <<rows, cursor, shown, filter, ofSub>>
  BY DEF Settle
<1>3. /\ i < cursor /\ rows[i] \in Texts \ Malformed /\ ~Seen(i) /\ queue \subseteq Row
      /\ rows[i] # NoEmail
  BY <1>2, InputsAssumption DEF Books, Checking, TypeOK
<1>4. s \in Statuses /\ s # "duplicate" /\ ~Repeated(i)
  BY <1>3 DEF Statuses, Verdicts, Repeated
<1>5. /\ \E g : Fits(g, S \cup {i})'
      /\ results' \in Seq([email : Texts, status : Statuses])
      /\ DOMAIN results \subseteq DOMAIN results'
  <2>1. i \in Row \ S /\ S \subseteq Row
    BY <1>1, <1>2 DEF Reported
  <2> QED
    BY <1>1, <1>2, <1>3, <1>4, <2>1, ReportFits DEF Books
<1>6. Reported' = S \cup {i}
  BY <1>1, <1>2, <1>3 DEF Reported
<1>7. Matched'
  BY <1>5, <1>6 DEF Matched
<1>8. TypeOK' /\ Checking' /\ ~shown
  BY <1>2, <1>3, <1>5 DEF Books, TypeOK, Checking, Seen
<1> QED
  BY <1>2, <1>7, <1>8 DEF Books

LEMMA RescoreStep ==
  ASSUME Books, NEW k, NEW s \in {"valid", "invalid"}, Rescore(k, s)
  PROVE  Books'
<1> DEFINE n == Len(results)
<1>1. PICK f : Fits(f, Reported)
  BY DEF Books, Matched
<1>2. /\ k \in 1 .. n /\ results[k].status = "reserved" /\ n \in Nat
      /\ results' = [results EXCEPT ![k].status = s]
      /\ UNCHANGED <<rows, cursor, queue, shown, filter, ofSub>>
  BY Lengths DEF Rescore, Books
<1>3. /\ results \in Seq([email : Texts, status : Statuses]) /\ s \in Statuses
      /\ results[k] \in [email : Texts, status : Statuses]
  BY <1>2, ElementOfSeq DEF Books, TypeOK, Statuses, Verdicts
<1>4. results' = [results EXCEPT ![k] = [email |-> results[k].email, status |-> s]]
  <2>1. [results[k] EXCEPT !.status = s] = [email |-> results[k].email, status |-> s]
    BY <1>3
  <2> QED
    BY <1>2, <2>1
<1>5. /\ results' \in Seq([email : Texts, status : Statuses]) /\ Len(results') = n
      /\ \A l \in 1 .. n : results'[l] =
           IF l = k THEN [email |-> results[k].email, status |-> s] ELSE results[l]
  BY <1>2, <1>3, <1>4, ExceptSeq, LenProperties
<1>6. \A l \in 1 .. n : /\ results'[l].email = results[l].email
                        /\ results'[l].status = "duplicate" <=> results[l].status = "duplicate"
  BY <1>2, <1>5
<1>7. Fits(f, Reported)'
  <2>1. Reported' = Reported /\ \A j : Repeated(j)' <=> Repeated(j)
    BY <1>2 DEF Reported, Repeated, Seen
  <2> QED
    BY <1>1, <1>2, <1>5, <1>6, <2>1 DEF Fits
<1>8. TypeOK' /\ Checking'
  BY <1>2, <1>5 DEF Books, TypeOK, Checking, Seen
<1> QED
  BY <1>2, <1>7, <1>8 DEF Books, Matched

LEMMA PageStep ==
  ASSUME Books, UNCHANGED <<rows, cursor, queue, results>>,
         filter' \in Statuses \cup {"(all)"}, ofSub' \subseteq DOMAIN results,
         shown' \in BOOLEAN,
         shown' => cursor \notin Row /\ queue = {}
  PROVE  Books'
<1>1. Reported' = Reported
  BY DEF Reported
<1>2. \A j : Repeated(j)' <=> Repeated(j)
  BY DEF Repeated, Seen
<1>3. \A f, S : Fits(f, S)' <=> Fits(f, S)
  BY <1>2 DEF Fits
<1>4. Matched'
  BY <1>1, <1>3 DEF Books, Matched
<1>5. TypeOK' /\ Checking'
  BY DEF Books, TypeOK, Checking, Seen
<1> QED
  BY <1>4, <1>5 DEF Books

LEMMA BooksStep ==
  ASSUME Books, [Next]_vars
  PROVE  Books'
<1>1. ASSUME NEW i \in Row, Skip(i) PROVE Books'
  BY <1>1, SkipStep
<1>2. ASSUME NEW i \in Row, Reject(i) PROVE Books'
  BY <1>2, ReadAndReport, InputsAssumption DEF Reject, Repeated, Statuses, Verdicts
<1>3. ASSUME NEW i \in Row, Repeat(i) PROVE Books'
  BY <1>3, ReadAndReport DEF Repeat, Repeated, Statuses
<1>4. ASSUME NEW i \in Row, Accept(i) PROVE Books'
  <2>1. CASE queue' = queue \cup {i} /\ UNCHANGED results
    BY <1>4, <2>1, QueueStep DEF Accept
  <2>2. ASSUME NEW s \in {"invalid", "do_not_use"}, Report(i, s), UNCHANGED queue PROVE Books'
    BY <1>4, <2>2, ReadAndReport DEF Accept, Repeated, Statuses, Verdicts
  <2> QED
    BY <1>4, <2>1, <2>2 DEF Accept
<1>5. ASSUME NEW i \in Row, NEW s \in Verdicts, Settle(i, s) PROVE Books'
  BY <1>5, SettleStep
<1>6. ASSUME NEW k \in Row, NEW s \in {"valid", "invalid"}, Rescore(k, s) PROVE Books'
  BY <1>6, RescoreStep
<1>7. CASE Complete
  <2>1. /\ UNCHANGED <<rows, cursor, queue, results>> /\ filter' = filter /\ shown' = TRUE
        /\ cursor \notin Row /\ queue = {} /\ filter \in Statuses \cup {"(all)"}
    BY <1>7 DEF Complete, Books, TypeOK
  <2>2. ofSub' \subseteq DOMAIN results
    BY <1>7 DEF Complete
  <2> QED
    BY <2>1, <2>2, PageStep
<1>8. ASSUME NEW f \in Statuses \cup {"(all)"}, Select(f) PROVE Books'
  BY <1>8, PageStep DEF Select, Books, TypeOK
<1>9. ASSUME NEW S \in SUBSET Row, SelectSub(S) PROVE Books'
  BY <1>9, PageStep DEF SelectSub, Books, TypeOK
<1>10. CASE UNCHANGED vars
  BY <1>10 DEF vars, Books, TypeOK, Checking, Matched, Fits, Reported, Repeated, Seen
<1> QED
  BY <1>1, <1>2, <1>3, <1>4, <1>5, <1>6, <1>7, <1>8, <1>9, <1>10 DEF Next

-----------------------------------------------------------------------------
(* ResultFile: the theorems.                                                 *)

\* The inductive invariant: each result is about a row of its own, read and no
\* longer checked, and says "duplicate" exactly when the mailbox was met before.
THEOREM BooksInvariant == Spec => []Books
<1>1. ASSUME Init PROVE Books
  <2>1. results = <<>> /\ Len(results) = 0 /\ queue = {} /\ cursor = 1 /\ ~shown
    BY <1>1 DEF Init
  <2>2. Reported = {}
    BY <2>1 DEF Reported, Row
  <2>3. Fits([k \in 1 .. 0 |-> k], {})
    BY <2>1 DEF Fits
  <2>4. TypeOK
    <3>1. 1 \in 1 .. RowCount + 1
      BY InputsAssumption
    <3>2. results \in Seq([email : Texts, status : Statuses])
      BY <2>1
    <3> QED
      BY <1>1, <3>1, <3>2 DEF Init, TypeOK
  <2> QED
    BY <2>1, <2>2, <2>3, <2>4 DEF Books, Matched, Checking
<1> QED
  BY <1>1, BooksStep, PTL DEF Spec

\* How a row looks up its status: the result it gets is one about its text, and
\* a real verdict if there is one.
LEMMA Lookup ==
  ASSUME TypeOK, NEW e, NEW k \in About(e)
  PROVE  \E l \in About(e) :
           /\ StatusByEmail(e) = results[l].status
           /\ results[l].status = "duplicate" => results[k].status = "duplicate"
<1> DEFINE found == {l \in About(e) : results[l].status # "duplicate"}
           last == CHOOSE l \in found : \A m \in found : m <= l
<1>1. About(e) \subseteq 1 .. Len(results) /\ Len(results) \in Nat
  BY Lengths DEF About
<1>2. CASE found = {}
  <2>1. StatusByEmail(e) = "duplicate" /\ results[k].status = "duplicate"
    BY <1>2 DEF StatusByEmail
  <2> QED
    BY <2>1
<1>3. CASE found # {}
  <2>1. \E l \in found : \A m \in found : m <= l
    BY <1>1, <1>3, Latest
  <2>2. last \in found
    BY <2>1
  <2>3. StatusByEmail(e) = results[last].status
    BY <1>3 DEF StatusByEmail
  <2> QED
    BY <2>2, <2>3
<1> QED
  BY <1>2, <1>3

\* In a finished file every row with an address has a status, and there are as
\* many results as rows (streamlit_app.py:166-186; ResultFile.EveryRowAnswered).
THEOREM RowsAreAnswered == Spec => []EveryRowAnswered
<1>1. ASSUME Books, shown
      PROVE  /\ \A i \in Row : rows[i] # NoEmail => StatusByEmail(rows[i]) \in Statuses
             /\ \E f \in [DOMAIN results -> Row] :
                  /\ \A k, l \in DOMAIN results : f[k] = f[l] => k = l
                  /\ {f[k] : k \in DOMAIN results} = {i \in Row : rows[i] # NoEmail}
                  /\ \A k \in DOMAIN results : rows[f[k]] = results[k].email
  <2>1. PICK f : Fits(f, Reported)
    BY <1>1 DEF Books, Matched
  <2>2. Reported = {i \in Row : rows[i] # NoEmail}
    BY <1>1, InputsAssumption DEF Books, TypeOK, Reported, Row
  <2>3. DOMAIN results = 1 .. Len(results) /\ TypeOK
    BY <1>1, Lengths DEF Books
  <2>4. ASSUME NEW i \in Row, rows[i] # NoEmail PROVE StatusByEmail(rows[i]) \in Statuses
    <3>1. PICK k \in 1 .. Len(results) : f[k] = i
      BY <2>1, <2>2, <2>4 DEF Fits
    <3>2. k \in About(rows[i])
      BY <2>1, <2>3, <3>1 DEF About, Fits
    <3>3. PICK l \in About(rows[i]) : StatusByEmail(rows[i]) = results[l].status
      BY <2>3, <3>2, Lookup
    <3> QED
      BY <2>3, <3>3, Lengths DEF About
  <2>5. f \in [DOMAIN results -> Row] /\ \A k, l \in DOMAIN results : f[k] = f[l] => k = l
    BY <2>1, <2>2, <2>3 DEF Fits
  <2>6. {f[k] : k \in DOMAIN results} = {i \in Row : rows[i] # NoEmail}
    BY <2>1, <2>2, <2>3 DEF Fits
  <2>7. \A k \in DOMAIN results : rows[f[k]] = results[k].email
    BY <2>1, <2>3 DEF Fits
  <2> QED
    BY <2>4, <2>5, <2>6, <2>7
<1>2. Books => EveryRowAnswered
  BY <1>1 DEF EveryRowAnswered
<1> QED
  BY <1>2, BooksInvariant, PTL

\* A row says "duplicate" only if an earlier row, written differently, has the
\* verdict of its mailbox (streamlit_app.py:168-169; ResultFile.DuplicateHasOriginal).
THEOREM DuplicatesHaveOriginals == Spec => []DuplicateHasOriginal
<1>1. ASSUME Books, shown, NEW i \in Row, rows[i] # NoEmail,
             StatusByEmail(rows[i]) = "duplicate"
      PROVE  \E j \in 1 .. i - 1 :
               /\ rows[j] \notin {NoEmail, rows[i]}
               /\ MailboxOf[rows[j]] = MailboxOf[rows[i]]
               /\ StatusByEmail(rows[j]) \in Verdicts
  <2>1. PICK f : Fits(f, Reported)
    BY <1>1 DEF Books, Matched
  <2>2. Reported = {j \in Row : rows[j] # NoEmail}
    BY <1>1, InputsAssumption DEF Books, TypeOK, Reported, Row
  <2>3. DOMAIN results = 1 .. Len(results) /\ TypeOK /\ RowCount \in Nat
    BY <1>1, Lengths, InputsAssumption DEF Books
  <2>4. ASSUME NEW j \in Row, rows[j] = rows[i] PROVE Repeated(j)
    <3>1. PICK k \in 1 .. Len(results) : f[k] = j
      BY <1>1, <2>1, <2>2, <2>4 DEF Fits
    <3>2. k \in About(rows[i])
      BY <2>1, <2>3, <2>4, <3>1 DEF About, Fits
    <3>3. results[k].status = "duplicate"
      BY <1>1, <2>3, <3>2, Lookup
    <3> QED
      BY <2>1, <3>1, <3>3 DEF Fits
  <2> DEFINE kin == {j \in Row : /\ rows[j] \notin Malformed \cup {NoEmail}
                                 /\ MailboxOf[rows[j]] = MailboxOf[rows[i]]}
  <2>5. i \in kin /\ kin \subseteq Nat
    BY <1>1, <2>3, <2>4 DEF Repeated, Row
  <2>6. PICK j \in kin : \A l \in kin : j <= l
    BY <2>5, First
  <2>7. ~Seen(j)
    BY <2>3, <2>6 DEF Seen, Row
  <2>8. rows[j] # rows[i] /\ j < i
    <3>1. rows[j] # rows[i]
      BY <2>4, <2>6, <2>7 DEF Repeated
    <3> QED
      BY <2>3, <2>5, <2>6, <3>1 DEF Row
  <2>9. PICK k \in 1 .. Len(results) : f[k] = j
    BY <2>1, <2>2, <2>6 DEF Fits
  <2>10. k \in About(rows[j]) /\ results[k].status # "duplicate"
    BY <2>1, <2>3, <2>7, <2>9 DEF About, Fits, Repeated
  <2>11. PICK l \in About(rows[j]) : /\ StatusByEmail(rows[j]) = results[l].status
                                     /\ results[l].status # "duplicate"
    BY <2>3, <2>10, Lookup
  <2>12. StatusByEmail(rows[j]) \in Verdicts
    BY <2>3, <2>11, Lengths DEF About, Statuses
  <2>13. j \in 1 .. i - 1
    BY <2>3, <2>6, <2>8 DEF Row
  <2> QED
    BY <2>6, <2>8, <2>12, <2>13
<1>2. Books => DuplicateHasOriginal
  BY <1>1 DEF DuplicateHasOriginal
<1> QED
  BY <1>2, BooksInvariant, PTL

\* Whatever the filters, the file has every result of the table, and a row with a
\* result outside it only beside one of the same text (streamlit_app.py:284-293;
\* ResultFile.DownloadCoversView).
THEOREM DownloadsCoverViews == Spec => []DownloadCoversView
<1>1. ASSUME Books, shown
      PROVE  /\ \A k \in View : \E i \in Download : rows[i] = results[k].email
             /\ \A i \in Download :
                  About(rows[i]) \subseteq View \/ \E j \in Row \ {i} : rows[j] = rows[i]
  <2>1. PICK f : Fits(f, Reported)
    BY <1>1 DEF Books, Matched
  <2>2. Reported \subseteq {j \in Row : rows[j] # NoEmail}
    BY DEF Reported
  <2>3. DOMAIN results = 1 .. Len(results) /\ TypeOK
    BY <1>1, Lengths DEF Books
  <2>4. \A k \in 1 .. Len(results) : /\ f[k] \in Row /\ rows[f[k]] # NoEmail
                                     /\ rows[f[k]] = results[k].email
    BY <2>1, <2>2 DEF Fits
  <2>5. ASSUME NEW k \in View PROVE \E i \in Download : rows[i] = results[k].email
    <3>1. k \in 1 .. Len(results)
      BY <2>3, <2>5 DEF View, TypeOK
    <3>2. f[k] \in Download
      BY <2>4, <2>5, <3>1 DEF Download
    <3> QED
      BY <2>4, <3>1, <3>2
  <2>6. ASSUME NEW i \in Download, NEW l \in About(rows[i]), l \notin View
        PROVE  \E j \in Row \ {i} : rows[j] = rows[i]
    <3>1. PICK k \in View : results[k].email = rows[i]
      BY <2>6 DEF Download
    <3>2. l # k /\ {k, l} \subseteq 1 .. Len(results)
      BY <2>3, <2>6, <3>1 DEF About, View, TypeOK
    <3>3. f[k] # f[l]
      BY <2>1, <3>2 DEF Fits
    <3>4. rows[f[k]] = rows[i] /\ rows[f[l]] = rows[i]
      BY <2>4, <2>6, <3>1, <3>2 DEF About
    <3> QED
      BY <2>4, <3>2, <3>3, <3>4
  <2> QED
    BY <2>5, <2>6
<1>2. Books => DownloadCoversView
  BY <1>1 DEF DownloadCoversView
<1> QED
  BY <1>2, BooksInvariant, PTL

-----------------------------------------------------------------------------
(* Syntax: single changes of a word.                                         *)

\* The letter j of w after c is inserted at i.
LetterAfter(w, i, c, j) == IF j < i THEN w[j] ELSE IF j = i THEN c ELSE w[j - 1]

LEMMA InsertProperties ==
  ASSUME NEW S, NEW w \in Seq(S), NEW c \in S, NEW i \in 1 .. Len(w) + 1
  PROVE  /\ InsertAt(w, i, c) \in Seq(S) /\ Len(InsertAt(w, i, c)) = Len(w) + 1
         /\ \A j \in 1 .. Len(w) + 1 :
              InsertAt(w, i, c)[j] = LetterAfter(w, i, c, j)
<1> DEFINE n == Len(w)
           left == SubSeq(w, 1, i - 1)
           right == SubSeq(w, i, n)
<1>1. n \in Nat /\ i \in 1 .. n + 1 /\ i \in Int /\ i - 1 \in Int /\ \A j \in 1 .. n : w[j] \in S
  BY LenProperties, ElementOfSeq
<1>2. /\ left \in Seq(S) /\ Len(left) = i - 1
      /\ \A j \in 1 .. i - 1 : left[j] = w[j]
  <2>1. \A j \in 1 .. i - 1 : w[j] \in S
    BY <1>1
  <2>2. /\ left \in Seq(S) /\ Len(left) = IF 1 <= i - 1 THEN (i - 1) - 1 + 1 ELSE 0
        /\ \A j \in 1 .. (i - 1) - 1 + 1 : left[j] = w[1 + j - 1]
    BY <1>1, <2>1, SubSeqProperties
  <2> QED
    BY <1>1, <2>2
<1>3. /\ right \in Seq(S) /\ Len(right) = n - i + 1
      /\ \A j \in 1 .. n - i + 1 : right[j] = w[i + j - 1]
  <2>1. \A j \in i .. n : w[j] \in S
    BY <1>1
  <2>2. /\ right \in Seq(S) /\ Len(right) = IF i <= n THEN n - i + 1 ELSE 0
        /\ \A j \in 1 .. n - i + 1 : right[j] = w[i + j - 1]
    BY <1>1, <2>1, SubSeqProperties
  <2> QED
    BY <1>1, <2>2
<1> DEFINE middle == left \o <<c>>
<1> HIDE DEF n, left, right
<1>4. /\ middle \in Seq(S) /\ Len(middle) = i
      /\ \A j \in 1 .. i : middle[j] = IF j < i THEN w[j] ELSE c
  <2>1. middle = Append(left, c)
    BY <1>2, AppendIsConcat
  <2>2. /\ middle \in Seq(S) /\ Len(middle) = i
        /\ \A j \in 1 .. i - 1 : middle[j] = left[j]
        /\ middle[i] = c
    BY <1>1, <1>2, <2>1, AppendProperties
  <2> HIDE DEF middle
  <2> QED
    BY <1>1, <1>2, <2>2
<1> HIDE DEF middle
<1>5. InsertAt(w, i, c) = middle \o right
  BY DEF InsertAt, middle, left, right, n
<1>6. /\ middle \o right \in Seq(S) /\ Len(middle \o right) = n + 1
      /\ \A j \in 1 .. n + 1 :
           (middle \o right)[j] = IF j <= i THEN middle[j] ELSE right[j - i]
  <2>1. /\ middle \o right \in Seq(S) /\ Len(middle \o right) = Len(middle) + Len(right)
        /\ \A j \in 1 .. Len(middle) + Len(right) : (middle \o right)[j] =
             IF j <= Len(middle) THEN middle[j] ELSE right[j - Len(middle)]
    BY <1>3, <1>4, ConcatProperties
  <2>2. Len(middle) = i /\ Len(middle) + Len(right) = n + 1
    BY <1>1, <1>3, <1>4
  <2> QED
    BY <2>1, <2>2
<1>7. \A j \in 1 .. n + 1 :
        (middle \o right)[j] = IF j < i THEN w[j] ELSE IF j = i THEN c ELSE w[j - 1]
  <2> TAKE j \in 1 .. n + 1
  <2>1. (middle \o right)[j] = IF j <= i THEN middle[j] ELSE right[j - i]
    BY <1>6
  <2>2. j <= i => middle[j] = IF j < i THEN w[j] ELSE c
    BY <1>4
  <2>3. j > i => right[j - i] = w[j - 1]
    <3> HAVE j > i
    <3>1. j - i \in 1 .. n - i + 1 /\ i + (j - i) - 1 = j - 1
      BY <1>1
    <3> QED
      BY <1>3, <3>1
  <2> QED
    BY <1>1, <2>1, <2>2, <2>3
<1> QED
  BY <1>5, <1>6, <1>7 DEF n, LetterAfter

LEMMA RemoveProperties ==
  ASSUME NEW S, NEW w \in Seq(S), NEW i \in 1 .. Len(w)
  PROVE  /\ RemoveAt(w, i) \in Seq(S) /\ Len(RemoveAt(w, i)) = Len(w) - 1
         /\ \A j \in 1 .. Len(w) - 1 : RemoveAt(w, i)[j] = IF j < i THEN w[j] ELSE w[j + 1]
<1> DEFINE n == Len(w)
           left == SubSeq(w, 1, i - 1)
           right == SubSeq(w, i + 1, n)
<1>1. /\ n \in Nat /\ i \in 1 .. n /\ i \in Int /\ i - 1 \in Int /\ i + 1 \in Int
      /\ \A j \in 1 .. n : w[j] \in S
  BY LenProperties, ElementOfSeq
<1>2. /\ left \in Seq(S) /\ Len(left) = i - 1
      /\ \A j \in 1 .. i - 1 : left[j] = w[j]
  <2>1. \A j \in 1 .. i - 1 : w[j] \in S
    BY <1>1
  <2>2. /\ left \in Seq(S) /\ Len(left) = IF 1 <= i - 1 THEN (i - 1) - 1 + 1 ELSE 0
        /\ \A j \in 1 .. (i - 1) - 1 + 1 : left[j] = w[1 + j - 1]
    BY <1>1, <2>1, SubSeqProperties
  <2> QED
    BY <1>1, <2>2
<1>3. /\ right \in Seq(S) /\ Len(right) = n - i
      /\ \A j \in 1 .. n - i : right[j] = w[i + j]
  <2>1. \A j \in i + 1 .. n : w[j] \in S
    BY <1>1
  <2>2. /\ right \in Seq(S) /\ Len(right) = IF i + 1 <= n THEN n - (i + 1) + 1 ELSE 0
        /\ \A j \in 1 .. n - (i + 1) + 1 : right[j] = w[(i + 1) + j - 1]
    BY <1>1, <2>1, SubSeqProperties
  <2> QED
    BY <1>1, <2>2
<1> HIDE DEF n, left, right
<1>4. RemoveAt(w, i) = left \o right
  BY DEF RemoveAt, left, right, n
<1>5. /\ left \o right \in Seq(S) /\ Len(left \o right) = n - 1
      /\ \A j \in 1 .. n - 1 :
           (left \o right)[j] = IF j <= i - 1 THEN left[j] ELSE right[j - (i - 1)]
  <2>1. /\ left \o right \in Seq(S) /\ Len(left \o right) = Len(left) + Len(right)
        /\ \A j \in 1 .. Len(left) + Len(right) : (left \o right)[j] =
             IF j <= Len(left) THEN left[j] ELSE right[j - Len(left)]
    BY <1>2, <1>3, ConcatProperties
  <2>2. Len(left) = i - 1 /\ Len(left) + Len(right) = n - 1
    BY <1>1, <1>2, <1>3
  <2> QED
    BY <2>1, <2>2
<1>6. \A j \in 1 .. n - 1 : (left \o right)[j] = IF j < i THEN w[j] ELSE w[j + 1]
  <2> TAKE j \in 1 .. n - 1
  <2>1. (left \o right)[j] = IF j <= i - 1 THEN left[j] ELSE right[j - (i - 1)]
    BY <1>5
  <2>2. j < i => left[j] = w[j]
    BY <1>1, <1>2
  <2>3. j >= i => right[j - (i - 1)] = w[j + 1]
    <3> HAVE j >= i
    <3>1. j - (i - 1) \in 1 .. n - i /\ i + (j - (i - 1)) = j + 1
      BY <1>1
    <3> QED
      BY <1>3, <3>1
  <2> QED
    BY <1>1, <2>1, <2>2, <2>3
<1> QED
  BY <1>4, <1>5, <1>6 DEF n

LEMMA ReplaceProperties ==
  ASSUME NEW S, NEW w \in Seq(S), NEW c \in S, NEW i \in 1 .. Len(w)
  PROVE  /\ ReplaceAt(w, i, c) \in Seq(S) /\ Len(ReplaceAt(w, i, c)) = Len(w)
         /\ \A j \in 1 .. Len(w) : ReplaceAt(w, i, c)[j] = IF j = i THEN c ELSE w[j]
  BY ExceptSeq DEF ReplaceAt

\* A change at the end of a word, and one before its last letter.
LEMMA ChangeAtEnd ==
  ASSUME NEW S, NEW w \in Seq(S), NEW c \in S, NEW d \in S
  PROVE  /\ InsertAt(w, Len(w) + 1, c) = Append(w, c)
         /\ RemoveAt(Append(w, c), Len(w) + 1) = w
         /\ ReplaceAt(Append(w, c), Len(w) + 1, d) = Append(w, d)
<1> DEFINE n == Len(w)
           wc == Append(w, c)
           wd == Append(w, d)
<1>1. /\ n \in Nat /\ n + 1 \in 1 .. n + 1
      /\ wc \in Seq(S) /\ Len(wc) = n + 1 /\ wc[n + 1] = c /\ \A i \in 1 .. n : wc[i] = w[i]
      /\ wd \in Seq(S) /\ Len(wd) = n + 1 /\ wd[n + 1] = d /\ \A i \in 1 .. n : wd[i] = w[i]
  BY LenProperties, AppendProperties
<1> HIDE DEF n, wc, wd
<1>2. InsertAt(w, n + 1, c) = wc
  <2> DEFINE x == InsertAt(w, n + 1, c)
  <2>1. /\ x \in Seq(S) /\ Len(x) = n + 1
        /\ \A j \in 1 .. n + 1 : x[j] = IF j < n + 1 THEN w[j] ELSE IF j = n + 1 THEN c ELSE w[j - 1]
    <3>1. Len(w) = n /\ n + 1 \in 1 .. Len(w) + 1
      BY <1>1 DEF n
    <3> DEFINE i == n + 1
    <3>2. i \in 1 .. Len(w) + 1
      BY <3>1
    <3> HIDE DEF i
    <3>3. /\ InsertAt(w, i, c) \in Seq(S) /\ Len(InsertAt(w, i, c)) = Len(w) + 1
          /\ \A j \in 1 .. Len(w) + 1 : InsertAt(w, i, c)[j] = LetterAfter(w, i, c, j)
      BY <3>2, InsertProperties
    <3> QED
      BY <3>1, <3>3 DEF i, LetterAfter
  <2> HIDE DEF x
  <2>2. \A j \in 1 .. n + 1 : x[j] = wc[j]
    BY <1>1, <2>1
  <2>3. x = wc
    BY <1>1, <2>1, <2>2, SeqEqual
  <2> QED
    BY <2>3 DEF x
<1>3. RemoveAt(wc, n + 1) = w
  <2> DEFINE x == RemoveAt(wc, n + 1)
  <2>1. /\ x \in Seq(S) /\ Len(x) = n + 1 - 1
        /\ \A j \in 1 .. n + 1 - 1 : x[j] = IF j < n + 1 THEN wc[j] ELSE wc[j + 1]
    <3> DEFINE i == n + 1
    <3>1. i \in 1 .. Len(wc)
      BY <1>1
    <3> HIDE DEF i
    <3>2. /\ RemoveAt(wc, i) \in Seq(S) /\ Len(RemoveAt(wc, i)) = Len(wc) - 1
          /\ \A j \in 1 .. Len(wc) - 1 : RemoveAt(wc, i)[j] = IF j < i THEN wc[j] ELSE wc[j + 1]
      BY <1>1, <3>1, RemoveProperties
    <3> QED
      BY <1>1, <3>2 DEF i
  <2> HIDE DEF x
  <2>2. Len(x) = n /\ \A j \in 1 .. n : x[j] = w[j]
    BY <1>1, <2>1
  <2>3. x = w
    BY <1>1, <2>1, <2>2, SeqEqual DEF n
  <2> QED
    BY <2>3 DEF x
<1>4. ReplaceAt(wc, n + 1, d) = wd
  <2> DEFINE x == ReplaceAt(wc, n + 1, d)
  <2>1. /\ x \in Seq(S) /\ Len(x) = n + 1
        /\ \A j \in 1 .. n + 1 : x[j] = IF j = n + 1 THEN d ELSE wc[j]
    BY <1>1, ReplaceProperties
  <2> HIDE DEF x
  <2>2. \A j \in 1 .. n + 1 : x[j] = wd[j]
    BY <1>1, <2>1
  <2>3. x = wd
    BY <1>1, <2>1, <2>2, SeqEqual
  <2> QED
    BY <2>3 DEF x
<1> QED
  BY <1>2, <1>3, <1>4 DEF n, wc, wd

LEMMA ChangeBeforeEnd ==
  ASSUME NEW S, NEW w \in Seq(S), NEW c \in S, NEW d \in S
  PROVE  /\ \A i \in 1 .. Len(w) + 1 : InsertAt(Append(w, d), i, c) = Append(InsertAt(w, i, c), d)
         /\ \A i \in 1 .. Len(w) : /\ RemoveAt(Append(w, d), i) = Append(RemoveAt(w, i), d)
                                   /\ ReplaceAt(Append(w, d), i, c) = Append(ReplaceAt(w, i, c), d)
<1> DEFINE n == Len(w)
           wd == Append(w, d)
<1>1. /\ n \in Nat
      /\ wd \in Seq(S) /\ Len(wd) = n + 1 /\ wd[n + 1] = d /\ \A i \in 1 .. n : wd[i] = w[i]
  BY LenProperties, AppendProperties
<1> HIDE DEF n, wd
<1>2. ASSUME NEW i \in 1 .. n + 1
      PROVE  InsertAt(wd, i, c) = Append(InsertAt(w, i, c), d)
  <2> DEFINE x == InsertAt(wd, i, c)
             y == InsertAt(w, i, c)
             z == Append(y, d)
  <2>1. /\ x \in Seq(S) /\ Len(x) = n + 1 + 1
        /\ \A j \in 1 .. n + 1 + 1 : x[j] = IF j < i THEN wd[j] ELSE IF j = i THEN c ELSE wd[j - 1]
    <3>1. i \in 1 .. Len(wd) + 1
      BY <1>1
    <3>2. /\ InsertAt(wd, i, c) \in Seq(S) /\ Len(InsertAt(wd, i, c)) = Len(wd) + 1
          /\ \A j \in 1 .. Len(wd) + 1 : InsertAt(wd, i, c)[j] = LetterAfter(wd, i, c, j)
      BY <1>1, <3>1, InsertProperties
    <3> QED
      BY <1>1, <3>2 DEF LetterAfter
  <2>2. /\ y \in Seq(S) /\ Len(y) = n + 1
        /\ \A j \in 1 .. n + 1 : y[j] = IF j < i THEN w[j] ELSE IF j = i THEN c ELSE w[j - 1]
    <3>1. /\ InsertAt(w, i, c) \in Seq(S) /\ Len(InsertAt(w, i, c)) = Len(w) + 1
          /\ \A j \in 1 .. Len(w) + 1 : InsertAt(w, i, c)[j] = LetterAfter(w, i, c, j)
      <4>1. i \in 1 .. Len(w) + 1
        BY DEF n
      <4> QED
        BY <4>1, InsertProperties
    <3> QED
      BY <3>1 DEF n, LetterAfter
  <2> HIDE DEF x, y
  <2>3. /\ z \in Seq(S) /\ Len(z) = n + 1 + 1 /\ z[n + 1 + 1] = d
        /\ \A j \in 1 .. n + 1 : z[j] = y[j]
    BY <2>2, AppendProperties
  <2> HIDE DEF z
  <2>4. \A j \in 1 .. n + 1 + 1 : x[j] = z[j]
    <3> TAKE j \in 1 .. n + 1 + 1
    <3>1. CASE j = n + 1 + 1
      BY <1>1, <2>1, <2>3, <3>1
    <3>2. CASE j \in 1 .. n + 1
      <4>1. x[j] = IF j < i THEN wd[j] ELSE IF j = i THEN c ELSE wd[j - 1]
        BY <1>1, <2>1, <3>2
      <4>2. z[j] = IF j < i THEN w[j] ELSE IF j = i THEN c ELSE w[j - 1]
        BY <2>2, <2>3, <3>2
      <4>3. j < i => j \in 1 .. n
        BY <1>1, <3>2
      <4>4. j > i => j - 1 \in 1 .. n
        BY <1>1, <3>2
      <4>5. j < i \/ j = i \/ j > i
        BY <1>1, <3>2
      <4> QED
        BY <1>1, <3>2, <4>1, <4>2, <4>3, <4>4, <4>5
    <3> QED
      BY <1>1, <3>1, <3>2
  <2>5. x = z
    BY <2>1, <2>3, <2>4, SeqEqual
  <2> QED
    BY <2>5 DEF x, z, y
<1>3. ASSUME NEW i \in 1 .. n
      PROVE  RemoveAt(wd, i) = Append(RemoveAt(w, i), d)
  <2> DEFINE x == RemoveAt(wd, i)
             y == RemoveAt(w, i)
             z == Append(y, d)
  <2>1. /\ x \in Seq(S) /\ Len(x) = n + 1 - 1
        /\ \A j \in 1 .. n + 1 - 1 : x[j] = IF j < i THEN wd[j] ELSE wd[j + 1]
    <3>1. i \in 1 .. Len(wd)
      BY <1>1
    <3>2. /\ RemoveAt(wd, i) \in Seq(S) /\ Len(RemoveAt(wd, i)) = Len(wd) - 1
          /\ \A j \in 1 .. Len(wd) - 1 : RemoveAt(wd, i)[j] = IF j < i THEN wd[j] ELSE wd[j + 1]
      BY <1>1, <3>1, RemoveProperties
    <3> QED
      BY <1>1, <3>2
  <2>2. /\ y \in Seq(S) /\ Len(y) = n - 1
        /\ \A j \in 1 .. n - 1 : y[j] = IF j < i THEN w[j] ELSE w[j + 1]
    BY RemoveProperties DEF n
  <2> HIDE DEF x, y
  <2>3. /\ z \in Seq(S) /\ Len(z) = n /\ z[n] = d
        /\ \A j \in 1 .. n - 1 : z[j] = y[j]
    <3>1. n - 1 + 1 = n
      BY <1>1
    <3> QED
      BY <2>2, <3>1, AppendProperties
  <2> HIDE DEF z
  <2>4. Len(x) = n /\ \A j \in 1 .. n : x[j] = z[j]
    <3>1. Len(x) = n
      BY <1>1, <2>1
    <3> SUFFICES ASSUME NEW j \in 1 .. n PROVE x[j] = z[j]
      BY <3>1
    <3>2. CASE j = n
      BY <1>1, <2>1, <2>3, <3>2
    <3>3. CASE j \in 1 .. n - 1
      BY <1>1, <2>1, <2>2, <2>3, <3>3
    <3> QED
      BY <1>1, <3>2, <3>3
  <2>5. x = z
    BY <2>1, <2>3, <2>4, SeqEqual
  <2> QED
    BY <2>5 DEF x, z, y
<1>4. ASSUME NEW i \in 1 .. n
      PROVE  ReplaceAt(wd, i, c) = Append(ReplaceAt(w, i, c), d)
  <2> DEFINE x == ReplaceAt(wd, i, c)
             y == ReplaceAt(w, i, c)
             z == Append(y, d)
  <2>1. /\ x \in Seq(S) /\ Len(x) = n + 1
        /\ \A j \in 1 .. n + 1 : x[j] = IF j = i THEN c ELSE wd[j]
    <3>1. i \in 1 .. Len(wd)
      BY <1>1
    <3> QED
      BY <1>1, <3>1, ReplaceProperties
  <2>2. /\ y \in Seq(S) /\ Len(y) = n
        /\ \A j \in 1 .. n : y[j] = IF j = i THEN c ELSE w[j]
    BY ReplaceProperties DEF n
  <2> HIDE DEF x, y
  <2>3. /\ z \in Seq(S) /\ Len(z) = n + 1 /\ z[n + 1] = d
        /\ \A j \in 1 .. n : z[j] = y[j]
    <3>1. y \in Seq(S) /\ Len(y) = n
      BY <2>2
    <3>2. /\ z \in Seq(S) /\ Len(z) = Len(y) + 1 /\ z[Len(y) + 1] = d
          /\ \A j \in 1 .. Len(y) : z[j] = y[j]
      BY <3>1, AppendProperties
    <3> HIDE DEF z
    <3> QED
      BY <3>1, <3>2
  <2> HIDE DEF z
  <2>4. \A j \in 1 .. n + 1 : x[j] = z[j]
    <3> TAKE j \in 1 .. n + 1
    <3>1. CASE j = n + 1
      BY <1>1, <2>1, <2>3, <3>1
    <3>2. CASE j \in 1 .. n
      BY <1>1, <2>1, <2>2, <2>3, <3>2
    <3> QED
      BY <1>1, <3>1, <3>2
  <2>5. x = z
    BY <2>1, <2>3, <2>4, SeqEqual
  <2> QED
    BY <2>5 DEF x, z, y
<1> QED
  BY <1>2, <1>3, <1>4 DEF n, wd

-----------------------------------------------------------------------------
(* Syntax: a local part without its dots.                                    *)

\* kept[i] is what is left of the first i characters of l, for i up to n.
KeptAt(l, kept, i) ==
  IF i = 0 THEN <<>>
  ELSE IF l[i] = "." THEN kept[i - 1] ELSE Append(kept[i - 1], l[i])
KeptTo(l, n, kept) == kept = [i \in 0 .. n |-> KeptAt(l, kept, i)]

LEMMA KeptExists ==
  ASSUME NEW l
  PROVE  \A n \in Nat : \E kept : KeptTo(l, n, kept)
<1> DEFINE P == {n \in Nat : \E kept : KeptTo(l, n, kept)}
<1>1. 0 \in P
  <2> DEFINE kept == [i \in 0 .. 0 |-> <<>>]
  <2>1. KeptTo(l, 0, kept)
    BY DEF KeptTo, KeptAt
  <2> QED
    BY <2>1
<1>2. ASSUME NEW n \in Nat, n \in P PROVE n + 1 \in P
  <2>1. PICK old : KeptTo(l, n, old)
    BY <1>2
  <2> DEFINE new == [i \in 0 .. n + 1 |-> KeptAt(l, old, i)]
  <2>2. \A i \in 0 .. n : new[i] = old[i]
    BY <2>1 DEF KeptTo
  <2>3. \A i \in 0 .. n + 1 : KeptAt(l, old, i) = KeptAt(l, new, i)
    <3> HIDE DEF new
    <3>1. \A i \in 0 .. n + 1 : i # 0 => i - 1 \in 0 .. n
      OBVIOUS
    <3> QED
      BY <2>2, <3>1 DEF KeptAt
  <2>4. KeptTo(l, n + 1, new)
    BY <2>3 DEF KeptTo
  <2> QED
    BY <2>4
<1> HIDE DEF P
<1>3. Nat \subseteq P
  BY <1>1, <1>2, AllNumbers
<1> QED
  BY <1>3 DEF P

LEMMA UndottedTable ==
  ASSUME NEW l, Len(l) \in Nat
  PROVE  \E kept : KeptTo(l, Len(l), kept) /\ Undotted(l) = kept[Len(l)]
<1>1. KeptTo(l, Len(l), CHOOSE kept : KeptTo(l, Len(l), kept))
  BY KeptExists
<1>2. Undotted(l) = (CHOOSE kept : KeptTo(l, Len(l), kept))[Len(l)]
  BY DEF Undotted, KeptTo, KeptAt
<1> QED
  BY <1>1, <1>2

LEMMA KeptSteps ==
  ASSUME NEW l, NEW n \in Nat, NEW kept, KeptTo(l, n, kept)
  PROVE  /\ kept[0] = <<>>
         /\ \A i \in 0 .. n - 1 :
              kept[i + 1] = IF l[i + 1] = "." THEN kept[i] ELSE Append(kept[i], l[i + 1])
<1>1. \A i \in 0 .. n : kept[i] = KeptAt(l, kept, i)
  BY DEF KeptTo
<1>2. \A i \in 0 .. n - 1 : i + 1 \in 0 .. n /\ i + 1 # 0 /\ (i + 1) - 1 = i
  OBVIOUS
<1> QED
  BY <1>1, <1>2 DEF KeptAt

\* What is left of a beginning does not depend on what follows.
LEMMA KeptSame ==
  ASSUME NEW l, NEW m, NEW n \in Nat, NEW p \in Nat, NEW k1, NEW k2,
         KeptTo(l, n, k1), KeptTo(m, p, k2),
         NEW q \in Nat, q <= n, q <= p, \A i \in 1 .. q : l[i] = m[i]
  PROVE  k1[q] = k2[q]
<1> DEFINE P == {i \in Nat : i <= q => k1[i] = k2[i]}
<1>1. 0 \in P
  BY KeptSteps
<1>2. ASSUME NEW i \in Nat, i \in P PROVE i + 1 \in P
  <2> SUFFICES ASSUME i + 1 <= q PROVE k1[i + 1] = k2[i + 1]
    OBVIOUS
  <2>1. k1[i + 1] = IF l[i + 1] = "." THEN k1[i] ELSE Append(k1[i], l[i + 1])
    BY KeptSteps
  <2>2. k2[i + 1] = IF m[i + 1] = "." THEN k2[i] ELSE Append(k2[i], m[i + 1])
    BY KeptSteps
  <2> QED
    BY <1>2, <2>1, <2>2
<1> HIDE DEF P
<1>3. Nat \subseteq P
  BY <1>1, <1>2, AllNumbers
<1> QED
  BY <1>3 DEF P

\* From here on Undotted is known by how it grows.
LEMMA UndottedGrows ==
  ASSUME NEW S, NEW l \in Seq(S), NEW c \in S
  PROVE  Undotted(Append(l, c)) = IF c = "." THEN Undotted(l) ELSE Append(Undotted(l), c)
<1> DEFINE n == Len(l)
           m == Append(l, c)
<1>1. n \in Nat /\ Len(m) = n + 1 /\ m[n + 1] = c /\ \A i \in 1 .. n : m[i] = l[i]
  BY LenProperties, AppendProperties
<1>2. PICK old : KeptTo(l, n, old) /\ Undotted(l) = old[n]
  BY <1>1, UndottedTable
<1> HIDE DEF n, m
<1>3. PICK new : KeptTo(m, n + 1, new) /\ Undotted(m) = new[n + 1]
  <2>1. Len(m) \in Nat
    BY <1>1
  <2>2. PICK new : KeptTo(m, Len(m), new) /\ Undotted(m) = new[Len(m)]
    BY <2>1, UndottedTable
  <2> QED
    BY <1>1, <2>2
<1>4. new[n + 1] = IF m[n + 1] = "." THEN new[n] ELSE Append(new[n], m[n + 1])
  BY <1>1, <1>3, KeptSteps
<1>5. new[n] = old[n]
  BY <1>1, <1>2, <1>3, KeptSame
<1> QED
  BY <1>1, <1>2, <1>3, <1>4, <1>5 DEF m

LEMMA UndottedEmpty == Undotted(<<>>) = <<>>
  BY UndottedTable, EmptySeq, KeptSteps

LEMMA UndottedType ==
  ASSUME NEW S, NEW l \in Seq(S)
  PROVE  Undotted(l) \in Seq(S \ {"."}) /\ Len(Undotted(l)) <= Len(l)
<1> DEFINE P == {w \in Seq(S) : Undotted(w) \in Seq(S \ {"."}) /\ Len(Undotted(w)) <= Len(w)}
<1>1. <<>> \in P
  <2>1. \A T : <<>> \in Seq(T) /\ Len(<<>>) = 0
    BY EmptySeq
  <2>2. Undotted(<<>>) \in Seq(S \ {"."}) /\ Len(Undotted(<<>>)) = 0
    BY <2>1, UndottedEmpty
  <2> QED
    BY <2>1, <2>2
<1>2. ASSUME NEW w \in Seq(S), NEW c \in S, w \in P PROVE Append(w, c) \in P
  <2>1. Append(w, c) \in Seq(S) /\ Len(Append(w, c)) = Len(w) + 1 /\ Len(w) \in Nat
    BY AppendProperties, LenProperties
  <2>2. /\ Undotted(w) \in Seq(S \ {"."}) /\ Len(Undotted(w)) <= Len(w)
        /\ Len(Undotted(w)) \in Nat
    BY <1>2, LenProperties
  <2>3. Undotted(Append(w, c)) = IF c = "." THEN Undotted(w) ELSE Append(Undotted(w), c)
    BY UndottedGrows
  <2>4. c # "." => /\ Append(Undotted(w), c) \in Seq(S \ {"."})
                   /\ Len(Append(Undotted(w), c)) = Len(Undotted(w)) + 1
    BY <2>2, AppendProperties
  <2>5. CASE c = "."
    BY <2>1, <2>2, <2>3, <2>5
  <2>6. CASE c # "."
    <3>1. Undotted(Append(w, c)) \in Seq(S \ {"."})
      BY <2>3, <2>4, <2>6
    <3>2. Len(Undotted(Append(w, c))) <= Len(Append(w, c))
      BY <2>1, <2>2, <2>3, <2>4, <2>6
    <3> QED
      BY <2>1, <3>1, <3>2
  <2> QED
    BY <2>5, <2>6
<1> HIDE DEF P
<1>3. Seq(S) \subseteq P
  BY <1>1, <1>2, AllWords
<1> QED
  BY <1>3 DEF P

\* A word without dots stays as it is.
LEMMA UndottedIdle ==
  ASSUME NEW S, "." \notin S, NEW l \in Seq(S)
  PROVE  Undotted(l) = l
<1> DEFINE P == {w \in Seq(S) : Undotted(w) = w}
<1>1. <<>> \in P
  BY UndottedEmpty, EmptySeq
<1>2. ASSUME NEW w \in Seq(S), NEW c \in S, w \in P PROVE Append(w, c) \in P
  BY <1>2, UndottedGrows, AppendProperties
<1> HIDE DEF P
<1>3. Seq(S) \subseteq P
  BY <1>1, <1>2, AllWords
<1> QED
  BY <1>3 DEF P

\* Something is left of a word that does not begin with a dot.
LEMMA UndottedKeeps ==
  ASSUME NEW S, NEW l \in Seq(S), l # <<>>, l[1] # "."
  PROVE  Undotted(l) # <<>>
<1> DEFINE P == {w \in Seq(S) : w = <<>> \/ w[1] = "." \/ Undotted(w) # <<>>}
<1>1. <<>> \in P
  BY EmptySeq
<1>2. ASSUME NEW w \in Seq(S), NEW c \in S, w \in P PROVE Append(w, c) \in P
  <2>1. Append(w, c) \in Seq(S)
    BY AppendProperties
  <2>2. Undotted(Append(w, c)) = IF c = "." THEN Undotted(w) ELSE Append(Undotted(w), c)
    BY UndottedGrows
  <2>3. CASE w = <<>>
    <3>1. Append(w, c)[1] = c
      BY <2>3, AppendProperties, EmptySeq
    <3>2. c # "." => Append(Undotted(w), c) # <<>>
      BY UndottedType, AppendProperties
    <3> QED
      BY <2>1, <2>2, <3>1, <3>2
  <2>4. CASE w # <<>>
    <3>1. Append(w, c)[1] = w[1]
      BY <2>4, AppendProperties, LenProperties, EmptySeq
    <3>2. c # "." => Append(Undotted(w), c) # <<>>
      BY UndottedType, AppendProperties
    <3>3. w[1] = "." \/ Undotted(w) # <<>>
      BY <1>2, <2>4
    <3> QED
      BY <2>1, <2>2, <3>1, <3>2, <3>3
  <2> QED
    BY <2>3, <2>4
<1> HIDE DEF P
<1>3. Seq(S) \subseteq P
  BY <1>1, <1>2, AllWords
<1> QED
  BY <1>3 DEF P

\* A dot more does not matter.
LEMMA UndottedInsert ==
  ASSUME NEW S, "." \in S, NEW l \in Seq(S), NEW i \in 1 .. Len(l) + 1
  PROVE  Undotted(InsertAt(l, i, ".")) = Undotted(l)
<1> DEFINE P == {w \in Seq(S) : \A j \in 1 .. Len(w) + 1 : Undotted(InsertAt(w, j, ".")) = Undotted(w)}
<1>0. \A w \in Seq(S) : Undotted(InsertAt(w, Len(w) + 1, ".")) = Undotted(w)
  <2> TAKE w \in Seq(S)
  <2>1. InsertAt(w, Len(w) + 1, ".") = Append(w, ".")
    BY ChangeAtEnd
  <2> QED
    BY <2>1, UndottedGrows
<1>1. <<>> \in P
  <2>1. <<>> \in Seq(S) /\ Len(<<>>) = 0
    BY EmptySeq
  <2>2. \A j \in 1 .. Len(<<>>) + 1 : j = Len(<<>>) + 1
    BY <2>1
  <2> QED
    BY <1>0, <2>1, <2>2
<1>2. ASSUME NEW w \in Seq(S), NEW c \in S, w \in P PROVE Append(w, c) \in P
  <2> DEFINE wc == Append(w, c)
  <2>1. wc \in Seq(S) /\ Len(wc) = Len(w) + 1 /\ Len(w) \in Nat
    BY AppendProperties, LenProperties
  <2> SUFFICES ASSUME NEW j \in 1 .. Len(wc) + 1
               PROVE  Undotted(InsertAt(wc, j, ".")) = Undotted(wc)
    BY <2>1
  <2>2. CASE j = Len(wc) + 1
    BY <1>0, <2>1, <2>2
  <2>3. CASE j \in 1 .. Len(w) + 1
    <3>1. InsertAt(wc, j, ".") = Append(InsertAt(w, j, "."), c)
      BY <2>3, ChangeBeforeEnd
    <3>2. InsertAt(w, j, ".") \in Seq(S)
      BY <2>3, InsertProperties
    <3>3. Undotted(InsertAt(w, j, ".")) = Undotted(w)
      BY <1>2, <2>3
    <3>4. Undotted(wc) = IF c = "." THEN Undotted(w) ELSE Append(Undotted(w), c)
      BY UndottedGrows
    <3>5. Undotted(Append(InsertAt(w, j, "."), c)) =
            IF c = "." THEN Undotted(InsertAt(w, j, ".")) ELSE Append(Undotted(InsertAt(w, j, ".")), c)
      BY <3>2, UndottedGrows
    <3> QED
      BY <3>1, <3>3, <3>4, <3>5
  <2> QED
    BY <2>1, <2>2, <2>3
<1> HIDE DEF P
<1>3. Seq(S) \subseteq P
  BY <1>1, <1>2, AllWords
<1> QED
  BY <1>3 DEF P

-----------------------------------------------------------------------------
(* Syntax: the part of a local part before its suffix.                       *)

\* k is how many characters l has before its first "+", all of them if it has none.
Stem(l, k) ==
  /\ k \in 0 .. Len(l) /\ \A i \in 1 .. k : l[i] # "+"
  /\ k < Len(l) => l[k + 1] = "+"

LEMMA StemExists ==
  ASSUME NEW S, NEW l \in Seq(S)
  PROVE  \E k : Stem(l, k)
<1>1. Len(l) \in Nat
  BY LenProperties
<1> DEFINE plus == {i \in 1 .. Len(l) : l[i] = "+"}
<1>2. CASE plus = {}
  <2>1. Stem(l, Len(l))
    BY <1>1, <1>2 DEF Stem
  <2> QED
    BY <2>1
<1>3. CASE plus # {}
  <2>1. PICK i \in plus : \A j \in plus : i <= j
    <3>1. plus \subseteq Nat
      BY <1>1
    <3> HIDE DEF plus
    <3> QED
      BY <1>3, <3>1, First
  <2>2. Stem(l, i - 1)
    BY <1>1, <2>1 DEF Stem
  <2> QED
    BY <2>2
<1> QED
  BY <1>2, <1>3

\* What is normalised is the part before the first "+".
LEMMA NormaliseStem ==
  ASSUME NEW S, NEW l \in Seq(S), NEW k, Stem(l, k), NEW n
  PROVE  Normalise(l, n) = IF n \in GmailNames THEN Undotted(SubSeq(l, 1, k)) ELSE l
<1> DEFINE plus == {i \in DOMAIN l : l[i] = "+"}
<1>1. Len(l) \in Nat /\ DOMAIN l = 1 .. Len(l) /\ k \in 0 .. Len(l)
  BY LenProperties DEF Stem
<1>2. CASE plus = {}
  <2>1. ~(k < Len(l))
    <3>1. k < Len(l) => k + 1 \in 1 .. Len(l)
      BY <1>1
    <3>2. k < Len(l) => k + 1 \in plus
      BY <1>1, <3>1 DEF Stem
    <3> QED
      BY <1>2, <3>2
  <2>3. k = Len(l)
    <3> DEFINE n1 == Len(l)
    <3>1. n1 \in Nat /\ k \in 0 .. n1 /\ ~(k < n1)
      BY <1>1, <2>1
    <3>2. k = n1
      <4> HIDE DEF plus, n1
      <4> QED
        BY <3>1
    <3> QED
      BY <3>2
  <2>2. SubSeq(l, 1, Len(l)) = l
    <3> DEFINE x == SubSeq(l, 1, Len(l))
    <3>1. \A i \in 1 .. Len(l) : l[i] \in S
      BY ElementOfSeq
    <3>2. /\ x \in Seq(S) /\ Len(x) = IF 1 <= Len(l) THEN Len(l) - 1 + 1 ELSE 0
          /\ \A i \in 1 .. Len(l) - 1 + 1 : x[i] = l[1 + i - 1]
      BY <1>1, <3>1, SubSeqProperties
    <3> HIDE DEF x
    <3>3. Len(x) = Len(l) /\ \A i \in 1 .. Len(l) : x[i] = l[i]
      BY <1>1, <3>2
    <3>4. x = l
      BY <3>2, <3>3, SeqEqual
    <3> QED
      BY <3>4 DEF x
  <2> QED
    BY <1>2, <2>2, <2>3 DEF Normalise
<1>3. CASE plus # {}
  <2> DEFINE first == CHOOSE i \in plus : \A j \in plus : i <= j
  <2>1. k + 1 \in plus
    <3>1. PICK i \in plus : TRUE
      BY <1>3
    <3>2. i \in 1 .. Len(l) /\ i \notin 1 .. k
      BY <1>1, <3>1 DEF Stem
    <3>3. k < Len(l) /\ k + 1 \in 1 .. Len(l)
      <4> HIDE DEF plus
      <4> QED
        BY <1>1, <3>2
    <3> QED
      BY <1>1, <3>3 DEF Stem
  <2>2. \A j \in plus : k + 1 <= j
    <3> TAKE j \in plus
    <3>1. j \in 1 .. Len(l) /\ j \notin 1 .. k
      BY <1>1 DEF Stem
    <3> HIDE DEF plus
    <3> QED
      BY <1>1, <3>1
  <2>3. first \in plus /\ \A j \in plus : first <= j
    <3> HIDE DEF plus
    <3> QED
      BY <2>1, <2>2
  <2>4. first = k + 1
    <3>1. first \in 1 .. Len(l)
      BY <1>1, <2>3
    <3> HIDE DEF first, plus
    <3> QED
      BY <1>1, <2>1, <2>2, <2>3, <3>1
  <2>5. first - 1 = k
    <3>1. (k + 1) - 1 = k
      <4> HIDE DEF first, plus
      <4> QED
        BY <1>1
    <3> QED
      BY <2>4, <3>1
  <2> QED
    BY <1>3, <2>5 DEF Normalise
<1> QED
  BY <1>2, <1>3

-----------------------------------------------------------------------------
(* Syntax: the state, the normalised address and its aliases.                *)

LEMMA SubWord ==
  ASSUME NEW S, NEW l \in Seq(S), NEW k \in 0 .. Len(l)
  PROVE  /\ SubSeq(l, 1, k) \in Seq(S) /\ Len(SubSeq(l, 1, k)) = k
         /\ \A i \in 1 .. k : SubSeq(l, 1, k)[i] = l[i]
<1> DEFINE x == SubSeq(l, 1, k)
           n == Len(l)
<1>1. n \in Nat /\ k \in 0 .. n /\ \A i \in 1 .. n : l[i] \in S
  BY LenProperties, ElementOfSeq
<1> HIDE DEF n
<1>2. k \in Int /\ \A i \in 1 .. k : l[i] \in S
  BY <1>1
<1>3. /\ x \in Seq(S) /\ Len(x) = IF 1 <= k THEN k - 1 + 1 ELSE 0
      /\ \A i \in 1 .. k - 1 + 1 : x[i] = l[1 + i - 1]
  BY <1>2, SubSeqProperties
<1> HIDE DEF x
<1>4. Len(x) = k /\ \A i \in 1 .. k : x[i] = l[i]
  BY <1>1, <1>3
<1> QED
  BY <1>3, <1>4 DEF x

LEMMA WiderAlphabet ==
  ASSUME NEW S, NEW T, NEW w \in Seq(T), \A i \in 1 .. Len(w) : w[i] \in S
  PROVE  w \in Seq(S)
<1>1. Len(w) \in Nat /\ w = [i \in 1 .. Len(w) |-> w[i]]
  BY LenProperties
<1> QED
  BY <1>1, IsASeq

LEMMA LettersOf ==
  ASSUME NEW S, NEW w \in Seq(S), NEW c
  PROVE  c \in ToSet(w) <=> \E i \in 1 .. Len(w) : w[i] = c
BY LenProperties DEF ToSet

\* The address passes if it passes every test.
LEMMA CheckPassed ==
  ASSUME NEW l, NEW k, NEW n, NEW t \in Tlds
  PROVE  Check(l, k, n, t) = "passed" <=>
           /\ k = 1 /\ l # <<>> /\ ~TooLong(l, n) /\ DotRule(l)
           /\ "!" \notin ToSet(l) /\ t = "known"
<1> DEFINE long == TooLong(l, n)
           dots == DotRule(l)
           odd == "!" \in ToSet(l)
<1> HIDE DEF long, dots, odd
<1>1. Check(l, k, n, t) =
        CASE k # 1 \/ l = <<>> \/ (n = <<>> /\ t = "malformed") -> "syntax_error"
          [] k = 1 /\ l # <<>> /\ long -> "length_exceeded"
          [] k = 1 /\ l # <<>> /\ ~long /\ ~dots -> "dot_rule_violation"
          [] OTHER -> IF odd \/ t = "malformed" THEN "syntax_error"
                      ELSE IF t = "unknown" THEN "invalid_tld" ELSE "passed"
  BY DEF Check, long, dots, odd
<1>2. t \in {"known", "unknown", "malformed"}
  BY DEF Tlds
<1>3. Check(l, k, n, t) = "passed" <=> k = 1 /\ l # <<>> /\ ~long /\ dots /\ ~odd /\ t = "known"
  BY <1>1, <1>2
<1> QED
  BY <1>3 DEF long, dots, odd

LEMMA NormaliseType ==
  ASSUME NEW S, NEW l \in Seq(S), NEW n
  PROVE  Normalise(l, n) \in Seq(S)
<1>1. PICK k : Stem(l, k)
  BY StemExists
<1>2. SubSeq(l, 1, k) \in Seq(S)
  BY <1>1, SubWord DEF Stem
<1>3. Undotted(SubSeq(l, 1, k)) \in Seq(S \ {"."})
  BY <1>2, UndottedType
<1>4. Undotted(SubSeq(l, 1, k)) \in Seq(S)
  <2>1. \A i \in 1 .. Len(Undotted(SubSeq(l, 1, k))) : Undotted(SubSeq(l, 1, k))[i] \in S
    BY <1>3, ElementOfSeq
  <2> QED
    BY <1>3, <2>1, WiderAlphabet
<1> QED
  BY <1>1, <1>4, NormaliseStem

LEMMA EditsType ==
  ASSUME NEW n \in Seq(Letters)
  PROVE  Edits(n) \subseteq Seq(Letters)
<1>1. DOMAIN n = 1 .. Len(n)
  BY LenProperties
<1> QED
  BY <1>1, InsertProperties, RemoveProperties, ReplaceProperties DEF Edits

\* Every variable keeps to its kind.
THEOREM AddressesAreTyped == SyntaxSpec => []SyntaxTypeOK
<1> DEFINE T == /\ local \in Seq(LocalChars) /\ Len(local) <= MaxTyped /\ ats \in 0 .. 2
                /\ name \in Seq(Letters) /\ tld \in Tlds /\ typos \in 0 .. MaxTypos
<1>0. T => SyntaxTypeOK
  BY NormaliseType DEF SyntaxTypeOK, Normalised
<1>1. SyntaxInit => T
  <2> SUFFICES ASSUME SyntaxInit PROVE T
    OBVIOUS
  <2>1. local \in Seq(LocalChars) /\ Len(local) <= MaxTyped
    BY WordsAssumption, EmptySeq DEF SyntaxInit
  <2>2. name \in Seq(Letters)
    BY WordsAssumption, ElementOfSeq, LettersOf DEF SyntaxInit
  <2>3. typos \in 0 .. MaxTypos
    BY WordsAssumption DEF SyntaxInit
  <2> QED
    BY <2>1, <2>2, <2>3 DEF SyntaxInit
<1>2. T /\ [SyntaxNext]_syntaxVars => T'
  <2> SUFFICES ASSUME T, [SyntaxNext]_syntaxVars PROVE T'
    OBVIOUS
  <2>1. ASSUME NEW i \in 1 .. Len(local) + 1, NEW c \in LocalChars, Type(i, c) PROVE T'
    <3>1. local' \in Seq(LocalChars) /\ Len(local') = Len(local) + 1
      BY <2>1, InsertProperties DEF Type
    <3>2. Len(local) \in Nat
      BY LenProperties
    <3>3. Len(local') <= MaxTyped
      BY <2>1, <3>1, <3>2, WordsAssumption DEF Type
    <3> QED
      BY <2>1, <3>1, <3>3 DEF Type
  <2>2. ASSUME NEW n \in Edits(name) \ {name}, Mistype(n) PROVE T'
    BY <2>2, EditsType, WordsAssumption DEF Mistype
  <2>3. CASE UNCHANGED syntaxVars
    BY <2>3 DEF syntaxVars
  <2> QED
    BY <2>1, <2>2, <2>3 DEF SyntaxNext
<1>3. SyntaxSpec => []T
  <2> HIDE DEF T
  <2> QED
    BY <1>1, <1>2, PTL DEF SyntaxSpec
<1> QED
  <2> HIDE DEF T
  <2> QED
    BY <1>0, <1>3, PTL

\* The mailbox of a Gmail address that passes and is more than a suffix.
LEMMA GmailMailbox ==
  ASSUME NEW l \in Seq(LocalChars), NEW n, NEW t \in Tlds, Len(n) \in Nat,
         n \in GmailNames, Check(l, 1, n, t) = "passed", l[1] # "+"
  PROVE  /\ Normalise(l, n) \in Seq({"a"}) /\ Normalise(l, n) # <<>>
         /\ Len(Normalise(l, n)) <= Len(l)
<1>1. PICK k : Stem(l, k)
  BY StemExists
<1>2. /\ l # <<>> /\ l[1] # "." /\ \A i \in 1 .. Len(l) : l[i] # "!"
  BY CheckPassed, LettersOf DEF DotRule
<1>3. Len(l) \in Nat /\ Len(l) # 0
  BY <1>2, EmptySeq, LenProperties
<1> DEFINE b == SubSeq(l, 1, k)
<1>4. k \in 1 .. Len(l)
  BY <1>1, <1>3 DEF Stem
<1>5. b \in Seq(LocalChars) /\ Len(b) = k /\ \A i \in 1 .. k : b[i] = l[i]
  BY <1>1, SubWord DEF Stem
<1> HIDE DEF b
<1>6. b \in Seq({"a", "."})
  <2>1. \A i \in 1 .. k : b[i] \in LocalChars /\ b[i] # "+" /\ b[i] # "!"
    BY <1>1, <1>2, <1>3, <1>4, <1>5, ElementOfSeq DEF Stem
  <2>2. \A i \in 1 .. Len(b) : b[i] \in {"a", "."}
    BY <1>5, <2>1 DEF LocalChars
  <2> QED
    BY <1>5, <2>2, WiderAlphabet
<1>7. b # <<>> /\ b[1] # "."
  BY <1>2, <1>4, <1>5, EmptySeq
<1>8. Undotted(b) \in Seq({"a"})
  <2>1. {"a", "."} \ {"."} = {"a"}
    OBVIOUS
  <2> QED
    BY <1>6, <2>1, UndottedType
<1>9. Undotted(b) # <<>> /\ Len(Undotted(b)) <= k
  BY <1>5, <1>6, <1>7, UndottedKeeps, UndottedType
<1>10. Normalise(l, n) = Undotted(b)
  BY <1>1, NormaliseStem DEF b
<1>11. Len(Undotted(b)) \in Nat
  BY <1>8, LenProperties
<1> QED
  BY <1>3, <1>4, <1>8, <1>9, <1>10, <1>11

\* syntax.py:115, 128: a normalised address passes, and is normalised already.
THEOREM NormalisedAddressesAreStable == SyntaxSpec => []NormalisedIsStable
<1>1. SyntaxTypeOK => NormalisedIsStable
  <2> SUFFICES ASSUME SyntaxTypeOK, Passed PROVE NormalisedIsStable
    BY DEF NormalisedIsStable
  <2>1. /\ local \in Seq(LocalChars) /\ tld \in Tlds /\ Len(name) \in Nat /\ Len(local) \in Nat
    BY LenProperties DEF SyntaxTypeOK
  <2>2. /\ ats = 1 /\ Check(local, 1, name, tld) = "passed"
    BY <2>1, CheckPassed DEF Passed
  <2>3. CASE name \notin GmailNames
    <3>1. PICK k : Stem(local, k)
      BY <2>1, StemExists
    <3>2. Normalise(local, name) = local
      BY <2>1, <2>3, <3>1, NormaliseStem
    <3> QED
      BY <2>2, <2>3, <3>2 DEF NormalisedIsStable, Normalised
  <2>4. CASE name \in GmailNames /\ local[1] = "+"
    <3>1. Stem(local, 0)
      <4>1. local # <<>>
        BY <2>1, <2>2, CheckPassed
      <4>2. Len(local) # 0
        BY <2>1, <4>1, EmptySeq
      <4> QED
        BY <2>1, <2>4, <4>2 DEF Stem
    <3>2. SubSeq(local, 1, 0) = <<>>
      BY <2>1, SubWord, EmptySeq
    <3>3. Normalise(local, name) = <<>>
      <4>1. Normalise(local, name) = Undotted(SubSeq(local, 1, 0))
        BY <2>1, <2>4, <3>1, NormaliseStem
      <4> QED
        BY <3>2, <4>1, UndottedEmpty
    <3> QED
      BY <2>4, <3>3 DEF NormalisedIsStable, Normalised
  <2>5. CASE name \in GmailNames /\ local[1] # "+"
    <3> DEFINE u == Normalise(local, name)
    <3>1. u \in Seq({"a"}) /\ u # <<>> /\ Len(u) <= Len(local)
      BY <2>1, <2>2, <2>5, GmailMailbox
    <3> HIDE DEF u
    <3>2. Len(u) \in Nat /\ Len(u) # 0 /\ \A i \in 1 .. Len(u) : u[i] = "a"
      BY <3>1, LenProperties, EmptySeq, ElementOfSeq
    <3>3. Check(u, 1, name, tld) = "passed"
      <4>1. ~TooLong(local, name) /\ tld = "known"
        BY <2>1, <2>2, CheckPassed
      <4>2. ~TooLong(u, name)
        BY <2>1, <3>1, <3>2, <4>1, WordsAssumption DEF TooLong
      <4>3. DotRule(u)
        BY <3>2 DEF DotRule
      <4>4. "!" \notin ToSet(u)
        BY <3>1, <3>2, LettersOf
      <4> QED
        BY <2>1, <3>1, <4>1, <4>2, <4>3, <4>4, CheckPassed
    <3>4. Normalise(u, name) = u
      <4>1. Stem(u, Len(u))
        BY <3>2 DEF Stem
      <4>2. SubSeq(u, 1, Len(u)) = u
        <5>1. Len(u) \in 0 .. Len(u)
          BY <3>2
        <5>2. /\ SubSeq(u, 1, Len(u)) \in Seq({"a"}) /\ Len(SubSeq(u, 1, Len(u))) = Len(u)
              /\ \A i \in 1 .. Len(u) : SubSeq(u, 1, Len(u))[i] = u[i]
          BY <3>1, <5>1, SubWord
        <5> QED
          BY <3>1, <5>2, SeqEqual
      <4>3. Undotted(u) = u
        BY <3>1, UndottedIdle
      <4> QED
        BY <3>1, <4>1, <4>2, <4>3, NormaliseStem
    <3> QED
      BY <2>5, <3>3, <3>4 DEF NormalisedIsStable, Normalised, u
  <2> QED
    BY <2>3, <2>4, <2>5
<1> QED
  BY <1>1, AddressesAreTyped, PTL

\* The mailbox of a Gmail address does not depend on a dot in it, nor on what
\* follows the "+".
LEMMA SameMailbox ==
  ASSUME NEW l \in Seq(LocalChars), NEW n \in GmailNames
  PROVE  /\ \A i \in 1 .. Len(l) + 1 : Normalise(InsertAt(l, i, "."), n) = Normalise(l, n)
         /\ "+" \in ToSet(l) => \A c \in LocalChars : Normalise(Append(l, c), n) = Normalise(l, n)
<1>1. PICK k : Stem(l, k)
  BY StemExists
<1> DEFINE b == SubSeq(l, 1, k)
<1>2. /\ Len(l) \in Nat /\ k \in 0 .. Len(l)
      /\ \A i \in 1 .. k : l[i] # "+"
      /\ k < Len(l) => l[k + 1] = "+"
  BY <1>1, LenProperties DEF Stem
<1>3. b \in Seq(LocalChars) /\ Len(b) = k /\ \A i \in 1 .. k : b[i] = l[i]
  BY <1>2, SubWord
<1>4. Normalise(l, n) = Undotted(b)
  BY <1>1, NormaliseStem
<1> HIDE DEF b
<1>5. ASSUME NEW i \in 1 .. Len(l) + 1
      PROVE  Normalise(InsertAt(l, i, "."), n) = Normalise(l, n)
  <2> DEFINE x == InsertAt(l, i, ".")
  <2>1. /\ x \in Seq(LocalChars) /\ Len(x) = Len(l) + 1
        /\ \A j \in 1 .. Len(l) + 1 : x[j] = IF j < i THEN l[j] ELSE IF j = i THEN "." ELSE l[j - 1]
    <3>1. "." \in LocalChars
      BY DEF LocalChars
    <3>2. /\ x \in Seq(LocalChars) /\ Len(x) = Len(l) + 1
          /\ \A j \in 1 .. Len(l) + 1 : x[j] = LetterAfter(l, i, ".", j)
      BY <3>1, InsertProperties
    <3> QED
      BY <3>2 DEF LetterAfter
  <2> HIDE DEF x
  <2>2. CASE i > k + 1
    <3>1. Stem(x, k)
      BY <1>2, <2>1, <2>2 DEF Stem
    <3> DEFINE y == SubSeq(x, 1, k)
    <3>2. y \in Seq(LocalChars) /\ Len(y) = k /\ \A j \in 1 .. k : y[j] = x[j]
      BY <2>1, <3>1, SubWord DEF Stem
    <3> HIDE DEF y
    <3>3. \A j \in 1 .. k : y[j] = b[j]
      BY <1>2, <1>3, <2>1, <2>2, <3>2
    <3>4. y = b
      BY <1>3, <3>2, <3>3, SeqEqual
    <3>5. Normalise(x, n) = Undotted(y)
      BY <2>1, <3>1, NormaliseStem DEF y
    <3> QED
      BY <1>4, <3>4, <3>5 DEF x
  <2>3. CASE i <= k + 1
    <3>1. Stem(x, k + 1)
      <4>1. \A j \in 1 .. k + 1 : x[j] # "+"
        <5> TAKE j \in 1 .. k + 1
        <5>1. x[j] = IF j < i THEN l[j] ELSE IF j = i THEN "." ELSE l[j - 1]
          BY <1>2, <2>1
        <5>2. j < i => j \in 1 .. k
          BY <1>2, <2>3
        <5>3. j > i => j - 1 \in 1 .. k
          BY <1>2, <2>3
        <5>4. j < i \/ j = i \/ j > i
          BY <1>2
        <5> QED
          BY <1>2, <5>1, <5>2, <5>3, <5>4
      <4>2. k + 1 < Len(x) => x[k + 1 + 1] = "+"
        BY <1>2, <2>1, <2>3
      <4> QED
        BY <1>2, <2>1, <4>1, <4>2 DEF Stem
    <3> DEFINE y == SubSeq(x, 1, k + 1)
               z == InsertAt(b, i, ".")
    <3>2. y \in Seq(LocalChars) /\ Len(y) = k + 1 /\ \A j \in 1 .. k + 1 : y[j] = x[j]
      BY <2>1, <3>1, SubWord DEF Stem
    <3>3. i \in 1 .. Len(b) + 1
      BY <1>2, <1>3, <2>3
    <3>4. /\ z \in Seq(LocalChars) /\ Len(z) = k + 1
          /\ \A j \in 1 .. k + 1 : z[j] = IF j < i THEN b[j] ELSE IF j = i THEN "." ELSE b[j - 1]
      <4>1. "." \in LocalChars
        BY DEF LocalChars
      <4>2. /\ z \in Seq(LocalChars) /\ Len(z) = Len(b) + 1
            /\ \A j \in 1 .. Len(b) + 1 : z[j] = LetterAfter(b, i, ".", j)
        BY <1>3, <3>3, <4>1, InsertProperties
      <4> QED
        BY <1>3, <4>2 DEF LetterAfter
    <3> HIDE DEF y, z
    <3>5. \A j \in 1 .. k + 1 : y[j] = z[j]
      <4> TAKE j \in 1 .. k + 1
      <4>1. y[j] = IF j < i THEN l[j] ELSE IF j = i THEN "." ELSE l[j - 1]
        BY <1>2, <2>1, <3>2
      <4>2. z[j] = IF j < i THEN b[j] ELSE IF j = i THEN "." ELSE b[j - 1]
        BY <3>4
      <4>3. j < i => j \in 1 .. k
        BY <1>2, <2>3
      <4>4. j > i => j - 1 \in 1 .. k
        BY <1>2, <2>3
      <4>5. j < i \/ j = i \/ j > i
        BY <1>2
      <4> QED
        BY <1>2, <1>3, <4>1, <4>2, <4>3, <4>4, <4>5
    <3>6. y = z
      BY <3>2, <3>4, <3>5, SeqEqual
    <3>7. Undotted(z) = Undotted(b)
      BY <1>3, <3>3, UndottedInsert DEF z, LocalChars
    <3>8. Normalise(x, n) = Undotted(y)
      BY <2>1, <3>1, NormaliseStem DEF y
    <3> QED
      BY <1>4, <3>6, <3>7, <3>8 DEF x
  <2> QED
    BY <1>2, <2>2, <2>3
<1>6. ASSUME "+" \in ToSet(l), NEW c \in LocalChars
      PROVE  Normalise(Append(l, c), n) = Normalise(l, n)
  <2> DEFINE x == Append(l, c)
  <2>1. x \in Seq(LocalChars) /\ Len(x) = Len(l) + 1 /\ \A j \in 1 .. Len(l) : x[j] = l[j]
    BY AppendProperties
  <2> HIDE DEF x
  <2>2. k + 1 \in 1 .. Len(l)
    <3>1. PICK j \in 1 .. Len(l) : l[j] = "+"
      BY <1>6, LettersOf
    <3>2. j \notin 1 .. k
      BY <1>2, <3>1
    <3> QED
      BY <1>2, <3>1, <3>2
  <2>3. Stem(x, k)
    BY <1>2, <2>1, <2>2 DEF Stem
  <2> DEFINE y == SubSeq(x, 1, k)
  <2>4. y \in Seq(LocalChars) /\ Len(y) = k /\ \A j \in 1 .. k : y[j] = x[j]
    BY <2>1, <2>3, SubWord DEF Stem
  <2> HIDE DEF y
  <2>5. \A j \in 1 .. k : y[j] = b[j]
    <3> TAKE j \in 1 .. k
    <3>1. j \in 1 .. Len(l)
      BY <1>2
    <3> QED
      BY <1>3, <2>1, <2>4, <3>1
  <2>6. y = b
    BY <1>3, <2>4, <2>5, SeqEqual
  <2>7. Normalise(x, n) = Undotted(y)
    BY <2>1, <2>3, NormaliseStem DEF y
  <2> QED
    BY <1>4, <2>6, <2>7 DEF x
<1> QED
  BY <1>5, <1>6

\* syntax.py:110-118: a dot more, or a character more after the "+", is the
\* same mailbox at Gmail's domains, and another one everywhere else.
THEOREM AliasesAreOneMailbox == SyntaxSpec => AliasesCollapse
<1> DEFINE Variant ==
      \/ \E i \in 1 .. Len(local) + 1 : local' = InsertAt(local, i, ".")
      \/ "+" \in ToSet(local) /\ \E c \in LocalChars : local' = Append(local, c)
<1>1. /\ SyntaxTypeOK /\ SyntaxTypeOK' /\ [SyntaxNext]_syntaxVars
      /\ local' # local /\ Variant
      => (Normalised' = Normalised <=> name \in GmailNames)
  <2> SUFFICES ASSUME SyntaxTypeOK, SyntaxTypeOK', [SyntaxNext]_syntaxVars, local' # local, Variant
               PROVE  Normalised' = Normalised <=> name \in GmailNames
    OBVIOUS
  <2>1. name' = name
    <3>1. \E i \in 1 .. Len(local) + 1, c \in LocalChars : Type(i, c)
      BY DEF SyntaxNext, syntaxVars, Mistype
    <3> QED
      BY <3>1 DEF Type
  <2>2. local \in Seq(LocalChars) /\ local' \in Seq(LocalChars)
    BY DEF SyntaxTypeOK
  <2>3. Normalised = Normalise(local, name) /\ Normalised' = Normalise(local', name)
    BY <2>1 DEF Normalised
  <2>4. CASE name \in GmailNames
    BY <2>2, <2>3, <2>4, SameMailbox
  <2>5. CASE name \notin GmailNames
    <3>1. \A l \in Seq(LocalChars) : Normalise(l, name) = l
      BY <2>5, StemExists, NormaliseStem
    <3> QED
      BY <2>2, <2>3, <2>5, <3>1
  <2> QED
    BY <2>4, <2>5
<1>2. SyntaxTypeOK /\ SyntaxTypeOK' /\ [SyntaxNext]_syntaxVars
      => [/\ Passed /\ Passed' /\ local' # local
     /\ \/ \E i \in 1 .. Len(local) + 1 : local' = InsertAt(local, i, ".")
        \/ "+" \in ToSet(local) /\ \E c \in LocalChars : local' = Append(local, c)
     => (Normalised' = Normalised <=> name \in GmailNames)]_syntaxVars
  BY <1>1
<1> QED
  BY <1>2, AddressesAreTyped, PTL DEF SyntaxSpec, AliasesCollapse

-----------------------------------------------------------------------------
(* Syntax: the distance.  dp[<<i, j>>] is that of the first i letters of a   *)
(* and the first j letters of b.                                             *)

DistanceAt(a, b, dp, i, j) ==
  IF i = 0 THEN j
  ELSE IF j = 0 THEN i
  ELSE IF a[i] = b[j] THEN dp[<<i - 1, j - 1>>]
  ELSE 1 + Least(dp[<<i - 1, j - 1>>], Least(dp[<<i - 1, j>>], dp[<<i, j - 1>>]))
Cells(n, m) == (0 .. n) \X (0 .. m)
DistancesIn(a, b, S, dp) == dp = [cell \in S |-> DistanceAt(a, b, dp, cell[1], cell[2])]

LEMMA CellParts ==
  ASSUME NEW n \in Nat, NEW m \in Nat
  PROVE  /\ \A i \in 0 .. n, j \in 0 .. m :
              <<i, j>> \in Cells(n, m) /\ <<i, j>>[1] = i /\ <<i, j>>[2] = j
         /\ \A cell \in Cells(n, m) :
              cell[1] \in 0 .. n /\ cell[2] \in 0 .. m /\ cell = <<cell[1], cell[2]>>
BY DEF Cells

\* The table is filled one diagonal after the other.
LEMMA DistancesExist ==
  ASSUME NEW a, NEW b, NEW n \in Nat, NEW m \in Nat
  PROVE  \E dp : DistancesIn(a, b, Cells(n, m), dp)
<1> DEFINE Upto(k) == {cell \in Cells(n, m) : cell[1] + cell[2] <= k}
           P == {k \in Nat : \E dp : DistancesIn(a, b, Upto(k), dp)}
<1>1. 0 \in P
  <2> DEFINE dp == [cell \in Upto(0) |-> 0]
  <2>1. \A cell \in Upto(0) : cell[1] = 0 /\ cell[2] = 0
    BY CellParts
  <2>2. \A cell \in Upto(0) : DistanceAt(a, b, dp, cell[1], cell[2]) = 0
    <3> HIDE DEF dp, Upto
    <3> QED
      BY <2>1 DEF DistanceAt
  <2>3. DistancesIn(a, b, Upto(0), dp)
    <3> HIDE DEF Upto
    <3> QED
      BY <2>2 DEF DistancesIn
  <2> QED
    BY <2>3
<1>2. ASSUME NEW k \in Nat, k \in P PROVE k + 1 \in P
  <2>1. PICK old : DistancesIn(a, b, Upto(k), old)
    BY <1>2
  <2> DEFINE new == [cell \in Upto(k + 1) |-> DistanceAt(a, b, old, cell[1], cell[2])]
  <2>2. Upto(k) \subseteq Upto(k + 1)
    BY CellParts
  <2>3. \A cell \in Upto(k) : new[cell] = old[cell]
    <3> HIDE DEF Upto
    <3> QED
      BY <2>1, <2>2 DEF DistancesIn
  <2>4. ASSUME NEW cell \in Upto(k + 1)
        PROVE  DistanceAt(a, b, old, cell[1], cell[2]) = DistanceAt(a, b, new, cell[1], cell[2])
    <3> DEFINE i == cell[1]
               j == cell[2]
    <3>1. i \in 0 .. n /\ j \in 0 .. m /\ i + j <= k + 1
      BY CellParts
    <3>2. i # 0 /\ j # 0 => /\ <<i - 1, j - 1>> \in Upto(k)
                            /\ <<i - 1, j>> \in Upto(k) /\ <<i, j - 1>> \in Upto(k)
      <4> HIDE DEF i, j
      <4> SUFFICES ASSUME i # 0, j # 0
                   PROVE  /\ <<i - 1, j - 1>> \in Upto(k)
                          /\ <<i - 1, j>> \in Upto(k) /\ <<i, j - 1>> \in Upto(k)
        OBVIOUS
      <4>1. /\ i - 1 \in 0 .. n /\ j - 1 \in 0 .. m
            /\ (i - 1) + (j - 1) <= k /\ (i - 1) + j <= k /\ i + (j - 1) <= k
        BY <3>1
      <4> QED
        BY <3>1, <4>1 DEF Cells
    <3> HIDE DEF i, j, Upto, new
    <3>3. DistanceAt(a, b, old, i, j) = DistanceAt(a, b, new, i, j)
      BY <2>3, <3>2 DEF DistanceAt
    <3> QED
      BY <3>3 DEF i, j
  <2>5. DistancesIn(a, b, Upto(k + 1), new)
    <3> HIDE DEF Upto
    <3> QED
      BY <2>4 DEF DistancesIn
  <2> HIDE DEF new, Upto
  <2> QED
    BY <2>5
<1> HIDE DEF P
<1>3. Nat \subseteq P
  BY <1>1, <1>2, AllNumbers
<1>4. Upto(n + m) = Cells(n, m)
  <2>1. \A cell \in Cells(n, m) : cell[1] + cell[2] <= n + m
    BY CellParts
  <2> QED
    BY <2>1
<1>5. n + m \in P
  BY <1>3
<1> QED
  BY <1>4, <1>5 DEF P

LEMMA DistanceTable ==
  ASSUME NEW a, NEW b, Len(a) \in Nat, Len(b) \in Nat
  PROVE  \E dp : /\ DistancesIn(a, b, Cells(Len(a), Len(b)), dp)
                 /\ Levenshtein(a, b) = dp[<<Len(a), Len(b)>>]
<1> DEFINE dp == CHOOSE f : DistancesIn(a, b, Cells(Len(a), Len(b)), f)
<1>1. DistancesIn(a, b, Cells(Len(a), Len(b)), dp)
  BY DistancesExist
<1>2. Levenshtein(a, b) = dp[<<Len(a), Len(b)>>]
  BY DEF Levenshtein, DistancesIn, DistanceAt, Cells
<1> QED
  BY <1>1, <1>2

\* The same table, without a subtraction.
DistanceNext(a, b, dp, i, j) ==
  IF a[i + 1] = b[j + 1] THEN dp[<<i, j>>]
  ELSE 1 + Least(dp[<<i, j>>], Least(dp[<<i, j + 1>>], dp[<<i + 1, j>>]))
Distances(a, b, n, m, dp) ==
  /\ \A j \in 0 .. m : dp[<<0, j>>] = j
  /\ \A i \in 0 .. n : dp[<<i, 0>>] = i
  /\ \A i \in 0 .. n - 1, j \in 0 .. m - 1 : dp[<<i + 1, j + 1>>] = DistanceNext(a, b, dp, i, j)

LEMMA DistanceSteps ==
  ASSUME NEW a, NEW b, NEW n \in Nat, NEW m \in Nat, NEW dp, DistancesIn(a, b, Cells(n, m), dp)
  PROVE  Distances(a, b, n, m, dp)
<1>1. \A i \in 0 .. n, j \in 0 .. m : dp[<<i, j>>] = DistanceAt(a, b, dp, i, j)
  <2>1. \A cell \in Cells(n, m) : dp[cell] = DistanceAt(a, b, dp, cell[1], cell[2])
    BY DEF DistancesIn
  <2> QED
    BY <2>1, CellParts
<1>2. \A j \in 0 .. m : dp[<<0, j>>] = j
  <2>1. \A j : DistanceAt(a, b, dp, 0, j) = j
    BY DEF DistanceAt
  <2>2. 0 \in 0 .. n
    OBVIOUS
  <2> QED
    BY <1>1, <2>1, <2>2
<1>3. \A i \in 0 .. n : dp[<<i, 0>>] = i
  <2>1. \A i : DistanceAt(a, b, dp, i, 0) = i
    BY DEF DistanceAt
  <2>2. 0 \in 0 .. m
    OBVIOUS
  <2> QED
    BY <1>1, <2>1, <2>2
<1>4. ASSUME NEW i \in 0 .. n - 1, NEW j \in 0 .. m - 1
      PROVE  dp[<<i + 1, j + 1>>] = DistanceNext(a, b, dp, i, j)
  <2>1. /\ i + 1 \in 0 .. n /\ j + 1 \in 0 .. m /\ i + 1 # 0 /\ j + 1 # 0
        /\ (i + 1) - 1 = i /\ (j + 1) - 1 = j
    OBVIOUS
  <2>2. dp[<<i + 1, j + 1>>] = DistanceAt(a, b, dp, i + 1, j + 1)
    BY <1>1, <2>1
  <2> QED
    BY <2>1, <2>2 DEF DistanceAt, DistanceNext
<1> QED
  BY <1>2, <1>3, <1>4 DEF Distances

\* a and b begin with the same n letters.
SameStart(a, b, n) == \A i \in 1 .. n : a[i] = b[i]
SameDistance(dp1, dp2, p, q) == dp1[<<p, q>>] = dp2[<<p, q>>]

\* The distance of two beginnings does not depend on what follows them.
LEMMA DistancesAgree ==
  ASSUME NEW a, NEW b, NEW n \in Nat, NEW m \in Nat, NEW dp, DistancesIn(a, b, Cells(n, m), dp),
         NEW a2, NEW b2, NEW n2 \in Nat, NEW m2 \in Nat, NEW dp2,
         DistancesIn(a2, b2, Cells(n2, m2), dp2),
         NEW p \in 0 .. n, p \in 0 .. n2, NEW q \in 0 .. m, q \in 0 .. m2,
         SameStart(a, a2, p), SameStart(b, b2, q)
  PROVE  SameDistance(dp, dp2, p, q)
<1> DEFINE P == {k \in Nat : \A i \in 0 .. p, j \in 0 .. q : i + j <= k => dp[<<i, j>>] = dp2[<<i, j>>]}
<1> Distances(a, b, n, m, dp) /\ Distances(a2, b2, n2, m2, dp2)
  BY DistanceSteps
<1>0. \A i \in 0 .. p, j \in 0 .. q : i = 0 \/ j = 0 => dp[<<i, j>>] = dp2[<<i, j>>]
  <2>1. /\ \A j \in 0 .. m : dp[<<0, j>>] = j
        /\ \A i \in 0 .. n : dp[<<i, 0>>] = i
    BY DEF Distances
  <2>2. /\ \A j \in 0 .. m2 : dp2[<<0, j>>] = j
        /\ \A i \in 0 .. n2 : dp2[<<i, 0>>] = i
    BY DEF Distances
  <2> QED
    BY <2>1, <2>2
<1>1. 0 \in P
  BY <1>0
<1>2. ASSUME NEW k \in Nat, k \in P PROVE k + 1 \in P
  <2> SUFFICES ASSUME NEW x \in 0 .. p, NEW y \in 0 .. q, x + y <= k + 1, x # 0, y # 0
               PROVE  dp[<<x, y>>] = dp2[<<x, y>>]
    BY <1>0
  <2> DEFINE i == x - 1
             j == y - 1
  <2>1. /\ x = i + 1 /\ y = j + 1 /\ i \in 0 .. n - 1 /\ j \in 0 .. m - 1
        /\ i \in 0 .. n2 - 1 /\ j \in 0 .. m2 - 1
        /\ i \in 0 .. p /\ i + 1 \in 1 .. p /\ j \in 0 .. q /\ j + 1 \in 1 .. q
        /\ i + 1 \in 0 .. p /\ j + 1 \in 0 .. q
        /\ i + j <= k /\ i + (j + 1) <= k /\ (i + 1) + j <= k
    OBVIOUS
  <2> HIDE DEF i, j
  <2>2. dp[<<i + 1, j + 1>>] =
          IF a[i + 1] = b[j + 1] THEN dp[<<i, j>>]
          ELSE 1 + Least(dp[<<i, j>>], Least(dp[<<i, j + 1>>], dp[<<i + 1, j>>]))
    BY <2>1 DEF Distances, DistanceNext
  <2>3. dp2[<<i + 1, j + 1>>] =
          IF a2[i + 1] = b2[j + 1] THEN dp2[<<i, j>>]
          ELSE 1 + Least(dp2[<<i, j>>], Least(dp2[<<i, j + 1>>], dp2[<<i + 1, j>>]))
    BY <2>1 DEF Distances, DistanceNext
  <2>4. /\ dp[<<i, j>>] = dp2[<<i, j>>] /\ dp[<<i, j + 1>>] = dp2[<<i, j + 1>>]
        /\ dp[<<i + 1, j>>] = dp2[<<i + 1, j>>]
    BY <1>2, <2>1
  <2>5. a[i + 1] = a2[i + 1] /\ b[j + 1] = b2[j + 1]
    BY <2>1 DEF SameStart
  <2> QED
    BY <2>1, <2>2, <2>3, <2>4, <2>5
<1> HIDE DEF P
<1>3. Nat \subseteq P
  BY <1>1, <1>2, AllNumbers
<1>4. p + q \in P
  BY <1>3
<1> QED
  BY <1>4 DEF P, SameDistance

\* u is a beginning of a, and dp has the distance of u and v.
Begins(u, a, n) == Len(u) \in 0 .. n /\ SameStart(a, u, Len(u))

DistanceIsAt(u, v, dp) == Levenshtein(u, v) = dp[<<Len(u), Len(v)>>]

LEMMA DistanceOfBeginnings ==
  ASSUME NEW a, NEW b, NEW n \in Nat, NEW m \in Nat, NEW dp, DistancesIn(a, b, Cells(n, m), dp),
         NEW u, NEW v, Begins(u, a, n), Begins(v, b, m)
  PROVE  DistanceIsAt(u, v, dp)
<1> DEFINE p == Len(u)
           q == Len(v)
<1>1. /\ p \in Nat /\ q \in Nat /\ p \in 0 .. n /\ q \in 0 .. m
      /\ p \in 0 .. p /\ q \in 0 .. q
  BY DEF Begins
<1>2. PICK dp2 : DistancesIn(u, v, Cells(p, q), dp2) /\ Levenshtein(u, v) = dp2[<<p, q>>]
  BY <1>1, DistanceTable
<1>3. SameStart(a, u, p) /\ SameStart(b, v, q)
  BY DEF Begins
<1> HIDE DEF p, q
<1>4. SameDistance(dp, dp2, p, q)
  BY <1>1, <1>2, <1>3, DistancesAgree
<1> QED
  BY <1>2, <1>4 DEF p, q, DistanceIsAt, SameDistance

LEMMA DistanceFromNothing ==
  ASSUME NEW S, NEW w \in Seq(S)
  PROVE  Levenshtein(<<>>, w) = Len(w) /\ Levenshtein(w, <<>>) = Len(w)
<1>1. Len(w) \in Nat /\ Len(<<>>) = 0 /\ 0 \in Nat
  BY LenProperties, EmptySeq
<1>2. Levenshtein(<<>>, w) = Len(w)
  <2>1. PICK dp : /\ DistancesIn(<<>>, w, Cells(Len(<<>>), Len(w)), dp)
                  /\ Levenshtein(<<>>, w) = dp[<<Len(<<>>), Len(w)>>]
    BY <1>1, DistanceTable
  <2>2. DistancesIn(<<>>, w, Cells(0, Len(w)), dp) /\ Levenshtein(<<>>, w) = dp[<<0, Len(w)>>]
    BY <1>1, <2>1
  <2>3. Distances(<<>>, w, 0, Len(w), dp)
    BY <1>1, <2>2, DistanceSteps
  <2>4. Len(w) \in 0 .. Len(w)
    BY <1>1
  <2> QED
    BY <2>2, <2>3, <2>4 DEF Distances
<1>3. Levenshtein(w, <<>>) = Len(w)
  <2>1. PICK dp : /\ DistancesIn(w, <<>>, Cells(Len(w), Len(<<>>)), dp)
                  /\ Levenshtein(w, <<>>) = dp[<<Len(w), Len(<<>>)>>]
    BY <1>1, DistanceTable
  <2>2. DistancesIn(w, <<>>, Cells(Len(w), 0), dp) /\ Levenshtein(w, <<>>) = dp[<<Len(w), 0>>]
    BY <1>1, <2>1
  <2>3. Distances(w, <<>>, Len(w), 0, dp)
    BY <1>1, <2>2, DistanceSteps
  <2>4. Len(w) \in 0 .. Len(w)
    BY <1>1
  <2> QED
    BY <2>2, <2>3, <2>4 DEF Distances
<1> QED
  BY <1>2, <1>3

\* From here on the distance is known by how it grows.
LEMMA DistanceGrows ==
  ASSUME NEW S, NEW u \in Seq(S), NEW c \in S, NEW v \in Seq(S), NEW d \in S
  PROVE  Levenshtein(Append(u, c), Append(v, d)) =
           IF c = d THEN Levenshtein(u, v)
           ELSE 1 + Least(Levenshtein(u, v),
                          Least(Levenshtein(u, Append(v, d)), Levenshtein(Append(u, c), v)))
<1> DEFINE a == Append(u, c)
           b == Append(v, d)
           n == Len(u)
           m == Len(v)
<1>1. /\ n \in Nat /\ Len(a) = n + 1 /\ a[n + 1] = c /\ \A i \in 1 .. n : a[i] = u[i]
      /\ m \in Nat /\ Len(b) = m + 1 /\ b[m + 1] = d /\ \A j \in 1 .. m : b[j] = v[j]
  BY LenProperties, AppendProperties
<1> HIDE DEF a, b
<1>2. PICK dp : /\ DistancesIn(a, b, Cells(Len(a), Len(b)), dp)
                /\ Levenshtein(a, b) = dp[<<Len(a), Len(b)>>]
  <2>1. Len(a) \in Nat /\ Len(b) \in Nat
    BY <1>1
  <2> QED
    BY <2>1, DistanceTable
<1>3. /\ DistancesIn(a, b, Cells(n + 1, m + 1), dp) /\ n + 1 \in Nat /\ m + 1 \in Nat
      /\ Levenshtein(a, b) = dp[<<n + 1, m + 1>>]
  BY <1>1, <1>2
<1>4. Distances(a, b, n + 1, m + 1, dp)
  BY <1>3, DistanceSteps
<1> DEFINE x == n + 1
           y == m + 1
<1>5. /\ x \in Nat /\ y \in Nat /\ DistancesIn(a, b, Cells(x, y), dp)
      /\ Begins(u, a, x) /\ Begins(a, a, x) /\ Begins(v, b, y) /\ Begins(b, b, y)
  BY <1>1, <1>3 DEF Begins, SameStart
<1> HIDE DEF x, y
<1>6. DistanceIsAt(u, v, dp)
  BY <1>5, DistanceOfBeginnings
<1>7. DistanceIsAt(u, b, dp)
  BY <1>5, DistanceOfBeginnings
<1>8. DistanceIsAt(a, v, dp)
  BY <1>5, DistanceOfBeginnings
<1>9. dp[<<n + 1, m + 1>>] = DistanceNext(a, b, dp, n, m)
  <2>1. n \in 0 .. (n + 1) - 1 /\ m \in 0 .. (m + 1) - 1
    BY <1>1
  <2> QED
    BY <1>4, <2>1 DEF Distances
<1>10. DistanceNext(a, b, dp, n, m) =
         IF c = d THEN Levenshtein(u, v)
         ELSE 1 + Least(Levenshtein(u, v), Least(Levenshtein(u, b), Levenshtein(a, v)))
  BY <1>1, <1>6, <1>7, <1>8 DEF DistanceNext, DistanceIsAt
<1> QED
  BY <1>3, <1>9, <1>10 DEF a, b

-----------------------------------------------------------------------------
(* Syntax: what follows of the distance from how it grows.                   *)

\* Induction over two words: a set that has the pairs with an empty word, and
\* with three pairs the one that is longer in both words, has all pairs.
LEMMA AllPairs ==
  ASSUME NEW S, NEW P,
         \A w \in Seq(S) : <<<<>>, w>> \in P /\ <<w, <<>>>> \in P,
         \A u \in Seq(S), v \in Seq(S), c \in S, d \in S :
           /\ <<u, v>> \in P /\ <<u, Append(v, d)>> \in P /\ <<Append(u, c), v>> \in P
           => <<Append(u, c), Append(v, d)>> \in P
  PROVE  Seq(S) \X Seq(S) \subseteq P
<1> DEFINE Q == {u \in Seq(S) : \A v \in Seq(S) : <<u, v>> \in P}
<1>1. <<>> \in Q
  BY EmptySeq
<1>2. ASSUME NEW u \in Seq(S), NEW c \in S, u \in Q PROVE Append(u, c) \in Q
  <2> DEFINE R == {v \in Seq(S) : <<Append(u, c), v>> \in P}
  <2>1. Append(u, c) \in Seq(S)
    BY AppendProperties
  <2>2. <<>> \in R
    BY <2>1, EmptySeq
  <2>3. ASSUME NEW v \in Seq(S), NEW d \in S, v \in R PROVE Append(v, d) \in R
    <3>1. Append(v, d) \in Seq(S)
      BY AppendProperties
    <3>2. <<u, v>> \in P /\ <<u, Append(v, d)>> \in P /\ <<Append(u, c), v>> \in P
      BY <1>2, <2>3, <3>1
    <3>3. <<Append(u, c), Append(v, d)>> \in P
      BY <3>2
    <3> QED
      BY <3>1, <3>3
  <2> HIDE DEF R
  <2>4. Seq(S) \subseteq R
    BY <2>2, <2>3, AllWords
  <2> QED
    BY <2>1, <2>4 DEF R
<1> HIDE DEF Q
<1>3. Seq(S) \subseteq Q
  BY <1>1, <1>2, AllWords
<1> QED
  BY <1>3 DEF Q

LEMMA DistanceIsNat ==
  ASSUME NEW S, NEW a \in Seq(S), NEW b \in Seq(S)
  PROVE  Levenshtein(a, b) \in Nat /\ (Levenshtein(a, b) = 0 => a = b)
<1> DEFINE Good(u, v) == Levenshtein(u, v) \in Nat /\ (Levenshtein(u, v) = 0 => u = v)
           P == {p \in Seq(S) \X Seq(S) : Good(p[1], p[2])}
<1>1. \A u \in Seq(S), v \in Seq(S) : <<u, v>> \in P <=> Good(u, v)
  <2> HIDE DEF Good
  <2> QED
    OBVIOUS
<1>2. ASSUME NEW w \in Seq(S) PROVE <<<<>>, w>> \in P /\ <<w, <<>>>> \in P
  <2>1. Len(w) \in Nat /\ (Len(w) = 0 => w = <<>>)
    BY LenProperties, EmptySeq
  <2>2. Good(<<>>, w) /\ Good(w, <<>>)
    BY <2>1, DistanceFromNothing
  <2>3. <<>> \in Seq(S)
    BY EmptySeq
  <2> HIDE DEF P, Good
  <2> QED
    BY <1>1, <2>2, <2>3
<1>3. ASSUME NEW u \in Seq(S), NEW v \in Seq(S), NEW c \in S, NEW d \in S,
             <<u, v>> \in P, <<u, Append(v, d)>> \in P, <<Append(u, c), v>> \in P
      PROVE  <<Append(u, c), Append(v, d)>> \in P
  <2>1. Append(u, c) \in Seq(S) /\ Append(v, d) \in Seq(S)
    BY AppendProperties
  <2>2. Good(u, v) /\ Good(u, Append(v, d)) /\ Good(Append(u, c), v)
    <3> HIDE DEF P, Good
    <3> QED
      BY <1>1, <1>3, <2>1
  <2>3. Good(Append(u, c), Append(v, d))
    <3>1. CASE c = d
      BY <2>2, <3>1, DistanceGrows
    <3>2. CASE c # d
      <4>1. Levenshtein(Append(u, c), Append(v, d)) =
              1 + Least(Levenshtein(u, v),
                        Least(Levenshtein(u, Append(v, d)), Levenshtein(Append(u, c), v)))
        BY <3>2, DistanceGrows
      <4> QED
        BY <2>2, <4>1 DEF Least
    <3> QED
      BY <3>1, <3>2
  <2> HIDE DEF P, Good
  <2> QED
    BY <1>1, <2>1, <2>3
<1>4. <<a, b>> \in P
  <2> HIDE DEF P
  <2>1. Seq(S) \X Seq(S) \subseteq P
    BY <1>2, <1>3, AllPairs
  <2> QED
    BY <2>1
<1> QED
  BY <1>1, <1>4

LEMMA DistanceToItself ==
  ASSUME NEW S, NEW a \in Seq(S)
  PROVE  Levenshtein(a, a) = 0
<1> DEFINE P == {w \in Seq(S) : Levenshtein(w, w) = 0}
<1>1. <<>> \in P
  BY EmptySeq, DistanceFromNothing
<1>2. ASSUME NEW w \in Seq(S), NEW c \in S, w \in P PROVE Append(w, c) \in P
  BY <1>2, DistanceGrows, AppendProperties
<1> HIDE DEF P
<1>3. Seq(S) \subseteq P
  BY <1>1, <1>2, AllWords
<1> QED
  BY <1>3 DEF P

LEMMA DistanceSymmetric ==
  ASSUME NEW S, NEW a \in Seq(S), NEW b \in Seq(S)
  PROVE  Levenshtein(a, b) = Levenshtein(b, a)
<1> DEFINE Good(u, v) == Levenshtein(u, v) = Levenshtein(v, u)
           P == {p \in Seq(S) \X Seq(S) : Good(p[1], p[2])}
<1>1. \A u \in Seq(S), v \in Seq(S) : <<u, v>> \in P <=> Good(u, v)
  <2> HIDE DEF Good
  <2> QED
    OBVIOUS
<1>2. ASSUME NEW w \in Seq(S) PROVE <<<<>>, w>> \in P /\ <<w, <<>>>> \in P
  <2>2. Good(<<>>, w) /\ Good(w, <<>>)
    BY DistanceFromNothing
  <2>3. <<>> \in Seq(S)
    BY EmptySeq
  <2> HIDE DEF P, Good
  <2> QED
    BY <1>1, <2>2, <2>3
<1>3. ASSUME NEW u \in Seq(S), NEW v \in Seq(S), NEW c \in S, NEW d \in S,
             <<u, v>> \in P, <<u, Append(v, d)>> \in P, <<Append(u, c), v>> \in P
      PROVE  <<Append(u, c), Append(v, d)>> \in P
  <2>1. Append(u, c) \in Seq(S) /\ Append(v, d) \in Seq(S)
    BY AppendProperties
  <2>2. Good(u, v) /\ Good(u, Append(v, d)) /\ Good(Append(u, c), v)
    <3> HIDE DEF P, Good
    <3> QED
      BY <1>1, <1>3, <2>1
  <2>3. Good(Append(u, c), Append(v, d))
    <3>1. CASE c = d
      BY <2>2, <3>1, DistanceGrows
    <3>2. CASE c # d
      <4>1. Levenshtein(Append(u, c), Append(v, d)) =
              1 + Least(Levenshtein(u, v),
                        Least(Levenshtein(u, Append(v, d)), Levenshtein(Append(u, c), v)))
        BY <3>2, DistanceGrows
      <4>2. Levenshtein(Append(v, d), Append(u, c)) =
              1 + Least(Levenshtein(v, u),
                        Least(Levenshtein(v, Append(u, c)), Levenshtein(Append(v, d), u)))
        BY <3>2, DistanceGrows
      <4>3. /\ Levenshtein(u, Append(v, d)) \in Nat
            /\ Levenshtein(Append(u, c), v) \in Nat
        BY <2>1, DistanceIsNat
      <4> QED
        BY <2>2, <4>1, <4>2, <4>3 DEF Least
    <3> QED
      BY <3>1, <3>2
  <2> HIDE DEF P, Good
  <2> QED
    BY <1>1, <2>1, <2>3
<1>4. <<a, b>> \in P
  <2> HIDE DEF P
  <2>1. Seq(S) \X Seq(S) \subseteq P
    BY <1>2, <1>3, AllPairs
  <2> QED
    BY <2>1
<1> QED
  BY <1>1, <1>4

\* A letter at the end of a changes its distance from b by one at most.
Near(S, a, b) ==
  \A c \in S : /\ Levenshtein(Append(a, c), b) <= Levenshtein(a, b) + 1
               /\ Levenshtein(a, b) <= Levenshtein(Append(a, c), b) + 1

\* The same for b with a letter more.
LEMMA NearGrows ==
  ASSUME NEW S, NEW u \in Seq(S), NEW v \in Seq(S), NEW d \in S, Near(S, u, v), Near(S, v, u)
  PROVE  Near(S, u, Append(v, d))
<1> SUFFICES ASSUME NEW c \in S
             PROVE  /\ Levenshtein(Append(u, c), Append(v, d)) <= Levenshtein(u, Append(v, d)) + 1
                    /\ Levenshtein(u, Append(v, d)) <= Levenshtein(Append(u, c), Append(v, d)) + 1
  BY DEF Near
<1> DEFINE uc == Append(u, c)
           vd == Append(v, d)
           uv == Levenshtein(u, v)
           ucv == Levenshtein(uc, v)
           uvd == Levenshtein(u, vd)
           both == Levenshtein(uc, vd)
<1>1. uc \in Seq(S) /\ vd \in Seq(S)
  BY AppendProperties
<1>2. uv \in Nat /\ ucv \in Nat /\ uvd \in Nat
  BY <1>1, DistanceIsNat
<1>3. both = IF c = d THEN uv ELSE 1 + Least(uv, Least(uvd, ucv))
  BY DistanceGrows
<1>4. ucv <= uv + 1 /\ uv <= ucv + 1
  BY DEF Near
<1>5. uvd <= uv + 1 /\ uv <= uvd + 1
  BY <1>1, DistanceSymmetric DEF Near
<1> HIDE DEF uv, ucv, uvd, both
<1>6. both <= uvd + 1 /\ uvd <= both + 1
  BY <1>2, <1>3, <1>4, <1>5 DEF Least
<1> QED
  BY <1>6 DEF uvd, both

LEMMA NearNothing ==
  ASSUME NEW S, NEW w \in Seq(S)
  PROVE  Near(S, <<>>, w) /\ Near(S, w, <<>>)
<1> DEFINE P == {v \in Seq(S) : Near(S, <<>>, v)}
<1>0. <<>> \in Seq(S) /\ Len(<<>>) = 0
  BY EmptySeq
<1>1. \A v \in Seq(S) : Near(S, v, <<>>)
  <2> SUFFICES ASSUME NEW v \in Seq(S), NEW c \in S
               PROVE  /\ Levenshtein(Append(v, c), <<>>) <= Levenshtein(v, <<>>) + 1
                      /\ Levenshtein(v, <<>>) <= Levenshtein(Append(v, c), <<>>) + 1
    BY DEF Near
  <2>1. Append(v, c) \in Seq(S) /\ Len(Append(v, c)) = Len(v) + 1 /\ Len(v) \in Nat
    BY AppendProperties, LenProperties
  <2>2. Levenshtein(v, <<>>) = Len(v) /\ Levenshtein(Append(v, c), <<>>) = Len(v) + 1
    BY <2>1, DistanceFromNothing
  <2> QED
    BY <2>1, <2>2
<1>2. <<>> \in P
  BY <1>0, <1>1
<1>3. ASSUME NEW v \in Seq(S), NEW d \in S, v \in P PROVE Append(v, d) \in P
  BY <1>0, <1>1, <1>3, NearGrows, AppendProperties
<1> HIDE DEF P
<1>4. Seq(S) \subseteq P
  BY <1>2, <1>3, AllWords
<1> QED
  BY <1>1, <1>4 DEF P

LEMMA AlwaysNear ==
  ASSUME NEW S, NEW a \in Seq(S), NEW b \in Seq(S)
  PROVE  Near(S, a, b) /\ Near(S, b, a)
<1> DEFINE Good(u, v) == Near(S, u, v) /\ Near(S, v, u)
           P == {p \in Seq(S) \X Seq(S) : Good(p[1], p[2])}
<1>1. \A u \in Seq(S), v \in Seq(S) : <<u, v>> \in P <=> Good(u, v)
  <2> HIDE DEF Good
  <2> QED
    OBVIOUS
<1>2. ASSUME NEW w \in Seq(S) PROVE <<<<>>, w>> \in P /\ <<w, <<>>>> \in P
  <2>2. Good(<<>>, w) /\ Good(w, <<>>)
    BY NearNothing
  <2>3. <<>> \in Seq(S)
    BY EmptySeq
  <2> HIDE DEF P, Good
  <2> QED
    BY <1>1, <2>2, <2>3
<1>3. ASSUME NEW u \in Seq(S), NEW v \in Seq(S), NEW c \in S, NEW d \in S,
             <<u, v>> \in P, <<u, Append(v, d)>> \in P, <<Append(u, c), v>> \in P
      PROVE  <<Append(u, c), Append(v, d)>> \in P
  <2>1. Append(u, c) \in Seq(S) /\ Append(v, d) \in Seq(S)
    BY AppendProperties
  <2>2. Good(u, Append(v, d)) /\ Good(Append(u, c), v)
    <3> HIDE DEF P, Good
    <3> QED
      BY <1>1, <1>3, <2>1
  <2>3. Good(Append(u, c), Append(v, d))
    BY <2>1, <2>2, NearGrows
  <2> HIDE DEF P, Good
  <2> QED
    BY <1>1, <2>1, <2>3
<1>4. <<a, b>> \in P
  <2> HIDE DEF P
  <2>1. Seq(S) \X Seq(S) \subseteq P
    BY <1>2, <1>3, AllPairs
  <2> QED
    BY <2>1
<1> QED
  BY <1>1, <1>4

LEMMA EditsAre ==
  ASSUME NEW w \in Seq(Letters), NEW e
  PROVE  e \in Edits(w) <=>
           \/ \E i \in 1 .. Len(w) + 1, d \in Letters : e = InsertAt(w, i, d)
           \/ \E i \in 1 .. Len(w) : e = RemoveAt(w, i)
           \/ \E i \in 1 .. Len(w), d \in Letters : e = ReplaceAt(w, i, d)
<1>1. DOMAIN w = 1 .. Len(w)
  BY LenProperties
<1> QED
  BY <1>1 DEF Edits

\* The changes of a word are those of all but its last letter, and those of
\* its last letter.
LEMMA EditsOfAppend ==
  ASSUME NEW u \in Seq(Letters), NEW c \in Letters
  PROVE  \A e : e \in Edits(Append(u, c)) <=>
           \/ e = u
           \/ \E d \in Letters : e = Append(u, d) \/ e = Append(Append(u, c), d)
           \/ \E f \in Edits(u) : e = Append(f, c)
<1> DEFINE w == Append(u, c)
           n == Len(u)
<1>1. n \in Nat /\ w \in Seq(Letters) /\ Len(w) = n + 1 /\ DOMAIN w = 1 .. n + 1 /\ DOMAIN u = 1 .. n
  BY AppendProperties, LenProperties
<1>2. /\ \A d \in Letters : InsertAt(u, n + 1, d) = Append(u, d)
      /\ RemoveAt(w, n + 1) = u
      /\ \A d \in Letters : ReplaceAt(w, n + 1, d) = Append(u, d)
  BY ChangeAtEnd
<1>3. \A d \in Letters : InsertAt(w, n + 2, d) = Append(w, d)
  <2>1. \A d \in Letters : InsertAt(w, Len(w) + 1, d) = Append(w, d)
    BY <1>1, ChangeAtEnd
  <2>2. Len(w) + 1 = n + 2
    BY <1>1
  <2> QED
    BY <2>1, <2>2
<1>4. /\ \A d \in Letters, i \in 1 .. n + 1 : InsertAt(w, i, d) = Append(InsertAt(u, i, d), c)
      /\ \A i \in 1 .. n : RemoveAt(w, i) = Append(RemoveAt(u, i), c)
      /\ \A d \in Letters, i \in 1 .. n : ReplaceAt(w, i, d) = Append(ReplaceAt(u, i, d), c)
  BY ChangeBeforeEnd
<1> SUFFICES ASSUME NEW e
             PROVE  e \in Edits(w) <=>
                      \/ e = u
                      \/ \E d \in Letters : e = Append(u, d) \/ e = Append(w, d)
                      \/ \E f \in Edits(u) : e = Append(f, c)
  OBVIOUS
<1> HIDE DEF w, n
<1>5. /\ n + 1 \in 1 .. Len(w) /\ n + 2 \in 1 .. Len(w) + 1
      /\ \A i \in 1 .. n + 1 : i \in 1 .. Len(w) + 1
      /\ \A i \in 1 .. n : i \in 1 .. Len(w)
      /\ \A i \in 1 .. Len(w) + 1 : i = n + 2 \/ i \in 1 .. n + 1
      /\ \A i \in 1 .. Len(w) : i = n + 1 \/ i \in 1 .. n
  BY <1>1
<1>6. \A f : f \in Edits(u) <=>
        \/ \E i \in 1 .. n + 1, d \in Letters : f = InsertAt(u, i, d)
        \/ \E i \in 1 .. n : f = RemoveAt(u, i)
        \/ \E i \in 1 .. n, d \in Letters : f = ReplaceAt(u, i, d)
  BY EditsAre DEF n
<1>7. ASSUME e \in Edits(w)
      PROVE  \/ e = u
             \/ \E d \in Letters : e = Append(u, d) \/ e = Append(w, d)
             \/ \E f \in Edits(u) : e = Append(f, c)
  <2>1. CASE \E i \in 1 .. Len(w) + 1, d \in Letters : e = InsertAt(w, i, d)
    <3>1. PICK i \in 1 .. Len(w) + 1, d \in Letters : e = InsertAt(w, i, d)
      BY <2>1
    <3>2. CASE i = n + 2
      BY <1>3, <3>1, <3>2
    <3>3. CASE i \in 1 .. n + 1
      <4>1. InsertAt(u, i, d) \in Edits(u)
        BY <1>6, <3>3
      <4> QED
        BY <1>4, <3>1, <3>3, <4>1
    <3> QED
      BY <1>5, <3>2, <3>3
  <2>2. CASE \E i \in 1 .. Len(w) : e = RemoveAt(w, i)
    <3>1. PICK i \in 1 .. Len(w) : e = RemoveAt(w, i)
      BY <2>2
    <3>2. CASE i = n + 1
      BY <1>2, <3>1, <3>2
    <3>3. CASE i \in 1 .. n
      <4>1. RemoveAt(u, i) \in Edits(u)
        BY <1>6, <3>3
      <4> QED
        BY <1>4, <3>1, <3>3, <4>1
    <3> QED
      BY <1>5, <3>2, <3>3
  <2>3. CASE \E i \in 1 .. Len(w), d \in Letters : e = ReplaceAt(w, i, d)
    <3>1. PICK i \in 1 .. Len(w), d \in Letters : e = ReplaceAt(w, i, d)
      BY <2>3
    <3>2. CASE i = n + 1
      BY <1>2, <3>1, <3>2
    <3>3. CASE i \in 1 .. n
      <4>1. ReplaceAt(u, i, d) \in Edits(u)
        BY <1>6, <3>3
      <4> QED
        BY <1>4, <3>1, <3>3, <4>1
    <3> QED
      BY <1>5, <3>2, <3>3
  <2> QED
    BY <1>1, <1>7, <2>1, <2>2, <2>3, EditsAre
<1>8. ASSUME NEW f \in Edits(u), e = Append(f, c)
      PROVE  e \in Edits(w)
  <2>1. CASE \E i \in 1 .. n + 1, d \in Letters : f = InsertAt(u, i, d)
    <3>1. PICK i \in 1 .. n + 1, d \in Letters : f = InsertAt(u, i, d)
      BY <2>1
    <3> QED
      BY <1>1, <1>4, <1>5, <1>8, <3>1, EditsAre
  <2>2. CASE \E i \in 1 .. n : f = RemoveAt(u, i)
    BY <1>1, <1>4, <1>5, <1>8, <2>2, EditsAre
  <2>3. CASE \E i \in 1 .. n, d \in Letters : f = ReplaceAt(u, i, d)
    <3>1. PICK i \in 1 .. n, d \in Letters : f = ReplaceAt(u, i, d)
      BY <2>3
    <3> QED
      BY <1>1, <1>4, <1>5, <1>8, <3>1, EditsAre
  <2> QED
    BY <1>6, <2>1, <2>2, <2>3
<1>9. ASSUME e = u PROVE e \in Edits(w)
  BY <1>1, <1>2, <1>5, <1>9, EditsAre
<1>10. ASSUME NEW d \in Letters, e = Append(u, d) PROVE e \in Edits(w)
  BY <1>1, <1>2, <1>5, <1>10, EditsAre
<1>11. ASSUME NEW d \in Letters, e = Append(w, d) PROVE e \in Edits(w)
  BY <1>1, <1>3, <1>5, <1>11, EditsAre
<1> QED
  BY <1>7, <1>8, <1>9, <1>10, <1>11

LEMMA EditsOfNothing ==
  Edits(<<>>) = {Append(<<>>, d) : d \in Letters}
<1>1. <<>> \in Seq(Letters) /\ Len(<<>>) = 0 /\ DOMAIN <<>> = {}
  BY EmptySeq, LenProperties
<1>2. \A d \in Letters : InsertAt(<<>>, 1, d) = Append(<<>>, d)
  <2>1. \A d \in Letters : InsertAt(<<>>, Len(<<>>) + 1, d) = Append(<<>>, d)
    BY <1>1, ChangeAtEnd
  <2> QED
    BY <1>1, <2>1
<1>3. 1 .. Len(<<>>) + 1 = {1}
  BY <1>1
<1> QED
  BY <1>1, <1>2, <1>3 DEF Edits

LEMMA SameLastLetter ==
  ASSUME NEW S, NEW u \in Seq(S), NEW v \in Seq(S), NEW c \in S
  PROVE  Levenshtein(Append(u, c), Append(v, c)) = Levenshtein(u, v)
BY DistanceGrows

LEMMA LeastWithinOne ==
  ASSUME NEW x1 \in Nat, NEW x2 \in Nat, NEW x3 \in Nat,
         NEW y1 \in Nat, NEW y2 \in Nat, NEW y3 \in Nat,
         x1 <= y1 + 1, x2 <= y2 + 1, x3 <= y3 + 1
  PROVE  1 + Least(x1, Least(x2, x3)) <= 1 + Least(y1, Least(y2, y3)) + 1
BY DEF Least

\* Of two words that differ, one change brings the first nearer the second.
LEMMA OneChangeNearer ==
  ASSUME NEW a \in Seq(Letters), NEW b \in Seq(Letters), a # b
  PROVE  \E e \in Edits(a) : Levenshtein(a, b) = Levenshtein(e, b) + 1
<1> DEFINE Good(u, v) == u # v => \E e \in Edits(u) : Levenshtein(u, v) = Levenshtein(e, v) + 1
           P == {p \in Seq(Letters) \X Seq(Letters) : Good(p[1], p[2])}
<1>0. <<>> \in Seq(Letters)
  BY EmptySeq
<1>1. \A u \in Seq(Letters), v \in Seq(Letters) : <<u, v>> \in P <=> Good(u, v)
  <2> HIDE DEF Good
  <2> QED
    OBVIOUS
<1>2. ASSUME NEW w \in Seq(Letters) PROVE <<<<>>, w>> \in P /\ <<w, <<>>>> \in P
  <2>1. Good(<<>>, w) /\ Good(w, <<>>)
    <3>1. CASE w = <<>>
      BY <3>1
    <3>2. CASE w # <<>>
      <4>1. PICK v \in Seq(Letters), c \in Letters : w = Append(v, c)
        BY <3>2, SequenceEmptyOrAppend
      <4>2. Len(w) = Len(v) + 1
        BY <4>1, AppendProperties
      <4>3. /\ Levenshtein(<<>>, w) = Len(v) + 1 /\ Levenshtein(w, <<>>) = Len(v) + 1
            /\ Levenshtein(<<>>, v) = Len(v) /\ Levenshtein(v, <<>>) = Len(v)
        BY <4>2, DistanceFromNothing
      <4>4. Levenshtein(Append(<<>>, c), w) = Len(v)
        <5>1. Levenshtein(Append(<<>>, c), Append(v, c)) = Levenshtein(<<>>, v)
          BY <1>0, SameLastLetter
        <5> QED
          BY <4>1, <4>3, <5>1
      <4>5. Append(<<>>, c) \in Edits(<<>>) /\ v \in Edits(w)
        BY <4>1, EditsOfNothing, EditsOfAppend
      <4> QED
        BY <4>3, <4>4, <4>5
    <3> QED
      BY <3>1, <3>2
  <2> HIDE DEF P, Good
  <2> QED
    BY <1>0, <1>1, <2>1
<1>3. ASSUME NEW u \in Seq(Letters), NEW v \in Seq(Letters), NEW c \in Letters, NEW d \in Letters,
             <<u, v>> \in P, <<u, Append(v, d)>> \in P, <<Append(u, c), v>> \in P
      PROVE  <<Append(u, c), Append(v, d)>> \in P
  <2> DEFINE uc == Append(u, c)
             vd == Append(v, d)
  <2>1. uc \in Seq(Letters) /\ vd \in Seq(Letters)
    BY AppendProperties
  <2>2. Good(u, v)
    <3> HIDE DEF P, Good
    <3> QED
      BY <1>1, <1>3
  <2>3. Good(uc, vd)
    <3>1. CASE c = d
      <4> SUFFICES ASSUME uc # vd
                   PROVE  \E e \in Edits(uc) : Levenshtein(uc, vd) = Levenshtein(e, vd) + 1
        OBVIOUS
      <4>1. PICK f \in Edits(u) : Levenshtein(u, v) = Levenshtein(f, v) + 1
        BY <2>2, <3>1
      <4>2. f \in Seq(Letters) /\ Append(f, c) \in Edits(uc)
        BY EditsType, EditsOfAppend
      <4>3. Levenshtein(Append(f, c), vd) = Levenshtein(f, v) /\ Levenshtein(uc, vd) = Levenshtein(u, v)
        BY <3>1, <4>2, DistanceGrows
      <4> QED
        BY <4>1, <4>2, <4>3
    <3>2. CASE c # d
      <4>1. Levenshtein(uc, vd) =
              1 + Least(Levenshtein(u, v), Least(Levenshtein(u, vd), Levenshtein(uc, v)))
        BY <3>2, DistanceGrows
      <4>2. /\ Levenshtein(u, v) \in Nat /\ Levenshtein(u, vd) \in Nat /\ Levenshtein(uc, v) \in Nat
        BY <2>1, DistanceIsNat
      <4>3. /\ Levenshtein(Append(u, d), vd) = Levenshtein(u, v)
            /\ Levenshtein(Append(uc, d), vd) = Levenshtein(uc, v)
        BY <2>1, SameLastLetter
      <4>4. u \in Edits(uc) /\ Append(u, d) \in Edits(uc) /\ Append(uc, d) \in Edits(uc)
        BY EditsOfAppend
      <4>5. \/ Levenshtein(uc, vd) = Levenshtein(u, v) + 1
            \/ Levenshtein(uc, vd) = Levenshtein(u, vd) + 1
            \/ Levenshtein(uc, vd) = Levenshtein(uc, v) + 1
        BY <4>1, <4>2 DEF Least
      <4> QED
        BY <4>3, <4>4, <4>5
    <3> QED
      BY <3>1, <3>2
  <2> HIDE DEF P, Good
  <2> QED
    BY <1>1, <2>1, <2>3
<1>4. <<a, b>> \in P
  <2> HIDE DEF P
  <2>1. Seq(Letters) \X Seq(Letters) \subseteq P
    BY <1>2, <1>3, AllPairs
  <2> QED
    BY <2>1
<1> QED
  BY <1>1, <1>4

\* No change of a word brings it nearer another by more than one.
LEMMA OneChangeCostsOne ==
  ASSUME NEW a \in Seq(Letters), NEW b \in Seq(Letters), NEW e \in Edits(a)
  PROVE  Levenshtein(a, b) <= Levenshtein(e, b) + 1
<1> DEFINE Good(u, v) == \A f \in Edits(u) : Levenshtein(u, v) <= Levenshtein(f, v) + 1
           P == {p \in Seq(Letters) \X Seq(Letters) : Good(p[1], p[2])}
<1>0. <<>> \in Seq(Letters)
  BY EmptySeq
<1>1. \A u \in Seq(Letters), v \in Seq(Letters) : <<u, v>> \in P <=> Good(u, v)
  <2> HIDE DEF Good
  <2> QED
    OBVIOUS
<1>2. ASSUME NEW w \in Seq(Letters) PROVE <<<<>>, w>> \in P /\ <<w, <<>>>> \in P
  <2>1. Good(<<>>, w)
    BY <1>0, EditsOfNothing, AlwaysNear DEF Near
  <2>2. Good(w, <<>>)
    <3> SUFFICES ASSUME NEW f \in Edits(w)
                 PROVE  Levenshtein(w, <<>>) <= Levenshtein(f, <<>>) + 1
      OBVIOUS
    <3>1. f \in Seq(Letters) /\ Len(w) \in Nat
      BY EditsType, LenProperties
    <3>2. Len(f) = Len(w) + 1 \/ Len(f) = Len(w) - 1 \/ Len(f) = Len(w)
      <4>1. /\ \A i \in 1 .. Len(w) + 1, c \in Letters : Len(InsertAt(w, i, c)) = Len(w) + 1
            /\ \A i \in 1 .. Len(w) : Len(RemoveAt(w, i)) = Len(w) - 1
            /\ \A i \in 1 .. Len(w), c \in Letters : Len(ReplaceAt(w, i, c)) = Len(w)
        BY InsertProperties, RemoveProperties, ReplaceProperties
      <4>2. \/ \E i \in 1 .. Len(w) + 1, d \in Letters : f = InsertAt(w, i, d)
            \/ \E i \in 1 .. Len(w) : f = RemoveAt(w, i)
            \/ \E i \in 1 .. Len(w), d \in Letters : f = ReplaceAt(w, i, d)
        BY EditsAre
      <4> QED
        BY <4>1, <4>2
    <3>3. Levenshtein(w, <<>>) = Len(w) /\ Levenshtein(f, <<>>) = Len(f)
      BY <3>1, DistanceFromNothing
    <3> QED
      BY <3>1, <3>2, <3>3
  <2> HIDE DEF P, Good
  <2> QED
    BY <1>0, <1>1, <2>1, <2>2
<1>3. ASSUME NEW u \in Seq(Letters), NEW v \in Seq(Letters), NEW c \in Letters, NEW d \in Letters,
             <<u, v>> \in P, <<u, Append(v, d)>> \in P, <<Append(u, c), v>> \in P
      PROVE  <<Append(u, c), Append(v, d)>> \in P
  <2> DEFINE uc == Append(u, c)
             vd == Append(v, d)
  <2>1. uc \in Seq(Letters) /\ vd \in Seq(Letters)
    BY AppendProperties
  <2>2. Good(u, v) /\ Good(u, vd) /\ Good(uc, v)
    <3> HIDE DEF P, Good
    <3> QED
      BY <1>1, <1>3, <2>1
  <2>3. Levenshtein(uc, vd) =
          IF c = d THEN Levenshtein(u, v)
          ELSE 1 + Least(Levenshtein(u, v), Least(Levenshtein(u, vd), Levenshtein(uc, v)))
    BY DistanceGrows
  <2>4. /\ Levenshtein(u, v) \in Nat /\ Levenshtein(u, vd) \in Nat
        /\ Levenshtein(uc, v) \in Nat /\ Levenshtein(uc, vd) \in Nat
    BY <2>1, DistanceIsNat
  <2>5. Good(uc, vd)
    <3> SUFFICES ASSUME NEW f \in Edits(uc)
                 PROVE  Levenshtein(uc, vd) <= Levenshtein(f, vd) + 1
      OBVIOUS
    <3>1. CASE f = u
      BY <2>1, <3>1, AlwaysNear DEF Near
    <3>2. ASSUME NEW x \in Letters, f = Append(uc, x)
          PROVE  Levenshtein(uc, vd) <= Levenshtein(f, vd) + 1
      BY <2>1, <3>2, AlwaysNear DEF Near
    <3>3. ASSUME NEW x \in Letters, f = Append(u, x)
          PROVE  Levenshtein(uc, vd) <= Levenshtein(f, vd) + 1
      <4>1. f \in Seq(Letters)
        BY <3>3, AppendProperties
      <4>2. Levenshtein(f, vd) =
              IF x = d THEN Levenshtein(u, v)
              ELSE 1 + Least(Levenshtein(u, v), Least(Levenshtein(u, vd), Levenshtein(f, v)))
        BY <3>3, DistanceGrows
      <4>3. Levenshtein(u, v) <= Levenshtein(f, v) + 1
        BY <3>3, AlwaysNear DEF Near
      <4>4. Levenshtein(u, v) <= Levenshtein(u, vd) + 1
        <5>1. Levenshtein(v, u) <= Levenshtein(vd, u) + 1
          BY AlwaysNear DEF Near
        <5> QED
          BY <2>1, <5>1, DistanceSymmetric
      <4>5. Levenshtein(f, v) \in Nat
        BY <4>1, DistanceIsNat
      <4>6. Levenshtein(u, v) <= Levenshtein(f, vd)
        BY <2>4, <4>2, <4>3, <4>4, <4>5 DEF Least
      <4>7. Levenshtein(uc, vd) <= Levenshtein(u, v) + 1
        BY <2>3, <2>4 DEF Least
      <4>8. Levenshtein(f, vd) \in Nat
        BY <2>1, <4>1, DistanceIsNat
      <4> QED
        BY <2>4, <4>6, <4>7, <4>8
    <3>4. ASSUME NEW g \in Edits(u), f = Append(g, c)
          PROVE  Levenshtein(uc, vd) <= Levenshtein(f, vd) + 1
      <4>1. g \in Seq(Letters) /\ f \in Seq(Letters)
        BY <3>4, EditsType, AppendProperties
      <4>2. Levenshtein(f, vd) =
              IF c = d THEN Levenshtein(g, v)
              ELSE 1 + Least(Levenshtein(g, v), Least(Levenshtein(g, vd), Levenshtein(f, v)))
        BY <3>4, <4>1, DistanceGrows
      <4>3. /\ Levenshtein(u, v) <= Levenshtein(g, v) + 1
            /\ Levenshtein(u, vd) <= Levenshtein(g, vd) + 1
            /\ Levenshtein(uc, v) <= Levenshtein(f, v) + 1
        BY <2>2, <3>4
      <4>4. /\ Levenshtein(g, v) \in Nat /\ Levenshtein(g, vd) \in Nat /\ Levenshtein(f, v) \in Nat
        BY <2>1, <4>1, DistanceIsNat
      <4>5. CASE c = d
        BY <2>3, <4>2, <4>3, <4>5
      <4>6. CASE c # d
        <5>1. 1 + Least(Levenshtein(u, v), Least(Levenshtein(u, vd), Levenshtein(uc, v)))
                <= 1 + Least(Levenshtein(g, v), Least(Levenshtein(g, vd), Levenshtein(f, v))) + 1
          BY <2>4, <4>3, <4>4, LeastWithinOne
        <5> QED
          BY <2>3, <4>2, <4>6, <5>1
      <4> QED
        BY <4>5, <4>6
    <3> QED
      BY <3>1, <3>2, <3>3, <3>4, EditsOfAppend
  <2> HIDE DEF P, Good
  <2> QED
    BY <1>1, <2>1, <2>5
<1>4. <<a, b>> \in P
  <2> HIDE DEF P
  <2>1. Seq(Letters) \X Seq(Letters) \subseteq P
    BY <1>2, <1>3, AllPairs
  <2> QED
    BY <2>1
<1> QED
  BY <1>1, <1>4

-----------------------------------------------------------------------------
(* Syntax: the suggestion.                                                   *)

\* syntax.py:78-93: the distance is the least number of changes that make one
\* word of the other.  It is zero for a word and itself only; between two words
\* some change takes one off it, and none takes more.
THEOREM DistanceCountsChanges ==
  ASSUME NEW a \in Seq(Letters), NEW b \in Seq(Letters)
  PROVE  /\ Levenshtein(a, b) \in Nat /\ (Levenshtein(a, b) = 0 <=> a = b)
         /\ a # b => \E e \in Edits(a) : Levenshtein(e, b) = Levenshtein(a, b) - 1
         /\ \A e \in Edits(a) : Levenshtein(e, b) >= Levenshtein(a, b) - 1
<1>1. Levenshtein(a, b) \in Nat /\ (Levenshtein(a, b) = 0 <=> a = b)
  BY DistanceIsNat, DistanceToItself
<1>2. \A e \in Edits(a) : Levenshtein(e, b) \in Nat
  BY EditsType, DistanceIsNat
<1>3. \A e \in Edits(a) : Levenshtein(e, b) >= Levenshtein(a, b) - 1
  BY <1>1, <1>2, OneChangeCostsOne
<1>4. a # b => \E e \in Edits(a) : Levenshtein(e, b) = Levenshtein(a, b) - 1
  BY <1>1, <1>2, OneChangeNearer
<1> QED
  BY <1>1, <1>3, <1>4

\* Words one change away, and words two changes away.
LEMMA OneChangeAway ==
  ASSUME NEW n \in Seq(Letters), NEW p \in Seq(Letters)
  PROVE  p \in Edits(n) \cup {n} <=> Levenshtein(n, p) <= 1
<1>1. Levenshtein(n, p) \in Nat /\ (Levenshtein(n, p) = 0 <=> n = p) /\ Levenshtein(p, p) = 0
  BY DistanceCountsChanges
<1>2. p \in Edits(n) => Levenshtein(n, p) <= 1
  BY <1>1, OneChangeCostsOne
<1>3. ASSUME Levenshtein(n, p) = 1 PROVE p \in Edits(n)
  <2>1. PICK e \in Edits(n) : Levenshtein(e, p) = Levenshtein(n, p) - 1
    BY <1>1, <1>3, DistanceCountsChanges
  <2>2. e \in Seq(Letters) /\ Levenshtein(e, p) = 0
    BY <1>3, <2>1, EditsType
  <2> QED
    BY <2>1, <2>2, DistanceCountsChanges
<1> QED
  BY <1>1, <1>2, <1>3

LEMMA TwoChangesAway ==
  ASSUME NEW n \in Seq(Letters), NEW p \in Seq(Letters)
  PROVE  LET twice == UNION {Edits(m) : m \in Edits(n) \cup {n}}
         IN  /\ p \in twice => Levenshtein(n, p) <= 2
             /\ Levenshtein(n, p) = 2 => p \in twice
<1> DEFINE once == Edits(n) \cup {n}
           twice == UNION {Edits(m) : m \in once}
<1>0. once \subseteq Seq(Letters)
  BY EditsType
<1>1. ASSUME NEW m \in once, p \in Edits(m) PROVE Levenshtein(n, p) <= 2
  <2>1. m \in Seq(Letters) /\ Levenshtein(m, p) \in Nat /\ Levenshtein(n, p) \in Nat
    BY <1>0, DistanceIsNat
  <2>2. Levenshtein(m, p) <= 1
    BY <1>1, <2>1, OneChangeAway
  <2>3. m = n \/ Levenshtein(n, p) <= Levenshtein(m, p) + 1
    BY OneChangeCostsOne
  <2> QED
    BY <2>1, <2>2, <2>3
<1>2. ASSUME Levenshtein(n, p) = 2 PROVE \E m \in once : p \in Edits(m)
  <2>1. n # p
    BY <1>2, DistanceToItself
  <2>2. PICK m \in Edits(n) : Levenshtein(m, p) = Levenshtein(n, p) - 1
    BY <2>1, DistanceCountsChanges
  <2>3. m \in Seq(Letters) /\ Levenshtein(m, p) = 1
    BY <1>2, <2>2, EditsType
  <2>4. m # p
    BY <2>3, DistanceToItself
  <2>5. p \in Edits(m)
    BY <2>3, <2>4, OneChangeAway
  <2> QED
    BY <2>2, <2>5
<1> QED
  BY <1>1, <1>2

\* Of the providers near enough there is a first one of the nearest.
LEMMA FirstOfNearest ==
  ASSUME NEW n \in Seq(Letters)
  PROVE  LET Distance(i) == Levenshtein(n, Providers[i])
             near == {i \in DOMAIN Providers : Distance(i) <= 2}
         IN  near # {} => \E i \in near : \A j \in near :
               Distance(i) <= Distance(j) /\ (Distance(i) = Distance(j) => i <= j)
<1> DEFINE Distance(i) == Levenshtein(n, Providers[i])
           near == {i \in DOMAIN Providers : Distance(i) <= 2}
<1>1. DOMAIN Providers \subseteq Nat /\ \A i \in DOMAIN Providers : Providers[i] \in Seq(Letters)
  <2>1. Len(Providers) \in Nat /\ DOMAIN Providers = 1 .. Len(Providers)
    BY WordsAssumption, LenProperties
  <2> QED
    BY <2>1, WordsAssumption, ElementOfSeq
<1>2. \A i \in near : i \in Nat /\ Distance(i) \in Nat
  BY <1>1, DistanceIsNat
<1> HIDE DEF Distance, near
<1> SUFFICES ASSUME near # {}
             PROVE  \E i \in near : \A j \in near :
                      Distance(i) <= Distance(j) /\ (Distance(i) = Distance(j) => i <= j)
  BY DEF Distance, near
<1> DEFINE lengths == {Distance(i) : i \in near}
<1>3. lengths \subseteq Nat /\ lengths # {}
  BY <1>2
<1>4. PICK d \in lengths : \A e \in lengths : d <= e
  <2> HIDE DEF lengths
  <2> QED
    BY <1>3, First
<1> DEFINE nearest == {i \in near : Distance(i) = d}
<1>5. nearest \subseteq Nat /\ nearest # {}
  BY <1>2, <1>4
<1>6. PICK i \in nearest : \A j \in nearest : i <= j
  <2> HIDE DEF nearest
  <2> QED
    BY <1>5, First
<1> QED
  BY <1>4, <1>6

\* syntax.py:78-107: a name is flagged if and only if it is one or two changes
\* away from a provider and is not a provider itself, and what is suggested is
\* a nearest one.
THEOREM TyposAreCaught == SyntaxSpec => []TypoCaught
<1>1. SyntaxTypeOK => TypoCaught
  <2> SUFFICES ASSUME SyntaxTypeOK PROVE TypoCaught
    OBVIOUS
  <2> DEFINE once == Edits(name) \cup {name}
             twice == UNION {Edits(n) : n \in once}
             Distance(i) == Levenshtein(name, Providers[i])
             near == {i \in DOMAIN Providers : Distance(i) <= 2}
             Nearest(i) == /\ i \in near
                           /\ \A j \in near : Distance(i) <= Distance(j)
                                              /\ (Distance(i) = Distance(j) => i <= j)
             known == ToSet(Providers)
  <2>1. name \in Seq(Letters)
    BY DEF SyntaxTypeOK
  <2>2. \A i \in DOMAIN Providers : Providers[i] \in Seq(Letters) /\ Providers[i] \in known
    BY WordsAssumption, LenProperties, ElementOfSeq DEF ToSet
  <2>3. \A p \in known : \E i \in DOMAIN Providers : p = Providers[i]
    BY DEF ToSet
  <2>4. ASSUME NEW i \in DOMAIN Providers
        PROVE  /\ Distance(i) \in Nat
               /\ Providers[i] \in once <=> Distance(i) <= 1
               /\ Providers[i] \in twice => Distance(i) <= 2
               /\ Distance(i) = 2 => Providers[i] \in twice
    BY <2>1, <2>2, DistanceIsNat, OneChangeAway, TwoChangesAway
  <2>5. near # {} => \E i : Nearest(i)
    BY <2>1, FirstOfNearest
  <2>6. Suggestion(name) = IF name \in known \/ near = {} THEN <<>>
                           ELSE Providers[CHOOSE i \in near :
                             \A j \in near : /\ Distance(i) <= Distance(j)
                                             /\ Distance(i) = Distance(j) => i <= j]
    BY DEF Suggestion
  <2>7. ASSUME name \notin known, near # {}
        PROVE  \E i : Nearest(i) /\ Suggestion(name) = Providers[i]
    <3> DEFINE k == CHOOSE i \in near :
                      \A j \in near : /\ Distance(i) <= Distance(j)
                                      /\ Distance(i) = Distance(j) => i <= j
    <3>1. PICK i : Nearest(i)
      BY <2>5, <2>7
    <3>2. Nearest(k)
      <4> HIDE DEF Distance, near
      <4> QED
        BY <3>1
    <3>3. Suggestion(name) = Providers[k]
      BY <2>6, <2>7
    <3> HIDE DEF k, Nearest
    <3> QED
      BY <3>2, <3>3
  <2>8. TypoCaught <=>
          IF known \cap {name} # {} THEN Suggestion(name) = <<>>
          ELSE IF known \cap once # {} THEN Suggestion(name) \in once
          ELSE IF known \cap twice # {} THEN Suggestion(name) \in twice
          ELSE Suggestion(name) = <<>>
    BY DEF TypoCaught
  <2>9. \A i \in near : i \in DOMAIN Providers /\ Distance(i) <= 2
    OBVIOUS
  <2>10. \A i \in DOMAIN Providers : Distance(i) <= 2 => i \in near
    OBVIOUS
  <2> HIDE DEF once, twice, Distance, near, known
  <2>11. CASE name \in known
    BY <2>6, <2>8, <2>11
  <2>12. CASE name \notin known /\ known \cap once # {}
    <3>1. PICK j \in DOMAIN Providers : Providers[j] \in once
      BY <2>3, <2>12
    <3>2. Distance(j) <= 1 /\ j \in near
      BY <2>4, <2>10, <3>1
    <3>3. PICK i : Nearest(i) /\ Suggestion(name) = Providers[i]
      BY <2>7, <2>12, <3>2
    <3>4. i \in DOMAIN Providers /\ Distance(i) <= Distance(j)
      BY <2>9, <3>2, <3>3
    <3>5. Providers[i] \in once
      BY <2>4, <3>2, <3>4
    <3> QED
      BY <2>8, <2>12, <3>3, <3>5
  <2>13. CASE name \notin known /\ known \cap once = {} /\ known \cap twice # {}
    <3>1. PICK j \in DOMAIN Providers : Providers[j] \in twice
      BY <2>3, <2>13
    <3>2. j \in near
      BY <2>4, <2>10, <3>1
    <3>3. PICK i : Nearest(i) /\ Suggestion(name) = Providers[i]
      BY <2>7, <2>13, <3>2
    <3>4. i \in DOMAIN Providers /\ Distance(i) <= 2
      BY <2>9, <3>3
    <3>5. Providers[i] \notin once
      BY <2>2, <2>13, <3>4
    <3>6. Providers[i] \in twice
      BY <2>4, <3>4, <3>5
    <3> QED
      BY <2>8, <2>13, <3>3, <3>6
  <2>14. CASE name \notin known /\ known \cap once = {} /\ known \cap twice = {}
    <3>1. near = {}
      <4> SUFFICES ASSUME NEW i \in near PROVE FALSE
        OBVIOUS
      <4>1. Providers[i] \notin once /\ Providers[i] \notin twice
        BY <2>2, <2>9, <2>14
      <4> QED
        BY <2>4, <2>9, <4>1
    <3> QED
      BY <2>6, <2>8, <2>14, <3>1
  <2> QED
    BY <2>11, <2>12, <2>13, <2>14
<1> QED
  BY <1>1, AddressesAreTyped, PTL
=============================================================================
