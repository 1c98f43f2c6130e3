---------------------------- MODULE UiPollingProofs ----------------------------
(* Theorems of UiPolling, for a job of any size: the page reads a record that *)
(* the job thread is writing, one field at a time and without a lock, and     *)
(* still never shows half-counted results nor a progress off by more than one. *)
EXTENDS UiPolling, FiniteSetTheorems, SequenceTheorems, TLAPS

-----------------------------------------------------------------------------
(* The inductive invariant.                                                  *)

Calls == CountFields \X {-1, 1}

Kinds ==
  /\ status \in JobStatus /\ seen \in JobStatus
  /\ results \in Seq(Statuses) /\ Len(results) <= Total
  /\ counts \in [CountFields -> Int]
  /\ todo \in Seq(Calls) /\ half \in BOOLEAN
  /\ shown \in [status : JobStatus \cup {"none"}, processed : Int,
                results : Seq(Statuses), counts : [CountFields -> Int]]

Last == todo[Len(todo)][1]

\* The calls that are still to be made end with the count of a status, after,
\* in Stage 4, one that takes a result off "reserved" and perhaps a flag's.
Form ==
  /\ Len(todo) \in 0 .. 3 /\ (half => Len(todo) > 0)
  /\ Len(todo) > 0 => Last \in Statuses /\ todo[Len(todo)][2] = 1
  /\ Len(todo) > 1 => todo[Len(todo) - 1] = <<"reserved", -1>> /\ Last # "reserved"
  /\ Len(todo) > 2 => todo[1][1] \in {"promoted_to_valid", "demoted_to_invalid"}

\* The call that is p-th from the end has not moved its field yet.
Outstanding(p) == Len(todo) > p \/ (Len(todo) = p /\ ~half)

\* What the outstanding calls will add to the count of a status.
Owed(s) ==
  (IF Outstanding(1) /\ s = Last THEN 1 ELSE 0) - (IF Outstanding(2) /\ s = "reserved" THEN 1 ELSE 0)

With(s) == {k \in 1 .. Len(results) : results[k] = s}

\* The counts are those of the results, up to the outstanding calls.
Booked == \A s \in Statuses : counts[s] = Cardinality(With(s)) - Owed(s)

\* "processed" is short of the last call of increment_count and of no other.
Lag == counts["processed"] = Len(results) - (IF Len(todo) = 1 THEN 1 ELSE 0)

\* A job that has ended owes nothing.
Ended ==
  /\ status # "running" => todo = <<>>
  /\ status = "complete" => Len(results) = Total

\* What the page has read and shown.
Watched ==
  /\ seen # "running" => seen = status
  /\ page = "results" => seen = "complete"
  /\ shown.results # <<>> => status = "complete" /\ shown.results = results /\ shown.counts = counts
  /\ shown.processed <= Len(results)

Ledger == Kinds /\ Form /\ Booked /\ Lag /\ Ended /\ Watched

-----------------------------------------------------------------------------
(* Sizes.                                                                    *)

LEMMA WithFinite ==
  ASSUME Kinds, NEW s
  PROVE  /\ IsFiniteSet(With(s)) /\ Cardinality(With(s)) \in Nat
         /\ Len(results) \in Nat
<1>1. Len(results) \in Nat
  BY LenProperties DEF Kinds
<1>2. IsFiniteSet(1 .. Len(results)) /\ With(s) \subseteq 1 .. Len(results)
  BY <1>1, FS_Interval DEF With
<1> QED
  BY <1>1, <1>2, FS_Subset, FS_CardinalityType

LEMMA DisjointSize ==
  ASSUME NEW S, NEW T, IsFiniteSet(S), IsFiniteSet(T), S \cap T = {}
  PROVE  IsFiniteSet(S \cup T) /\ Cardinality(S \cup T) = Cardinality(S) + Cardinality(T)
<1>1. Cardinality(S \cap T) = 0
  BY FS_EmptySet
<1>2. Cardinality(S) \in Nat /\ Cardinality(T) \in Nat
  BY FS_CardinalityType
<1>3. IsFiniteSet(S \cup T)
      /\ Cardinality(S \cup T) = Cardinality(S) + Cardinality(T) - Cardinality(S \cap T)
  BY FS_Union
<1> QED
  BY <1>1, <1>2, <1>3

\* The five statuses split the results.
LEMMA StatusesSplit ==
  ASSUME Kinds
  PROVE  Cardinality(With("valid")) + Cardinality(With("invalid")) + Cardinality(With("reserved"))
           + Cardinality(With("do_not_use")) + Cardinality(With("duplicate")) = Len(results)
<1> DEFINE vi == With("valid") \cup With("invalid")
           rd == With("reserved") \cup With("do_not_use")
           four == vi \cup rd
<1>0. \A s : IsFiniteSet(With(s)) /\ Cardinality(With(s)) \in Nat
  BY WithFinite
<1>1. \A s, t : s # t => With(s) \cap With(t) = {}
  BY DEF With
<1>2. IsFiniteSet(vi) /\ Cardinality(vi) = Cardinality(With("valid")) + Cardinality(With("invalid"))
  BY <1>0, <1>1, DisjointSize
<1>3. IsFiniteSet(rd) /\ Cardinality(rd) = Cardinality(With("reserved")) + Cardinality(With("do_not_use"))
  BY <1>0, <1>1, DisjointSize
<1>4. vi \cap rd = {}
  BY <1>1
<1>5. four \cap With("duplicate") = {}
  BY <1>1
<1>6. four \cup With("duplicate") = 1 .. Len(results)
  <2>1. \A k \in 1 .. Len(results) : results[k] \in Statuses
    BY ElementOfSeq DEF Kinds
  <2> QED
    BY <2>1 DEF With, Statuses
<1> HIDE DEF vi, rd
<1>7. IsFiniteSet(four) /\ Cardinality(four) = Cardinality(vi) + Cardinality(rd)
  BY <1>2, <1>3, <1>4, DisjointSize
<1> HIDE DEF four
<1>8. Cardinality(1 .. Len(results)) = Cardinality(four) + Cardinality(With("duplicate"))
  BY <1>0, <1>5, <1>6, <1>7, DisjointSize
<1>9. Cardinality(1 .. Len(results)) = Len(results)
  <2>1. Len(results) \in Nat
    BY WithFinite
  <2> QED
    BY <2>1, FS_Interval
<1> QED
  BY <1>0, <1>2, <1>3, <1>7, <1>8, <1>9

\* The tally, and so "processed" when it is recomputed, is short of what the
\* outstanding calls owe.
LEMMA TallyOwes ==
  ASSUME Kinds, Form, Booked
  PROVE  Tallied(counts) = Len(results) - (IF Outstanding(1) THEN 1 ELSE 0)
                                        + (IF Outstanding(2) THEN 1 ELSE 0)
<1>1. PICK n \in [Statuses -> Nat] : \A s \in Statuses : n[s] = Cardinality(With(s))
  <2>1. [s \in Statuses |-> Cardinality(With(s))] \in [Statuses -> Nat]
    BY WithFinite
  <2> QED
    BY <2>1
<1>2. PICK o \in [Statuses -> Int] : \A s \in Statuses : o[s] = Owed(s)
  <2>1. [s \in Statuses |-> Owed(s)] \in [Statuses -> Int]
    BY DEF Owed
  <2> QED
    BY <2>1
<1>3. n["valid"] + n["invalid"] + n["reserved"] + n["do_not_use"] + n["duplicate"] = Len(results)
  BY <1>1, StatusesSplit DEF Statuses
<1>4. \A s \in Statuses : counts[s] = n[s] - o[s]
  BY <1>1, <1>2 DEF Booked
<1>5. o["valid"] + o["invalid"] + o["reserved"] + o["do_not_use"] + o["duplicate"]
        = (IF Outstanding(1) THEN 1 ELSE 0) - (IF Outstanding(2) THEN 1 ELSE 0)
  <2>1. CASE ~Outstanding(1)
    BY <1>2, <2>1 DEF Owed, Statuses
  <2>2. CASE Outstanding(1)
    <3>1. Len(todo) > 0
      <4>1. Len(todo) \in 0 .. 3
        BY DEF Form
      <4> QED
        BY <2>2, <4>1 DEF Outstanding
    <3>2. Last \in Statuses
      BY <3>1 DEF Form
    <3> QED
      BY <1>2, <2>2, <3>2 DEF Owed, Statuses
  <2> QED
    BY <2>1, <2>2
<1>6. Tallied(counts) = (n["valid"] - o["valid"]) + (n["invalid"] - o["invalid"])
        + (n["reserved"] - o["reserved"]) + (n["do_not_use"] - o["do_not_use"])
        + (n["duplicate"] - o["duplicate"])
  BY <1>4 DEF Tallied, Statuses
<1>7. PICK x \in Int, y \in Int : /\ x = IF Outstanding(1) THEN 1 ELSE 0
                                 /\ y = IF Outstanding(2) THEN 1 ELSE 0
  OBVIOUS
<1>8. PICK a \in Nat, b \in Nat, c \in Nat, d \in Nat, e \in Nat :
        a = n["valid"] /\ b = n["invalid"] /\ c = n["reserved"] /\ d = n["do_not_use"] /\ e = n["duplicate"]
  BY DEF Statuses
<1>9. PICK p \in Int, q \in Int, r \in Int, s \in Int, t \in Int :
        p = o["valid"] /\ q = o["invalid"] /\ r = o["reserved"] /\ s = o["do_not_use"] /\ t = o["duplicate"]
  BY DEF Statuses
<1>10. /\ a + b + c + d + e = Len(results) /\ p + q + r + s + t = x - y
       /\ Tallied(counts) = (a - p) + (b - q) + (c - r) + (d - s) + (e - t)
  BY <1>3, <1>5, <1>6, <1>7, <1>8, <1>9
<1>11. Tallied(counts) = Len(results) - x + y
  BY <1>10
<1> QED
  BY <1>7, <1>11

-----------------------------------------------------------------------------
(* The job thread's steps.                                                   *)

\* With nothing outstanding the counts are those of the results.
LEMMA NothingOwed ==
  ASSUME Kinds, Form, Booked, todo = <<>>
  PROVE  /\ Len(todo) = 0 /\ half = FALSE
         /\ \A s \in Statuses : counts[s] = Cardinality(With(s))
<1>1. Len(todo) = 0
  OBVIOUS
<1>2. half = FALSE
  BY <1>1 DEF Form, Kinds
<1>3. \A s : Owed(s) = 0
  BY <1>1 DEF Owed, Outstanding
<1>4. \A s : Cardinality(With(s)) \in Nat
  BY WithFinite
<1> QED
  BY <1>1, <1>2, <1>3, <1>4 DEF Booked

LEMMA AddResultStep ==
  ASSUME Ledger, NEW s \in {"valid", "invalid", "reserved"}, AddResult(s)
  PROVE  Ledger'
<1>1. todo = <<>> /\ Len(todo) = 0 /\ half = FALSE /\ status = "running"
  BY NothingOwed DEF AddResult, Working, Ledger
<1>2. /\ results' = Append(results, s) /\ todo' = << <<s, 1>> >>
      /\ UNCHANGED <<status, counts, half, page, seen, shown>>
      /\ Len(results) < Total
  BY DEF AddResult
<1>3. s \in Statuses /\ <<s, 1>> \in Calls
  BY DEF Statuses, Calls, CountFields
<1>4. /\ results \in Seq(Statuses) /\ Len(results) \in Nat
      /\ results' \in Seq(Statuses) /\ Len(results') = Len(results) + 1
      /\ \A k \in 1 .. Len(results) : results'[k] = results[k]
      /\ results'[Len(results) + 1] = s
  BY <1>2, <1>3, AppendProperties, LenProperties DEF Ledger, Kinds
<1>5. todo' \in Seq(Calls) /\ Len(todo') = 1 /\ todo'[1] = <<s, 1>>
  BY <1>2, <1>3
<1>6. Kinds'
  BY <1>2, <1>4, <1>5, TotalAssumption DEF Ledger, Kinds
<1>7. Form'
  BY <1>1, <1>2, <1>3, <1>5 DEF Form, Last
<1>8. Booked'
  <2> SUFFICES ASSUME NEW x \in Statuses
               PROVE  counts'[x] = Cardinality(With(x)') - Owed(x)'
    BY DEF Booked
  <2>1. counts'[x] = Cardinality(With(x)) /\ Cardinality(With(x)) \in Nat
    BY <1>1, <1>2, NothingOwed, WithFinite DEF Ledger
  <2>2. Owed(x)' = IF x = s THEN 1 ELSE 0
    BY <1>1, <1>2, <1>5 DEF Owed, Outstanding, Last
  <2>3. CASE x = s
    <3>1. With(x)' = With(x) \cup {Len(results) + 1}
      BY <1>4, <2>3 DEF With
    <3>2. Len(results) + 1 \notin With(x)
      BY <1>4 DEF With
    <3>3. Cardinality(With(x)') = Cardinality(With(x)) + 1
      BY <3>1, <3>2, WithFinite, FS_AddElement DEF Ledger
    <3> QED
      BY <2>1, <2>2, <2>3, <3>3
  <2>4. CASE x # s
    <3>1. With(x)' = With(x)
      BY <1>4, <2>4 DEF With
    <3> QED
      BY <2>1, <2>2, <2>4, <3>1
  <2> QED
    BY <2>3, <2>4
<1>9. Lag'
  BY <1>1, <1>2, <1>4, <1>5 DEF Ledger, Lag
<1>10. Ended'
  BY <1>1, <1>2 DEF Ended
<1>11. Watched'
  <2>1. shown.processed \in Int /\ shown.processed <= Len(results) /\ shown.results = <<>>
    BY <1>1 DEF Ledger, Kinds, Watched
  <2> QED
    BY <1>1, <1>2, <1>4, <2>1 DEF Ledger, Watched
<1> QED
  BY <1>6, <1>7, <1>8, <1>9, <1>10, <1>11 DEF Ledger

\* The calls that settle a result: the flag's, if it is flagged, and two more.
LEMMA SettleCalls ==
  ASSUME NEW f \in {"promoted_to_valid", "demoted_to_invalid"}, NEW s \in {"valid", "invalid"}
  PROVE  LET q == << <<"reserved", -1>>, <<s, 1>> >>
             r == << <<f, 1>> >> \o q
         IN  /\ << >> \o q = q
             /\ q \in Seq(Calls) /\ Len(q) = 2 /\ q[1] = <<"reserved", -1>> /\ q[2] = <<s, 1>>
             /\ r \in Seq(Calls) /\ Len(r) = 3
             /\ r[1] = <<f, 1>> /\ r[2] = <<"reserved", -1>> /\ r[3] = <<s, 1>>
<1> DEFINE q == << <<"reserved", -1>>, <<s, 1>> >>
           h == << <<f, 1>> >>
<1>1. <<"reserved", -1>> \in Calls /\ <<s, 1>> \in Calls /\ <<f, 1>> \in Calls
  BY DEF Calls, CountFields, Statuses
<1>2. q \in Seq(Calls) /\ Len(q) = 2 /\ q[1] = <<"reserved", -1>> /\ q[2] = <<s, 1>>
  BY <1>1
<1>3. h \in Seq(Calls) /\ Len(h) = 1 /\ h[1] = <<f, 1>>
  BY <1>1
<1> HIDE DEF q, h
<1>4. << >> \o q = q
  BY <1>2, ConcatEmptySeq
<1>5. /\ h \o q \in Seq(Calls) /\ Len(h \o q) = Len(h) + Len(q)
      /\ \A i \in 1 .. Len(h) + Len(q) : (h \o q)[i] = IF i <= Len(h) THEN h[i] ELSE q[i - Len(h)]
  BY <1>2, <1>3, ConcatProperties
<1>6. (h \o q)[1] = h[1] /\ (h \o q)[2] = q[1] /\ (h \o q)[3] = q[2]
  BY <1>2, <1>3, <1>5
<1> QED
  BY <1>2, <1>3, <1>4, <1>5, <1>6 DEF q, h

LEMMA SettleStep ==
  ASSUME Ledger, NEW k \in 1 .. Len(results), NEW s \in {"valid", "invalid"},
         NEW flagged \in BOOLEAN, Settle(k, s, flagged)
  PROVE  Ledger'
<1>1. todo = <<>> /\ Len(todo) = 0 /\ half = FALSE /\ status = "running"
  BY NothingOwed DEF Settle, Working, Ledger
<1>2. /\ results' = [results EXCEPT ![k] = s] /\ results[k] = "reserved" /\ Len(results) = Total
      /\ UNCHANGED <<status, counts, half, page, seen, shown>>
  BY DEF Settle
<1>3. /\ todo' \in Seq(Calls) /\ Len(todo') \in {2, 3}
      /\ todo'[Len(todo')] = <<s, 1>> /\ todo'[Len(todo') - 1] = <<"reserved", -1>>
      /\ Len(todo') = 3 => todo'[1][1] \in {"promoted_to_valid", "demoted_to_invalid"}
  <2> DEFINE f == IF s = "valid" THEN "promoted_to_valid" ELSE "demoted_to_invalid"
  <2>1. f \in {"promoted_to_valid", "demoted_to_invalid"}
    OBVIOUS
  <2>2. CASE flagged
    <3>1. todo' = << <<f, 1>> >> \o << <<"reserved", -1>>, <<s, 1>> >>
      BY <2>2 DEF Settle
    <3> HIDE DEF f
    <3> QED
      BY <2>1, <3>1, SettleCalls
  <2>3. CASE ~flagged
    <3>1. todo' = << >> \o << <<"reserved", -1>>, <<s, 1>> >>
      BY <2>3 DEF Settle
    <3> HIDE DEF f
    <3> QED
      BY <2>1, <3>1, SettleCalls
  <2> QED
    BY <2>2, <2>3
<1>4. s \in Statuses /\ s # "reserved"
  BY DEF Statuses
<1>5. /\ results \in Seq(Statuses) /\ Len(results) \in Nat
      /\ results' \in Seq(Statuses) /\ Len(results') = Len(results)
      /\ \A j \in 1 .. Len(results) : results'[j] = IF j = k THEN s ELSE results[j]
  BY <1>2, <1>4, ExceptSeq, LenProperties DEF Ledger, Kinds
<1>6. Kinds'
  BY <1>2, <1>3, <1>5 DEF Ledger, Kinds
<1>7. Form'
  BY <1>1, <1>2, <1>3, <1>4 DEF Form, Last
<1>8. Booked'
  <2> SUFFICES ASSUME NEW x \in Statuses
               PROVE  counts'[x] = Cardinality(With(x)') - Owed(x)'
    BY DEF Booked
  <2>1. counts'[x] = Cardinality(With(x)) /\ Cardinality(With(x)) \in Nat
    BY <1>1, <1>2, NothingOwed, WithFinite DEF Ledger
  <2>2. Owed(x)' = (IF x = s THEN 1 ELSE 0) - (IF x = "reserved" THEN 1 ELSE 0)
    <3>1. Last' = s
      BY <1>3 DEF Last
    <3>2. Outstanding(1)' /\ Outstanding(2)'
      <4>1. ~half'
        BY <1>1, <1>2
      <4> QED
        BY <1>3, <4>1 DEF Outstanding
    <3> QED
      BY <3>1, <3>2 DEF Owed
  <2>3. CASE x = s
    <3>1. With(x)' = With(x) \cup {k}
      BY <1>5, <2>3 DEF With
    <3>2. k \notin With(x)
      BY <1>2, <1>4, <2>3 DEF With
    <3>3. Cardinality(With(x)') = Cardinality(With(x)) + 1
      BY <3>1, <3>2, WithFinite, FS_AddElement DEF Ledger
    <3> QED
      BY <1>4, <2>1, <2>2, <2>3, <3>3
  <2>4. CASE x = "reserved"
    <3>1. With(x)' = With(x) \ {k}
      BY <1>4, <1>5, <2>4 DEF With
    <3>2. k \in With(x)
      BY <1>2, <2>4 DEF With
    <3>3. Cardinality(With(x)') = Cardinality(With(x)) - 1
      BY <3>1, <3>2, WithFinite, FS_RemoveElement DEF Ledger
    <3> QED
      BY <1>4, <2>1, <2>2, <2>4, <3>3
  <2>5. CASE x # s /\ x # "reserved"
    <3>1. With(x)' = With(x)
      BY <1>2, <1>5, <2>5 DEF With
    <3> QED
      BY <2>1, <2>2, <2>5, <3>1
  <2> QED
    BY <2>3, <2>4, <2>5
<1>9. Lag'
  <2>1. counts["processed"] = Len(results)
    BY <1>1, <1>5 DEF Ledger, Lag
  <2> QED
    <3>1. Len(todo') \in {2, 3}
      BY <1>3
    <3>2. counts'["processed"] = counts["processed"]
      BY <1>2
    <3>3. Len(results') = Len(results) /\ Len(results) \in Nat
      BY <1>5
    <3>4. (IF Len(todo') = 1 THEN 1 ELSE 0) = 0
      BY <3>1
    <3>5. Len(results) - 0 = Len(results)
      BY <3>3
    <3> QED
      BY <2>1, <3>2, <3>3, <3>4, <3>5, Zenon DEF Lag
<1>10. Ended'
  BY <1>1, <1>2 DEF Ended
<1>11. Watched'
  BY <1>1, <1>2, <1>5 DEF Ledger, Watched
<1> QED
  BY <1>6, <1>7, <1>8, <1>9, <1>10, <1>11 DEF Ledger

\* The head of the outstanding calls, by how many there are.
LEMMA HeadOfCalls ==
  ASSUME Kinds, Form, todo # <<>>
  PROVE  /\ Len(todo) \in 1 .. 3 /\ Head(todo) = todo[1] /\ Head(todo) \in Calls
         /\ Last \in Statuses
         /\ Len(todo) = 1 => Head(todo)[1] = Last /\ Head(todo)[2] = 1
         /\ Len(todo) = 2 => Head(todo) = <<"reserved", -1>> /\ Last # "reserved"
         /\ Len(todo) = 3 => /\ Head(todo)[1] \in {"promoted_to_valid", "demoted_to_invalid"}
                             /\ Last # "reserved"
<1>1. Len(todo) \in 1 .. 3
  BY EmptySeq DEF Kinds, Form
<1>2. Head(todo) = todo[1] /\ Head(todo) \in Calls
  BY <1>1, HeadTailProperties DEF Kinds
<1> QED
  BY <1>1, <1>2 DEF Form, Last

LEMMA CountFieldStep ==
  ASSUME Ledger, CountField
  PROVE  Ledger'
<1>1. todo # <<>> /\ half = FALSE /\ half' = TRUE
  BY DEF CountField, Ledger, Kinds
<1>2. UNCHANGED <<status, results, todo, page, seen, shown>>
  BY DEF CountField
<1> DEFINE f == Head(todo)[1]
           a == Head(todo)[2]
<1>3. f \in CountFields /\ a \in {-1, 1} /\ f # "processed"
  <2>1. f \in CountFields /\ a \in {-1, 1}
    BY <1>1, HeadOfCalls DEF Ledger, Calls
  <2>2. Len(todo) \in {1, 2, 3}
    BY <1>1, HeadOfCalls DEF Ledger
  <2>3. f # "processed"
    BY <1>1, <2>2, HeadOfCalls DEF Ledger, Statuses
  <2> QED
    BY <2>1, <2>3
<1>4. counts' = [counts EXCEPT ![f] = @ + a]
  BY DEF CountField
<1>5. counts \in [CountFields -> Int]
  BY DEF Ledger, Kinds
<1>6. /\ counts' \in [CountFields -> Int]
      /\ \A x \in CountFields : counts'[x] = IF x = f THEN counts[x] + a ELSE counts[x]
  <2> HIDE DEF f, a
  <2> QED
    BY <1>3, <1>4, <1>5
<1>7. Kinds'
  BY <1>1, <1>2, <1>6 DEF Ledger, Kinds
<1>8. Form'
  BY <1>1, <1>2, HeadOfCalls DEF Ledger, Form, Last
<1>9. Booked'
  <2> SUFFICES ASSUME NEW x \in Statuses
               PROVE  counts'[x] = Cardinality(With(x)') - Owed(x)'
    BY DEF Booked
  <2>1. x \in CountFields /\ With(x)' = With(x) /\ Cardinality(With(x)) \in Nat
    BY <1>2, WithFinite DEF CountFields, With, Ledger
  <2>2. counts[x] = Cardinality(With(x)) - Owed(x)
    BY DEF Ledger, Booked
  <2>3. Owed(x) = (IF x = Last THEN 1 ELSE 0) - (IF Len(todo) > 1 /\ x = "reserved" THEN 1 ELSE 0)
    <3>1. Len(todo) \in {1, 2, 3} /\ half = FALSE
      BY <1>1, HeadOfCalls DEF Ledger
    <3>2. Outstanding(1)
      BY <3>1 DEF Outstanding
    <3>3. Outstanding(2) <=> Len(todo) > 1
      <4>1. CASE Len(todo) = 1
        BY <4>1 DEF Outstanding
      <4>2. CASE Len(todo) = 2
        BY <3>1, <4>2 DEF Outstanding
      <4>3. CASE Len(todo) = 3
        BY <4>3 DEF Outstanding
      <4> QED
        BY <3>1, <4>1, <4>2, <4>3
    <3> QED
      BY <3>2, <3>3 DEF Owed
  <2>4. Owed(x)' = (IF Len(todo) > 1 /\ x = Last THEN 1 ELSE 0)
                     - (IF Len(todo) > 2 /\ x = "reserved" THEN 1 ELSE 0)
    <3>1. (Outstanding(1)' <=> Len(todo) > 1) /\ (Outstanding(2)' <=> Len(todo) > 2)
      BY <1>1, <1>2 DEF Outstanding
    <3>2. Last' = Last
      BY <1>2 DEF Last
    <3> QED
      BY <3>1, <3>2 DEF Owed
  <2>5. CASE Len(todo) = 1
    <3>1. f = Last /\ a = 1
      BY <1>1, <2>5, HeadOfCalls DEF Ledger
    <3> HIDE DEF f, a
    <3> QED
      BY <1>6, <2>1, <2>2, <2>3, <2>4, <2>5, <3>1
  <2>6. CASE Len(todo) = 2
    <3>1. f = "reserved" /\ a = -1 /\ Last # "reserved"
      BY <1>1, <2>6, HeadOfCalls DEF Ledger
    <3> HIDE DEF f, a
    <3> QED
      BY <1>6, <2>1, <2>2, <2>3, <2>4, <2>6, <3>1
  <2>7. CASE Len(todo) = 3
    <3>1. f \notin Statuses
      BY <1>1, <2>7, HeadOfCalls DEF Ledger, Statuses
    <3> HIDE DEF f, a
    <3> QED
      BY <1>6, <2>1, <2>2, <2>3, <2>4, <2>7, <3>1
  <2> QED
    BY <1>1, <2>5, <2>6, <2>7, HeadOfCalls DEF Ledger
<1>10. Lag'
  <2>1. counts'["processed"] = counts["processed"]
    BY <1>3, <1>6 DEF CountFields
  <2> QED
    BY <1>2, <2>1 DEF Ledger, Lag
<1>11. Ended'
  BY <1>2 DEF Ledger, Ended
<1>12. Watched'
  <2>1. status = "running"
    BY <1>1 DEF Ledger, Ended
  <2>2. shown.results = <<>>
    BY <2>1 DEF Ledger, Watched
  <2> QED
    BY <1>2, <2>2 DEF Ledger, Watched
<1> QED
  BY <1>7, <1>8, <1>9, <1>10, <1>11, <1>12 DEF Ledger

LEMMA CountProcessedStep ==
  ASSUME Ledger, CountProcessed
  PROVE  Ledger'
<1>1. todo # <<>> /\ half = TRUE /\ half' = FALSE /\ Len(todo) \in {1, 2, 3}
  <2>1. half = TRUE /\ half' = FALSE
    BY DEF CountProcessed, Ledger, Kinds
  <2>2. todo # <<>>
    BY <2>1 DEF Ledger, Form
  <2> QED
    BY <2>1, <2>2, HeadOfCalls DEF Ledger
<1>2. UNCHANGED <<status, results, page, seen, shown>> /\ todo' = Tail(todo)
  BY DEF CountProcessed
<1>3. /\ todo' \in Seq(Calls) /\ Len(todo') = Len(todo) - 1
      /\ \A i \in 1 .. Len(todo') : todo'[i] = todo[i + 1]
  BY <1>1, <1>2, HeadTailProperties DEF Ledger, Kinds
<1>4. counts' = [counts EXCEPT !["processed"] = Processed(Total, counts)]
  BY DEF CountProcessed, Recount
<1>5. Tallied(counts) = Len(results) - (IF Len(todo) = 2 THEN 1 ELSE 0)
  <2>1. Tallied(counts) = Len(results) - (IF Outstanding(1) THEN 1 ELSE 0)
                                        + (IF Outstanding(2) THEN 1 ELSE 0)
    BY TallyOwes DEF Ledger
  <2>2. Len(results) \in Nat
    BY WithFinite DEF Ledger
  <2>3. CASE Len(todo) = 1
    <3>1. ~Outstanding(1) /\ ~Outstanding(2)
      BY <1>1, <2>3 DEF Outstanding
    <3> QED
      BY <2>1, <2>2, <2>3, <3>1
  <2>4. CASE Len(todo) = 2
    <3>1. Outstanding(1) /\ ~Outstanding(2)
      BY <1>1, <2>4 DEF Outstanding
    <3> QED
      BY <2>1, <2>2, <2>4, <3>1
  <2>5. CASE Len(todo) = 3
    <3>1. Outstanding(1) /\ Outstanding(2)
      BY <1>1, <2>5 DEF Outstanding
    <3> QED
      BY <2>1, <2>2, <2>5, <3>1
  <2> QED
    BY <1>1, <2>3, <2>4, <2>5
<1>6. Processed(Total, counts) = Len(results) - (IF Len(todo) = 2 THEN 1 ELSE 0)
  <2>1. Len(results) \in Nat /\ Len(results) <= Total
    BY WithFinite DEF Ledger, Kinds
  <2>2. CASE Len(todo) = 2
    BY <1>5, <2>1, <2>2, TotalAssumption DEF Processed
  <2>3. CASE Len(todo) # 2
    BY <1>5, <2>1, <2>3, TotalAssumption DEF Processed
  <2> QED
    BY <2>2, <2>3
<1>7. /\ counts' \in [CountFields -> Int]
      /\ counts'["processed"] = Len(results) - (IF Len(todo) = 2 THEN 1 ELSE 0)
      /\ \A x \in Statuses : counts'[x] = counts[x]
  <2>1. Len(results) - (IF Len(todo) = 2 THEN 1 ELSE 0) \in Int
    BY WithFinite DEF Ledger
  <2>2. counts \in [CountFields -> Int] /\ "processed" \in CountFields /\ "processed" \notin Statuses
        /\ Statuses \subseteq CountFields
    BY DEF Ledger, Kinds, CountFields, Statuses
  <2> QED
    BY <1>4, <1>6, <2>1, <2>2
<1>8. Kinds'
  BY <1>1, <1>2, <1>3, <1>7 DEF Ledger, Kinds
<1>9. Len(todo) > 1 => Last' = Last /\ todo'[Len(todo')] = todo[Len(todo)]
  BY <1>1, <1>3 DEF Last
<1>10. Form'
  <2>1. CASE Len(todo) = 1
    BY <1>1, <1>3, <2>1 DEF Form
  <2>2. CASE Len(todo) = 2
    BY <1>1, <1>3, <1>9, <2>2 DEF Ledger, Form
  <2>3. CASE Len(todo) = 3
    BY <1>1, <1>3, <1>9, <2>3 DEF Ledger, Form
  <2> QED
    BY <1>1, <2>1, <2>2, <2>3
<1>11. Booked'
  <2> SUFFICES ASSUME NEW x \in Statuses
               PROVE  counts'[x] = Cardinality(With(x)') - Owed(x)'
    BY DEF Booked
  <2>1. counts'[x] = Cardinality(With(x)) - Owed(x) /\ With(x)' = With(x)
    BY <1>2, <1>7 DEF Ledger, Booked, With
  <2>2. /\ Outstanding(1) <=> Len(todo) > 1
        /\ Outstanding(2) <=> Len(todo) > 2
    BY <1>1 DEF Outstanding
  <2>3. (Outstanding(1)' <=> Len(todo) > 1) /\ (Outstanding(2)' <=> Len(todo) > 2)
    <3>1. CASE Len(todo) = 1
      BY <1>1, <1>3, <3>1 DEF Outstanding
    <3>2. CASE Len(todo) = 2
      BY <1>1, <1>3, <3>2 DEF Outstanding
    <3>3. CASE Len(todo) = 3
      BY <1>1, <1>3, <3>3 DEF Outstanding
    <3> QED
      BY <1>1, <3>1, <3>2, <3>3
  <2>4. Owed(x)' = Owed(x)
    <3>1. CASE Len(todo) > 1
      BY <1>9, <2>2, <2>3, <3>1 DEF Owed
    <3>2. CASE ~(Len(todo) > 1)
      <4>1. ~(Len(todo) > 2)
        BY <1>1, <3>2
      <4> QED
        BY <2>2, <2>3, <3>2, <4>1 DEF Owed
    <3> QED
      BY <3>1, <3>2
  <2> QED
    BY <2>1, <2>4
<1>12. Lag'
  <2>1. Len(todo') = 1 <=> Len(todo) = 2
    BY <1>1, <1>3
  <2>2. counts'["processed"] = Len(results) - (IF Len(todo) = 2 THEN 1 ELSE 0)
    BY <1>7
  <2>3. Len(results') = Len(results)
    BY <1>2
  <2>4. (IF Len(todo') = 1 THEN 1 ELSE 0) = (IF Len(todo) = 2 THEN 1 ELSE 0)
    BY <2>1
  <2> QED
    BY <2>2, <2>3, <2>4, Zenon DEF Lag
<1>13. status = "running" /\ shown.results = <<>>
  BY <1>1 DEF Ledger, Ended, Watched
<1>14. Ended' /\ Watched'
  BY <1>2, <1>13 DEF Ledger, Ended, Watched
<1> QED
  BY <1>8, <1>10, <1>11, <1>12, <1>14 DEF Ledger

\* The end of a job writes its status only.
LEMMA EndStep ==
  ASSUME Ledger, Finish \/ Crash
  PROVE  Ledger'
<1>1. /\ status = "running" /\ todo = <<>> /\ status' \in {"complete", "failed"}
      /\ status' = "complete" => Len(results) = Total
      /\ UNCHANGED <<results, counts, todo, half, page, seen, shown>>
  BY DEF Finish, Crash, Working
<1>2. Kinds' /\ Form' /\ Booked' /\ Lag'
  <2>1. Kinds' /\ Form'
    BY <1>1 DEF Ledger, Kinds, Form, Last, JobStatus
  <2>2. Booked' /\ Lag'
    BY <1>1 DEF Ledger, Booked, Lag, With, Owed, Outstanding, Last
  <2> QED
    BY <2>1, <2>2
<1>3. Ended'
  BY <1>1 DEF Ended
<1>4. seen = "running" /\ page # "results" /\ shown.results = <<>>
  BY <1>1 DEF Ledger, Watched
<1>5. Watched'
  BY <1>1, <1>4 DEF Ledger, Watched
<1> QED
  BY <1>2, <1>3, <1>5 DEF Ledger

-----------------------------------------------------------------------------
(* The page's steps.                                                         *)

LEMMA PageStep ==
  ASSUME Ledger, Page \/ UserActs \/ UNCHANGED vars
  PROVE  Ledger'
<1>1. UNCHANGED worker
  BY DEF Page, UserActs, ViewStatus, ViewCounts, ViewResults, Recheck, Wake, vars, worker
<1>2. Form' /\ Booked' /\ Lag' /\ Ended'
  <2>1. Form' /\ Ended'
    BY <1>1 DEF worker, Ledger, Form, Last, Ended
  <2>2. Booked' /\ Lag'
    BY <1>1 DEF worker, Ledger, Booked, Lag, With, Owed, Outstanding, Last
  <2> QED
    BY <2>1, <2>2
<1>3. counts["processed"] \in Int /\ counts["processed"] <= Len(results) /\ Len(results) \in Nat
  <2>1. Len(results) \in Nat
    BY WithFinite DEF Ledger
  <2> QED
    BY <2>1 DEF Ledger, Lag
<1>4. shown.processed \in Int /\ shown.processed <= Len(results)
  BY DEF Ledger, Kinds, Watched
<1>5. results \in Seq(Statuses) /\ counts \in [CountFields -> Int] /\ status \in JobStatus
  BY DEF Ledger, Kinds
<1>6. CASE ViewStatus
  <2>1. seen' = status /\ page' = "counts" /\ shown' = shown
    BY <1>6 DEF ViewStatus
  <2>2. Kinds'
    BY <1>1, <2>1 DEF worker, Ledger, Kinds
  <2>3. Watched'
    BY <1>1, <2>1 DEF worker, Ledger, Watched
  <2> QED
    BY <1>2, <2>2, <2>3 DEF Ledger
<1>7. CASE ViewCounts
  <2> DEFINE n == IF seen = "failed" THEN shown.processed ELSE counts["processed"]
  <2>1. n \in Int /\ n <= Len(results)
    BY <1>3, <1>4
  <2>2. /\ shown' = [NothingShown EXCEPT !.status = seen, !.processed = n]
        /\ seen' = seen /\ page' \in {"results", "recheck"}
        /\ page' = "results" => seen = "complete"
    BY <1>7 DEF ViewCounts
  <2> HIDE DEF n
  <2>a. page' = "results" => seen = "complete"
    BY <2>2
  <2>b. /\ status' = status /\ results' = results /\ counts' = counts
        /\ todo' = todo /\ half' = half /\ seen' = seen
    BY <1>1, <2>2 DEF worker
  <2>3. seen \in JobStatus /\ NewCounts \in [CountFields -> Int] /\ << >> \in Seq(Statuses)
    BY DEF Ledger, Kinds, NewCounts
  <2>4. shown' = [status |-> seen, processed |-> n, results |-> <<>>, counts |-> NewCounts]
    BY <2>2 DEF NothingShown
  <2>c. shown' \in [status : JobStatus \cup {"none"}, processed : Int,
                     results : Seq(Statuses), counts : [CountFields -> Int]]
    BY <2>1, <2>3, <2>4
  <2>5. Kinds'
    BY <2>b, <2>c DEF Ledger, Kinds
  <2>6. Watched'
    BY <2>1, <2>a, <2>b, <2>4 DEF Ledger, Watched
  <2> QED
    BY <1>2, <2>5, <2>6 DEF Ledger
<1>8. CASE ViewResults
  <2>1. /\ shown' = [shown EXCEPT !.results = results, !.counts = counts]
        /\ seen' = seen /\ page' = "recheck" /\ page = "results"
    BY <1>8 DEF ViewResults
  <2>2. shown \in [status : JobStatus \cup {"none"}, processed : Int,
                   results : Seq(Statuses), counts : [CountFields -> Int]]
    BY DEF Ledger, Kinds
  <2>3. shown' = [status |-> shown.status, processed |-> shown.processed,
                  results |-> results, counts |-> counts]
    BY <2>1, <2>2
  <2>4. Kinds'
    BY <1>1, <1>5, <2>1, <2>2, <2>3 DEF worker, Ledger, Kinds
  <2>5. status = "complete"
    BY <2>1 DEF Ledger, Watched
  <2>6. Watched'
    BY <1>1, <1>4, <2>1, <2>3, <2>5 DEF worker, Ledger, Watched
  <2> QED
    BY <1>2, <2>4, <2>6 DEF Ledger
<1>9. CASE Recheck \/ Wake \/ UserActs \/ UNCHANGED vars
  <2>1. /\ UNCHANGED <<seen, shown>>
        /\ page' = page \/ page' # "results"
    BY <1>9 DEF Recheck, Wake, UserActs, vars
  <2>2. Kinds'
    BY <1>1, <2>1 DEF worker, Ledger, Kinds
  <2>3. Watched'
    BY <1>1, <2>1 DEF worker, Ledger, Watched
  <2> QED
    BY <1>2, <2>2, <2>3 DEF Ledger
<1> QED
  BY <1>6, <1>7, <1>8, <1>9 DEF Page

-----------------------------------------------------------------------------
(* Theorems.                                                                 *)

\* The inductive invariant: the counts are those of the results up to the
\* calls outstanding, and what the page holds is of a job that has ended.
THEOREM LedgerInvariant == Spec => []Ledger
<1>1. ASSUME Init PROVE Ledger
  <2>1. /\ status = "running" /\ results = <<>> /\ todo = <<>> /\ half = FALSE
        /\ page = "start" /\ seen = "running"
        /\ shown = [status |-> "none", processed |-> 0, results |-> <<>>, counts |-> NewCounts]
        /\ counts = [f \in CountFields |-> 0]
    BY <1>1 DEF Init, NothingShown, NewCounts
  <2>2. Len(results) = 0 /\ Len(todo) = 0
    BY <2>1
  <2>3. counts \in [CountFields -> Int] /\ \A f \in CountFields : counts[f] = 0
    BY <2>1
  <2>4. Kinds
    <3>1. [f \in CountFields |-> 0] \in [CountFields -> Int]
      OBVIOUS
    <3>2. shown \in [status : JobStatus \cup {"none"}, processed : Int,
                     results : Seq(Statuses), counts : [CountFields -> Int]]
      BY <2>1, <3>1 DEF NewCounts
    <3>3. results \in Seq(Statuses) /\ todo \in Seq(Calls) /\ Len(results) <= Total
      BY <2>1, <2>2, TotalAssumption
    <3>4. status \in JobStatus /\ seen \in JobStatus /\ half \in BOOLEAN
      BY <2>1 DEF JobStatus
    <3> QED
      BY <2>3, <3>2, <3>3, <3>4 DEF Kinds
  <2>5. Form
    BY <2>1, <2>2 DEF Form
  <2>6. Booked
    <3> SUFFICES ASSUME NEW s \in Statuses PROVE counts[s] = Cardinality(With(s)) - Owed(s)
      BY DEF Booked
    <3>1. With(s) = {}
      BY <2>2 DEF With
    <3>2. Cardinality(With(s)) = 0
      BY <3>1, FS_EmptySet
    <3>3. Owed(s) = 0
      BY <2>2 DEF Owed, Outstanding
    <3> QED
      BY <2>3, <3>2, <3>3 DEF CountFields
  <2>7. Lag
    BY <2>2, <2>3 DEF Lag, CountFields
  <2>8. Ended /\ Watched
    BY <2>1, <2>2 DEF Ended, Watched
  <2> QED
    BY <2>4, <2>5, <2>6, <2>7, <2>8 DEF Ledger
<1>2. ASSUME Ledger, [Next]_vars PROVE Ledger'
  <2>1. ASSUME NEW s \in {"valid", "invalid", "reserved"}, AddResult(s) PROVE Ledger'
    BY <1>2, <2>1, AddResultStep
  <2>2. ASSUME NEW k \in 1 .. Len(results), NEW s \in {"valid", "invalid"},
               NEW flagged \in BOOLEAN, Settle(k, s, flagged)
        PROVE  Ledger'
    BY <1>2, <2>2, SettleStep, Zenon
  <2>3. CASE CountField \/ CountProcessed \/ Finish \/ Crash
    BY <1>2, <2>3, CountFieldStep, CountProcessedStep, EndStep
  <2>4. CASE Page \/ UserActs \/ UNCHANGED vars
    BY <1>2, <2>4, PageStep
  <2> QED
    BY <1>2, <2>1, <2>2, <2>3, <2>4 DEF Next, Worker
<1> QED
  BY <1>1, <1>2, PTL DEF Spec

\* Results on the page are those of the finished job, one per address, and the
\* metrics beside them are theirs (streamlit_app.py, render_results;
\* UiPolling.RenderedIsFinal).
THEOREM RenderedAreFinal == Spec => []RenderedIsFinal
<1>1. ASSUME Ledger, shown.results # <<>>
      PROVE  /\ shown.results = results /\ Len(results) = Total
             /\ \A s \in Statuses : shown.counts[s] = Tally(s)
             /\ shown.counts["processed"] = Total
  <2>1. /\ status = "complete" /\ shown.results = results /\ shown.counts = counts
        /\ Len(results) = Total /\ todo = <<>>
    BY <1>1 DEF Ledger, Watched, Ended
  <2>2. \A s : Tally(s) = Cardinality(With(s))
    BY <2>1 DEF Tally, With
  <2>3. \A s \in Statuses : counts[s] = Cardinality(With(s))
    BY <1>1, <2>1, NothingOwed DEF Ledger
  <2>4. counts["processed"] = Total
    BY <1>1, <2>1, TotalAssumption DEF Ledger, Lag
  <2> QED
    BY <2>1, <2>2, <2>3, <2>4
<1>2. Ledger => RenderedIsFinal
  BY <1>1 DEF RenderedIsFinal
<1> QED
  BY <1>2, LedgerInvariant, PTL

\* The page, which may read between the two writes of a count, shows at most
\* one less than it did before (streamlit_app.py, progress_view;
\* UiPolling.ProgressDipsByOne).
THEOREM ProgressDipsAtMostOne == Spec => ProgressDipsByOne
<1>1. ASSUME Ledger, Next
      PROVE  shown'.processed >= shown.processed - 1
  <2>1. /\ Len(results) \in Nat /\ shown.processed \in Int /\ shown.processed <= Len(results)
        /\ counts["processed"] = Len(results) - (IF Len(todo) = 1 THEN 1 ELSE 0)
    BY <1>1, WithFinite DEF Ledger, Kinds, Watched, Lag
  <2>2. CASE ViewCounts
    <3>1. shown'.processed \in {shown.processed, counts["processed"]}
      BY <2>2 DEF ViewCounts, NothingShown
    <3>2. counts["processed"] \in Int /\ counts["processed"] >= Len(results) - 1
      BY <2>1
    <3> QED
      BY <2>1, <3>1, <3>2
  <2>3. CASE ~ViewCounts
    <3>1. shown'.processed = shown.processed
      <4>1. shown \in [status : JobStatus \cup {"none"}, processed : Int,
                       results : Seq(Statuses), counts : [CountFields -> Int]]
        BY <1>1 DEF Ledger, Kinds
      <4>2. CASE ViewResults
        BY <4>1, <4>2 DEF ViewResults
      <4>3. CASE ~ViewResults
        <5>1. shown' = shown
          BY <1>1, <2>3, <4>3 DEF Next, Worker, Page, AddResult, Settle, CountField,
             CountProcessed, Finish, Crash, ViewStatus, Recheck, Wake, UserActs, worker
        <5> QED
          BY <5>1
      <4> QED
        BY <4>2, <4>3
    <3> QED
      BY <2>1, <3>1
  <2> QED
    BY <2>2, <2>3
<1>2. Ledger /\ [Next]_vars => [shown'.processed >= shown.processed - 1]_vars
  BY <1>1
<1> QED
  BY <1>2, LedgerInvariant, PTL DEF Spec, ProgressDipsByOne
===============================================================================
