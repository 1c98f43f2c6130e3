---------------------------- MODULE PatternStore ----------------------------
(* The pattern store (app/store/patterns.py): one object of the process, in  *)
(* which every job records, at the start of Stage 4, the formats of its      *)
(* confirmed addresses and the number of its reserved ones, and from which   *)
(* it scores a snapshot (app/pipeline/runner.py:491-539).  Each job runs in  *)
(* a thread of its own (streamlit_app.py).  A step here is what CPython runs *)
(* without giving up the interpreter lock: calls may be interrupted, `+=` on *)
(* an attribute and list(set) are not.                                       *)
EXTENDS Integers, Sequences, FiniteSets

CONSTANTS
  Jobs,       \* the job threads
  Domains,
  Formats,    \* what detect_format may return
  Plans       \* the sequences of calls a job may make

Call == [op : {"valid", "reserved", "snapshot"}, domain : Domains, format : Formats]

ASSUME JobsAssumption == IsFiniteSet(Jobs)
ASSUME PlansAssumption == Plans \subseteq Seq(Call)

VARIABLES
  plan,       \* plan[j]: the calls of job j, in order
  next,       \* next[j]: the call it is in
  pc,         \* pc[j]: where in the call
  patterns,   \* patterns[d]: the entry of the domain, an index of `entries`, or 0
  entries,    \* every _DomainPattern ever created, the lost ones too
  held,       \* held[j]: the local variable p
  snap,       \* snap[j][d]: PatternSnapshot, by domain
  recorded,   \* (history) completed calls of record_valid and record_reserved:
              \* <<job, position in its plan, entry it counted in>>
  raced,      \* (history) domains whose entry two jobs created at once
  since       \* (history) since[j][d]: what was recorded of the domain when the
              \* job's last snapshot of it began

vars == <<plan, next, pc, patterns, entries, held, snap, recorded, raced, since>>

NewEntry(d) == [domain |-> d, formats |-> {}, totalReserved |-> 0, resolvedValid |-> 0]
NoPattern == [formats |-> {}, resolved |-> 0, highRate |-> FALSE]

Init ==
  /\ plan \in [Jobs -> Plans]
  /\ next = [j \in Jobs |-> 1]
  /\ pc = [j \in Jobs |-> "lookup"]
  /\ patterns = [d \in Domains |-> 0]
  /\ entries = <<>>
  /\ held = [j \in Jobs |-> 0]
  /\ snap = [j \in Jobs |-> [d \in Domains |-> NoPattern]]
  /\ recorded = {}
  /\ raced = {}
  /\ since = [j \in Jobs |-> [d \in Domains |-> {}]]

-----------------------------------------------------------------------------
Calling(j) == next[j] <= Len(plan[j])
Current(j) == plan[j][next[j]]
At(j, where) == Calling(j) /\ pc[j] = where
Writing(j) == Current(j).op \in {"valid", "reserved"}
Goto(j, where) == pc' = [pc EXCEPT ![j] = where]
CallEnds(j) == next' = [next EXCEPT ![j] = @ + 1] /\ Goto(j, "lookup")

\* A record and the call it is of.
CallOf(r) == plan[r[1]][r[2]]
RecordsOf(d) == {r \in recorded : CallOf(r).domain = d}

\* A defect: a record always starts a new entry.
LookupNothing(j) ==
  /\ At(j, "lookup")
  /\ held' = [held EXCEPT ![j] = patterns[Current(j).domain]]
  /\ IF Writing(j) THEN Goto(j, "create") /\ UNCHANGED next
     ELSE IF patterns[Current(j).domain] = 0 THEN CallEnds(j)
     ELSE Goto(j, "formats") /\ UNCHANGED next
  /\ UNCHANGED <<plan, patterns, entries, snap, recorded, raced, since>>

\* self._patterns.get(domain); a snapshot skips a domain that has no entry.
Lookup(j) ==
  /\ At(j, "lookup")
  /\ LET p == patterns[Current(j).domain] IN
       /\ held' = [held EXCEPT ![j] = p]
       /\ IF Writing(j) THEN Goto(j, IF p = 0 THEN "create" ELSE "update") /\ UNCHANGED next
          ELSE IF p = 0 THEN CallEnds(j)
          ELSE Goto(j, "formats") /\ UNCHANGED next
  /\ since' = IF Writing(j) THEN since
              ELSE [since EXCEPT ![j][Current(j).domain] = RecordsOf(Current(j).domain)]
  /\ UNCHANGED <<plan, patterns, entries, snap, recorded, raced>>

\* _get_or_create stores a new entry, whatever is there by now.
Create(j) ==
  /\ At(j, "create")
  /\ LET d == Current(j).domain IN
       /\ entries' = Append(entries, NewEntry(d))
       /\ patterns' = [patterns EXCEPT ![d] = Len(entries')]
       /\ held' = [held EXCEPT ![j] = Len(entries')]
       /\ raced' = raced \cup (IF \E k \in Jobs \ {j} : At(k, "create") /\ Current(k).domain = d
                               THEN {d} ELSE {})
  /\ Goto(j, "update")
  /\ UNCHANGED <<plan, next, snap, recorded, since>>

\* record_valid adds the format before it counts.
Learn(j) ==
  /\ At(j, "update")
  /\ entries' = IF Current(j).op = "valid"
                THEN [entries EXCEPT ![held[j]].formats = @ \cup {Current(j).format}]
                ELSE entries
  /\ Goto(j, "count")
  /\ UNCHANGED <<plan, next, patterns, held, snap, recorded, raced, since>>

\* A defect: the count is set, not raised.
CountedOnce(op, e) ==
  IF op = "valid" THEN [e EXCEPT !.resolvedValid = 1] ELSE [e EXCEPT !.totalReserved = 1]

Counted(op, e) ==
  IF op = "valid" THEN [e EXCEPT !.resolvedValid = @ + 1] ELSE [e EXCEPT !.totalReserved = @ + 1]

Count(j) ==
  /\ At(j, "count")
  /\ entries' = [entries EXCEPT ![held[j]] = Counted(Current(j).op, @)]
  /\ recorded' = recorded \cup {<<j, next[j], held[j]>>}
  /\ CallEnds(j)
  /\ UNCHANGED <<plan, patterns, held, snap, raced, since>>

SnapFormats(j) ==
  /\ At(j, "formats")
  /\ snap' = [snap EXCEPT ![j][Current(j).domain].formats = entries[held[j]].formats]
  /\ Goto(j, "resolved")
  /\ UNCHANGED <<plan, next, patterns, entries, held, recorded, raced, since>>

\* A defect: a count that an earlier snapshot has is not read again.
SnapResolvedOnce(j) ==
  /\ At(j, "resolved")
  /\ snap' = [snap EXCEPT ![j][Current(j).domain].resolved =
                IF @ # 0 THEN @ ELSE entries[held[j]].resolvedValid]
  /\ Goto(j, "rate")
  /\ UNCHANGED <<plan, next, patterns, entries, held, recorded, raced, since>>

SnapResolved(j) ==
  /\ At(j, "resolved")
  /\ snap' = [snap EXCEPT ![j][Current(j).domain].resolved = entries[held[j]].resolvedValid]
  /\ Goto(j, "rate")
  /\ UNCHANGED <<plan, next, patterns, entries, held, recorded, raced, since>>

\* resolve rate > 0.8
HighRate(e) == e.totalReserved # 0 /\ 10 * e.resolvedValid > 8 * e.totalReserved

\* get_resolve_rate looks the domain up again: perhaps another entry.  No
\* call of record_bounce exists, so the bounce rate is always 0.
SnapRate(j) ==
  /\ At(j, "rate")
  /\ LET d == Current(j).domain IN
       snap' = [snap EXCEPT ![j][d].highRate = HighRate(entries[patterns[d]])]
  /\ CallEnds(j)
  /\ UNCHANGED <<plan, patterns, entries, held, recorded, raced, since>>

Step(j) == \/ Lookup(j) \/ Create(j) \/ Learn(j) \/ Count(j)
           \/ SnapFormats(j) \/ SnapResolved(j) \/ SnapRate(j)

Next == \E j \in Jobs : Step(j)

Spec == Init /\ [][Next]_vars

-----------------------------------------------------------------------------
(* Properties.                                                               *)

Entry == [domain : Domains, formats : SUBSET Formats, totalReserved : Nat, resolvedValid : Nat]
PatternSnapshot == [formats : SUBSET Formats, resolved : Nat, highRate : BOOLEAN]
Place == {"lookup", "create", "update", "count", "formats", "resolved", "rate"}

\* Every variable has a value of its kind.
TypeOK ==
  /\ plan \in [Jobs -> Plans]
  /\ next \in [Jobs -> Nat \ {0}] /\ \A j \in Jobs : next[j] <= Len(plan[j]) + 1
  /\ pc \in [Jobs -> Place]
  /\ patterns \in [Domains -> 0 .. Len(entries)]
  /\ entries \in Seq(Entry)
  /\ held \in [Jobs -> 0 .. Len(entries)]
  /\ snap \in [Jobs -> [Domains -> PatternSnapshot]]
  /\ recorded \subseteq Jobs \X (Nat \ {0}) \X (1 .. Len(entries))
  /\ raced \subseteq Domains
  /\ since \in [Jobs -> [Domains -> SUBSET recorded]]

Records(d, op) == {r \in recorded : CallOf(r).domain = d /\ CallOf(r).op = op}
RecordsIn(i, op) == {r \in recorded : r[3] = i /\ CallOf(r).op = op}
EntriesOf(d) == {i \in DOMAIN entries : entries[i].domain = d}

\* No thread ever undoes another's record: each completed call is counted in
\* exactly one entry ever created for its domain, although a lost race may
\* have dropped that entry from the store, and an entry counts nothing else.
EveryRecordKept ==
  /\ \A j \in Jobs : \A k \in 1 .. next[j] - 1 :
       plan[j][k].op # "snapshot" =>
         \E i \in EntriesOf(plan[j][k].domain) :
           {r \in recorded : r[1] = j /\ r[2] = k} = {<<j, k, i>>}
  /\ \A i \in DOMAIN entries :
       /\ entries[i].resolvedValid = Cardinality(RecordsIn(i, "valid"))
       /\ entries[i].totalReserved = Cardinality(RecordsIn(i, "reserved"))

\* The only way to lose a record is two threads that both find the domain
\* missing: without that race there is one entry, and it counts everything.
LostOnlyInCreation ==
  \A d \in Domains \ raced :
    /\ Cardinality(EntriesOf(d)) <= 1
    /\ patterns[d] # 0 =>
         /\ entries[patterns[d]].resolvedValid = Cardinality(Records(d, "valid"))
         /\ entries[patterns[d]].totalReserved = Cardinality(Records(d, "reserved"))

\* The calls for the domain that have at least begun.
Begun(d, op) ==
  UNION {{<<j, k>> : k \in {k \in DOMAIN plan[j] : /\ k <= next[j]
                                                   /\ plan[j][k].op = op
                                                   /\ plan[j][k].domain = d}} : j \in Jobs}

\* The records the job's snapshot of the domain cannot miss.
Known(j, d, op) == {r \in since[j][d] : CallOf(r).op = op}

\* The job is in the middle of a snapshot of the domain.
Reading(j, d) == Calling(j) /\ pc[j] \in {"formats", "resolved", "rate"} /\ Current(j).domain = d

\* No format and no confirmed address in a snapshot is one nobody confirmed.
NothingInvented(j, d) ==
  /\ snap[j][d].formats \subseteq {plan[c[1]][c[2]].format : c \in Begun(d, "valid")}
  /\ snap[j][d].resolved <= Cardinality(Begun(d, "valid"))

\* What any thread had recorded when the snapshot began is in it: a format
\* confirmed by then is not scored as one that "differs".  The rate is high,
\* or not, for some numbers between those recorded then and those begun now.
NothingMissed(j, d) ==
  LET known(op) == Cardinality(Known(j, d, op))
      begun(op) == Cardinality(Begun(d, op))
  IN  /\ {CallOf(r).format : r \in Known(j, d, "valid")} \subseteq snap[j][d].formats
      /\ known("valid") <= snap[j][d].resolved
      /\ snap[j][d].highRate => 10 * begun("valid") > 8 * known("reserved")
      /\ ~snap[j][d].highRate =>
           known("reserved") = 0 \/ 10 * known("valid") <= 8 * begun("reserved")

\* patterns.py:110-123: a snapshot is read in several steps while others write,
\* and its rate in an entry looked up anew.  Each value of it lies between what
\* was recorded when it began and what has begun since, unless the domain's
\* entry was created twice.  The values are not of one moment: a format another
\* job confirms in between may be missing beside a count that has it.
SnapshotGrounded ==
  \A j \in Jobs, d \in Domains :
    /\ NothingInvented(j, d)
    /\ d \notin raced /\ ~Reading(j, d) => NothingMissed(j, d)

-----------------------------------------------------------------------------
(* What patterns.py:3-4 says: the store "learns confirmed local-part formats *)
(* per domain across a batch".                                               *)

Own(j, d) == {k \in 1 .. Len(plan[j]) : plan[j][k].op = "valid" /\ plan[j][k].domain = d}
Snapped(j, d) == next[j] > Len(plan[j])
                   /\ \E k \in 1 .. Len(plan[j]) : plan[j][k].op = "snapshot" /\ plan[j][k].domain = d

\* A job that takes its snapshot finds in it the formats it has recorded.
OwnFormatsLearnt ==
  \A j \in Jobs, d \in Domains :
    Snapped(j, d) => {plan[j][k].format : k \in Own(j, d)} \subseteq snap[j][d].formats

\* A batch is scored on what was confirmed in the batch.
LearnsFromItsBatch ==
  \A j \in Jobs, d \in Domains :
    Snapped(j, d) => snap[j][d].formats \subseteq {plan[j][k].format : k \in Own(j, d)}
=============================================================================
