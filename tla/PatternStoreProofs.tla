-------------------------- MODULE PatternStoreProofs --------------------------
(* Theorems of PatternStore, for any finite number of job threads and        *)
(* whatever calls they make: what a race costs and what it cannot.           *)
EXTENDS PatternStore, FiniteSetTheorems, SequenceTheorems, TLAPS

-----------------------------------------------------------------------------
(* The invariant.                                                            *)

\* An entry is filed under its domain, and a call works on an entry of its own.
Filed ==
  /\ \A d \in Domains : patterns[d] # 0 => entries[patterns[d]].domain = d
  /\ \A j \in Jobs :
       /\ Calling(j) /\ pc[j] # "lookup" =>
            (Writing(j) <=> pc[j] \in {"create", "update", "count"})
       /\ Calling(j) /\ pc[j] \notin {"lookup", "create"} =>
            held[j] # 0 /\ entries[held[j]].domain = Current(j).domain

\* Without a race a domain has one entry, and nobody is about to replace it.
Single ==
  \A d \in Domains :
    /\ patterns[d] = 0 => EntriesOf(d) = {}
    /\ d \notin raced =>
         /\ EntriesOf(d) \subseteq {patterns[d]}
         /\ patterns[d] # 0 => \A j \in Jobs : ~(At(j, "create") /\ Current(j).domain = d)

\* What has been recorded was called, and counted for its domain.
Recorded ==
  /\ IsFiniteSet(recorded)
  /\ \A r \in recorded :
       /\ r[2] < next[r[1]] /\ r[2] \in DOMAIN plan[r[1]]
       /\ CallOf(r).op # "snapshot" /\ entries[r[3]].domain = CallOf(r).domain
  /\ EveryRecordKept

\* What an entry or a snapshot claims was confirmed.
Grounded ==
  /\ \A i \in DOMAIN entries :
       entries[i].formats \subseteq {plan[c[1]][c[2]].format : c \in Begun(entries[i].domain, "valid")}
  /\ \A j \in Jobs, d \in Domains : NothingInvented(j, d)

\* A call learns its format before it counts.
Learned ==
  /\ \A r \in recorded : CallOf(r).op = "valid" => CallOf(r).format \in entries[r[3]].formats
  /\ \A j \in Jobs :
       At(j, "count") /\ Current(j).op = "valid" => Current(j).format \in entries[held[j]].formats

HasFormats(j, d) == {CallOf(r).format : r \in Known(j, d, "valid")} \subseteq snap[j][d].formats
HasCount(j, d) == Cardinality(Known(j, d, "valid")) <= snap[j][d].resolved

\* What a snapshot has of what it must not miss, step by step.
Window(j, d) ==
  /\ \A r \in since[j][d] : CallOf(r).domain = d
  /\ d \notin raced =>
       /\ Reading(j, d) /\ pc[j] \in {"resolved", "rate"} => HasFormats(j, d)
       /\ Reading(j, d) /\ pc[j] = "rate" => HasCount(j, d)
       /\ ~Reading(j, d) => NothingMissed(j, d)

Windows == \A j \in Jobs, d \in Domains : Window(j, d)

-----------------------------------------------------------------------------
(* Types.                                                                    *)

LEMMA CallTypes ==
  ASSUME TypeOK, NEW j \in Jobs
  PROVE  /\ plan[j] \in Seq(Call) /\ Len(plan[j]) \in Nat
         /\ DOMAIN plan[j] = 1 .. Len(plan[j])
         /\ Calling(j) => next[j] \in DOMAIN plan[j] /\ Current(j) \in Call
         /\ Calling(j) => Current(j).domain \in Domains /\ Current(j).format \in Formats
                          /\ Current(j).op \in {"valid", "reserved", "snapshot"}
<1>1. plan[j] \in Seq(Call) /\ next[j] \in Nat \ {0}
  BY PlansAssumption DEF TypeOK
<1>2. Calling(j) => next[j] \in DOMAIN plan[j] /\ Current(j) \in Call
  BY <1>1 DEF Calling, Current
<1> QED
  BY <1>1, <1>2 DEF Call

\* A job is in a call of its plan, and moves inside it or on to the next.
LEMMA StepMoves ==
  ASSUME TypeOK, NEW j \in Jobs, Step(j)
  PROVE  /\ Calling(j) /\ UNCHANGED plan
         /\ next' \in [Jobs -> Nat \ {0}] /\ \A k \in Jobs : next'[k] <= Len(plan'[k]) + 1
         /\ pc' \in [Jobs -> Place]
         /\ \A k \in Jobs \ {j} : next'[k] = next[k] /\ pc'[k] = pc[k] /\ held'[k] = held[k]
         /\ next'[j] \in {next[j], next[j] + 1}
         /\ next'[j] = next[j] + 1 <=> pc'[j] = "lookup"
<1>1. /\ Calling(j) /\ UNCHANGED plan
      /\ \A k \in Jobs \ {j} : held'[k] = held[k]
      /\ \/ UNCHANGED next /\ \E w \in Place \ {"lookup"} : Goto(j, w)
         \/ CallEnds(j)
  <2>1. CASE Lookup(j)
    BY <2>1 DEF Lookup, At, TypeOK, Place
  <2>2. CASE Create(j) \/ Learn(j)
    BY <2>2 DEF Create, Learn, At, TypeOK, Place
  <2>3. CASE Count(j) \/ SnapRate(j)
    BY <2>3 DEF Count, SnapRate, At
  <2>4. CASE SnapFormats(j) \/ SnapResolved(j)
    BY <2>4 DEF SnapFormats, SnapResolved, At, Place
  <2> QED
    BY <2>1, <2>2, <2>3, <2>4 DEF Step
<1>2. next[j] \in Nat \ {0} /\ next[j] + 1 <= Len(plan[j]) + 1 /\ Len(plan[j]) \in Nat
  BY <1>1, CallTypes DEF Calling, TypeOK
<1>3. CASE CallEnds(j)
  BY <1>1, <1>2, <1>3 DEF CallEnds, Goto, TypeOK, Place
<1>4. CASE UNCHANGED next /\ \E w \in Place \ {"lookup"} : Goto(j, w)
  BY <1>1, <1>2, <1>4 DEF Goto, TypeOK, Place
<1> QED
  BY <1>1, <1>3, <1>4

LEMMA EntrySeq ==
  ASSUME TypeOK
  PROVE  /\ entries \in Seq(Entry) /\ Len(entries) \in Nat /\ DOMAIN entries = 1 .. Len(entries)
         /\ \A i \in DOMAIN entries : entries[i] \in Entry
  BY DEF TypeOK

LEMMA HeldEntry ==
  ASSUME TypeOK, Filed, NEW j \in Jobs, Calling(j), pc[j] \notin {"lookup", "create"}
  PROVE  /\ held[j] \in DOMAIN entries /\ entries[held[j]] \in Entry
         /\ entries[held[j]].domain = Current(j).domain
<1>1. held[j] \in 0 .. Len(entries)
  BY DEF TypeOK
<1>2. held[j] # 0 /\ entries[held[j]].domain = Current(j).domain
  BY DEF Filed
<1> QED
  BY <1>1, <1>2, EntrySeq

\* The entries and what they hold: a call creates one, or changes the one it
\* has found and leaves its domain alone.
LEMMA EntryTypes ==
  ASSUME TypeOK, Filed, NEW j \in Jobs, Step(j)
  PROVE  /\ entries' \in Seq(Entry) /\ Len(entries) <= Len(entries') /\ Len(entries) \in Nat
         /\ \A i \in DOMAIN entries : i \in DOMAIN entries' /\ entries'[i].domain = entries[i].domain
         /\ Create(j) \/ DOMAIN entries' = DOMAIN entries
<1>0. Calling(j) /\ Current(j) \in Call /\ Current(j).domain \in Domains /\ Current(j).format \in Formats
  BY StepMoves, CallTypes
<1>e. entries \in Seq(Entry) /\ Len(entries) \in Nat /\ DOMAIN entries = 1 .. Len(entries)
  BY DEF TypeOK
<1>1. CASE Create(j)
  <2>1. NewEntry(Current(j).domain) \in Entry
    BY <1>0 DEF NewEntry, Entry
  <2>2. entries' = Append(entries, NewEntry(Current(j).domain))
    BY <1>1 DEF Create
  <2> QED
    BY <1>e, <1>1, <2>1, <2>2
<1>2. CASE Learn(j) \/ Count(j)
  <2>1. held[j] \in DOMAIN entries
    BY <1>2, HeldEntry DEF Learn, Count, At
  <2>2. entries[held[j]] \in Entry
    BY <1>e, <2>1
  <2>3. \E e \in Entry : e.domain = entries[held[j]].domain /\ entries' = [entries EXCEPT ![held[j]] = e]
    <3>1. CASE Learn(j) /\ Current(j).op = "valid"
      <4> DEFINE e == [entries[held[j]] EXCEPT !.formats = @ \cup {Current(j).format}]
      <4>1. e \in Entry /\ e.domain = entries[held[j]].domain
        BY <1>0, <2>2 DEF Entry
      <4>2. entries' = [entries EXCEPT ![held[j]] = e]
        BY <3>1 DEF Learn
      <4> QED
        BY <4>1, <4>2
    <3>2. CASE Learn(j) /\ Current(j).op # "valid"
      <4>1. entries' = [entries EXCEPT ![held[j]] = entries[held[j]]]
        BY <1>e, <3>2 DEF Learn
      <4> QED
        BY <2>2, <4>1
    <3>3. CASE Count(j)
      <4> DEFINE e == Counted(Current(j).op, entries[held[j]])
      <4>1. e \in Entry /\ e.domain = entries[held[j]].domain
        BY <2>2 DEF Entry, Counted
      <4>2. entries' = [entries EXCEPT ![held[j]] = e]
        BY <3>3 DEF Count
      <4> QED
        BY <4>1, <4>2
    <3> QED
      BY <1>2, <3>1, <3>2, <3>3
  <2>4. PICK e \in Entry : e.domain = entries[held[j]].domain /\ entries' = [entries EXCEPT ![held[j]] = e]
    BY <2>3
  <2> QED
    BY <1>e, <2>1, <2>4
<1>3. CASE UNCHANGED entries
  BY <1>e, <1>3
<1> QED
  BY <1>1, <1>2, <1>3 DEF Step, Lookup, SnapFormats, SnapResolved, SnapRate

LEMMA SnapshotUpdate ==
  ASSUME NEW s \in PatternSnapshot
  PROVE  /\ \A f \in SUBSET Formats : [s EXCEPT !.formats = f] \in PatternSnapshot
         /\ \A n \in Nat : [s EXCEPT !.resolved = n] \in PatternSnapshot
         /\ \A b \in BOOLEAN : [s EXCEPT !.highRate = b] \in PatternSnapshot
<1>1. s.formats \in SUBSET Formats /\ s.resolved \in Nat /\ s.highRate \in BOOLEAN
  BY Zenon DEF PatternSnapshot
<1>2. s = [formats |-> s.formats, resolved |-> s.resolved, highRate |-> s.highRate]
  BY Zenon DEF PatternSnapshot
<1>3. ASSUME NEW f \in SUBSET Formats PROVE [s EXCEPT !.formats = f] \in PatternSnapshot
  <2>1. [s EXCEPT !.formats = f] = [formats |-> f, resolved |-> s.resolved, highRate |-> s.highRate]
    BY <1>2, SMT
  <2> QED
    BY <1>1, <2>1, Zenon DEF PatternSnapshot
<1>4. ASSUME NEW n \in Nat PROVE [s EXCEPT !.resolved = n] \in PatternSnapshot
  <2>1. [s EXCEPT !.resolved = n] = [formats |-> s.formats, resolved |-> n, highRate |-> s.highRate]
    BY <1>2, SMT
  <2> QED
    BY <1>1, <2>1, Zenon DEF PatternSnapshot
<1>5. ASSUME NEW b \in BOOLEAN PROVE [s EXCEPT !.highRate = b] \in PatternSnapshot
  <2>1. [s EXCEPT !.highRate = b] = [formats |-> s.formats, resolved |-> s.resolved, highRate |-> b]
    BY <1>2, SMT
  <2> QED
    BY <1>1, <2>1, Zenon DEF PatternSnapshot
<1> QED
  BY <1>3, <1>4, <1>5

LEMMA SnapTypes ==
  ASSUME TypeOK, Filed, NEW j \in Jobs, Step(j)
  PROVE  snap' \in [Jobs -> [Domains -> PatternSnapshot]]
<1>0. Calling(j) /\ Current(j).domain \in Domains
  BY StepMoves, CallTypes
<1>s. snap \in [Jobs -> [Domains -> PatternSnapshot]]
  BY DEF TypeOK
<1>o. snap[j][Current(j).domain] \in PatternSnapshot
  BY <1>0, <1>s
<1>1. CASE SnapFormats(j) \/ SnapResolved(j)
  <2>1. held[j] \in DOMAIN entries
    BY <1>1, HeldEntry DEF SnapFormats, SnapResolved, At
  <2>2. entries[held[j]].formats \in SUBSET Formats /\ entries[held[j]].resolvedValid \in Nat
    BY <2>1, EntrySeq DEF Entry
  <2>3. \E e \in PatternSnapshot : snap' = [snap EXCEPT ![j][Current(j).domain] = e]
    <3>1. CASE SnapFormats(j)
      <4> DEFINE e == [snap[j][Current(j).domain] EXCEPT !.formats = entries[held[j]].formats]
      <4>1. e \in PatternSnapshot
        BY <1>o, <2>2, SnapshotUpdate, Zenon
      <4>2. snap' = [snap EXCEPT ![j][Current(j).domain] = e]
        BY <3>1 DEF SnapFormats
      <4> QED
        BY <4>1, <4>2
    <3>2. CASE SnapResolved(j)
      <4> DEFINE e == [snap[j][Current(j).domain] EXCEPT !.resolved = entries[held[j]].resolvedValid]
      <4>1. e \in PatternSnapshot
        BY <1>o, <2>2, SnapshotUpdate, Zenon
      <4>2. snap' = [snap EXCEPT ![j][Current(j).domain] = e]
        BY <3>2 DEF SnapResolved
      <4> QED
        BY <4>1, <4>2
    <3> QED
      BY <1>1, <3>1, <3>2
  <2> QED
    BY <1>0, <1>s, <2>3
<1>2. CASE SnapRate(j)
  <2>1. HighRate(entries[patterns[Current(j).domain]]) \in BOOLEAN
    BY DEF HighRate
  <2> DEFINE e == [snap[j][Current(j).domain] EXCEPT
                     !.highRate = HighRate(entries[patterns[Current(j).domain]])]
  <2>2. e \in PatternSnapshot
    BY <1>o, <2>1, SnapshotUpdate, Zenon
  <2>3. snap' = [snap EXCEPT ![j][Current(j).domain] = e]
    BY <1>2 DEF SnapRate
  <2> HIDE DEF e
  <2> QED
    BY <1>0, <1>s, <2>2, <2>3
<1>3. CASE UNCHANGED snap
  BY <1>3, <1>s
<1> QED
  BY <1>1, <1>2, <1>3 DEF Step, Lookup, Create, Learn, Count

LEMMA StepTypes ==
  ASSUME TypeOK, Filed, NEW j \in Jobs, Step(j)
  PROVE  TypeOK'
<1>1. /\ Calling(j) /\ UNCHANGED plan
      /\ next' \in [Jobs -> Nat \ {0}] /\ \A k \in Jobs : next'[k] <= Len(plan'[k]) + 1
      /\ pc' \in [Jobs -> Place]
  BY StepMoves
<1>2. /\ entries' \in Seq(Entry) /\ Len(entries) \in Nat /\ Len(entries') \in Nat
      /\ Len(entries) <= Len(entries')
  BY EntryTypes
<1>3. snap' \in [Jobs -> [Domains -> PatternSnapshot]]
  BY SnapTypes
<1>4. patterns' \in [Domains -> 0 .. Len(entries')] /\ held' \in [Jobs -> 0 .. Len(entries')]
  <2>0. patterns \in [Domains -> 0 .. Len(entries)] /\ held \in [Jobs -> 0 .. Len(entries)]
    BY DEF TypeOK
  <2>1. CASE Lookup(j)
    <3>1. Current(j).domain \in Domains
      BY <1>1, CallTypes
    <3>2. UNCHANGED patterns /\ held' = [held EXCEPT ![j] = patterns[Current(j).domain]]
      BY <2>1 DEF Lookup
    <3> QED
      BY <1>2, <2>0, <3>1, <3>2
  <2>2. CASE Create(j)
    <3>1. /\ patterns' = [patterns EXCEPT ![Current(j).domain] = Len(entries')]
          /\ held' = [held EXCEPT ![j] = Len(entries')]
      BY <2>2 DEF Create
    <3>2. /\ patterns \in [Domains -> 0 .. Len(entries')] /\ held \in [Jobs -> 0 .. Len(entries')]
          /\ Len(entries') \in 0 .. Len(entries')
      BY <1>2, <2>0
    <3> QED
      BY <3>1, <3>2
  <2>3. CASE UNCHANGED <<patterns, held>>
    BY <1>2, <2>0, <2>3
  <2> QED
    BY <2>1, <2>2, <2>3 DEF Step, Learn, Count, SnapFormats, SnapResolved, SnapRate
<1>5. recorded' \subseteq Jobs \X (Nat \ {0}) \X (1 .. Len(entries'))
  <2>0. recorded \subseteq Jobs \X (Nat \ {0}) \X (1 .. Len(entries)) /\ next[j] \in Nat \ {0}
    BY DEF TypeOK
  <2>1. CASE Count(j)
    <3>1. held[j] \in 1 .. Len(entries)
      BY <2>1, HeldEntry, EntrySeq DEF Count, At
    <3>2. recorded' = recorded \cup {<<j, next[j], held[j]>>}
      BY <2>1 DEF Count
    <3> QED
      BY <1>2, <2>0, <3>1, <3>2
  <2>2. CASE UNCHANGED recorded
    BY <1>2, <2>0, <2>2
  <2> QED
    BY <2>1, <2>2 DEF Step, Lookup, Create, Learn, SnapFormats, SnapResolved, SnapRate
<1>6. raced' \subseteq Domains
  <2>1. raced' \subseteq raced \cup {Current(j).domain}
    BY DEF Step, Lookup, Create, Learn, Count, SnapFormats, SnapResolved, SnapRate
  <2>2. Current(j).domain \in Domains /\ raced \subseteq Domains
    BY <1>1, CallTypes DEF TypeOK
  <2> QED
    BY <2>1, <2>2
<1>7. plan' \in [Jobs -> Plans]
  BY <1>1 DEF TypeOK
<1>8. since' \in [Jobs -> [Domains -> SUBSET recorded']]
  <2>1. recorded \subseteq recorded' /\ since \in [Jobs -> [Domains -> SUBSET recorded]]
    BY DEF Step, Lookup, Create, Learn, Count, SnapFormats, SnapResolved, SnapRate, TypeOK
  <2>2. since \in [Jobs -> [Domains -> SUBSET recorded']]
    BY <2>1
  <2>3. UNCHANGED since \/ since' = [since EXCEPT ![j][Current(j).domain] = RecordsOf(Current(j).domain)]
    BY DEF Step, Lookup, Create, Learn, Count, SnapFormats, SnapResolved, SnapRate
  <2>4. Current(j).domain \in Domains /\ RecordsOf(Current(j).domain) \in SUBSET recorded'
    BY <1>1, <2>1, CallTypes DEF RecordsOf
  <2> QED
    BY <2>2, <2>3, <2>4
<1> QED
  BY <1>1, <1>2, <1>3, <1>4, <1>5, <1>6, <1>7, <1>8 DEF TypeOK

\* What the store and a call hold of an entry: one of the domain.
LEMMA StepFiles ==
  ASSUME TypeOK, Filed, NEW j \in Jobs, Step(j)
  PROVE  Filed'
<1>0. /\ Calling(j) /\ UNCHANGED plan /\ Current(j).domain \in Domains
      /\ entries \in Seq(Entry) /\ Len(entries) \in Nat /\ DOMAIN entries = 1 .. Len(entries)
      /\ Current(j).op \in {"valid", "reserved", "snapshot"}
  BY StepMoves, CallTypes, EntrySeq
<1>1. \A i \in DOMAIN entries : i \in DOMAIN entries' /\ entries'[i].domain = entries[i].domain
  BY EntryTypes
<1>2. \A d \in Domains : patterns[d] # 0 => patterns[d] \in DOMAIN entries /\ entries[patterns[d]].domain = d
  BY <1>0 DEF Filed, TypeOK
<1>3. \A k \in Jobs \ {j} : Current(k)' = Current(k) /\ Calling(k)' = Calling(k) /\ pc'[k] = pc[k]
                            /\ held'[k] = held[k] /\ Writing(k)' = Writing(k)
  BY StepMoves DEF Current, Calling, Writing
<1>4. ASSUME NEW k \in Jobs \ {j}
      PROVE  /\ Calling(k)' /\ pc'[k] # "lookup" =>
                  (Writing(k)' <=> pc'[k] \in {"create", "update", "count"})
             /\ Calling(k)' /\ pc'[k] \notin {"lookup", "create"} =>
                  held'[k] # 0 /\ entries'[held'[k]].domain = Current(k)'.domain
  <2>1. Calling(k) /\ pc[k] \notin {"lookup", "create"} =>
          held[k] \in DOMAIN entries /\ entries[held[k]].domain = Current(k).domain
    BY HeldEntry
  <2>2. Calling(k) /\ pc[k] # "lookup" =>
          (Writing(k) <=> pc[k] \in {"create", "update", "count"})
    BY DEF Filed
  <2> QED
    BY <1>0, <1>1, <1>3, <2>1, <2>2
<1>5. /\ Calling(j)' /\ pc'[j] # "lookup" =>
           (Writing(j)' <=> pc'[j] \in {"create", "update", "count"})
      /\ Calling(j)' /\ pc'[j] \notin {"lookup", "create"} =>
           held'[j] # 0 /\ entries'[held'[j]].domain = Current(j)'.domain
  <2>0. pc'[j] # "lookup" => Current(j)' = Current(j) /\ Writing(j)' = Writing(j)
    <3>1. pc'[j] # "lookup" => next'[j] = next[j]
      BY StepMoves DEF TypeOK
    <3> QED
      BY <1>0, <3>1 DEF Current, Writing
  <2>1. CASE Lookup(j)
    <3>1. UNCHANGED entries /\ held'[j] = patterns[Current(j).domain]
      BY <2>1 DEF Lookup, TypeOK
    <3>2. \/ pc'[j] = "lookup"
          \/ pc'[j] = "create" /\ Writing(j)
          \/ pc'[j] = "update" /\ Writing(j) /\ patterns[Current(j).domain] # 0
          \/ pc'[j] = "formats" /\ ~Writing(j) /\ patterns[Current(j).domain] # 0
      BY <2>1 DEF Lookup, Goto, CallEnds, TypeOK
    <3> QED
      BY <1>0, <1>2, <2>0, <3>1, <3>2
  <2>2. CASE Create(j)
    <3>1. /\ pc[j] = "create" /\ pc'[j] = "update" /\ held'[j] = Len(entries) + 1
          /\ entries'[Len(entries) + 1].domain = Current(j).domain
      BY <1>0, <2>2 DEF Create, At, Goto, NewEntry, TypeOK
    <3> QED
      BY <1>0, <2>0, <3>1 DEF Filed
  <2>3. CASE ~Lookup(j) /\ ~Create(j)
    <3>1. /\ pc[j] \notin {"lookup", "create"} /\ held'[j] = held[j]
          /\ pc'[j] \in {"count", "lookup", "resolved", "rate"}
          /\ pc'[j] = "count" => pc[j] = "update"
          /\ pc'[j] \in {"resolved", "rate"} => pc[j] \in {"formats", "resolved"}
      BY <2>3 DEF Step, Learn, Count, SnapFormats, SnapResolved, SnapRate, At, Goto, CallEnds, TypeOK
    <3>2. held[j] \in DOMAIN entries /\ entries[held[j]].domain = Current(j).domain
      BY <1>0, <3>1, HeldEntry
    <3>3. pc'[j] # "lookup" => (Writing(j) <=> pc'[j] = "count")
      BY <1>0, <3>1 DEF Filed
    <3> QED
      BY <1>0, <1>1, <2>0, <3>1, <3>2, <3>3
  <2> QED
    BY <2>1, <2>2, <2>3
<1>6. ASSUME NEW d \in Domains, patterns'[d] # 0 PROVE entries'[patterns'[d]].domain = d
  <2>1. CASE Create(j) /\ d = Current(j).domain
    BY <1>0, <2>1 DEF Create, NewEntry, TypeOK
  <2>2. CASE patterns'[d] = patterns[d]
    BY <1>1, <1>2, <1>6, <2>2
  <2> QED
    BY <2>1, <2>2 DEF Step, Lookup, Create, Learn, Count, SnapFormats, SnapResolved, SnapRate, TypeOK
<1> QED
  BY <1>4, <1>5, <1>6 DEF Filed

\* Every variable of the store has a value of its kind, and a call finds in
\* its hands an entry of its own domain (PatternStore, patterns.py).
THEOREM TypeInvariant == Spec => [](TypeOK /\ Filed)
<1>1. Init => TypeOK /\ Filed
  <2> SUFFICES ASSUME Init PROVE TypeOK /\ Filed
    OBVIOUS
  <2>1. entries \in Seq(Entry) /\ Len(entries) = 0
    BY DEF Init
  <2>2. snap \in [Jobs -> [Domains -> PatternSnapshot]]
    BY DEF Init, NoPattern, PatternSnapshot
  <2>3. next \in [Jobs -> Nat \ {0}] /\ \A j \in Jobs : next[j] <= Len(plan[j]) + 1
    <3>1. \A j \in Jobs : plan[j] \in Seq(Call)
      BY PlansAssumption DEF Init
    <3> QED
      BY <3>1 DEF Init
  <2>4. TypeOK
    BY <2>1, <2>2, <2>3 DEF Init, TypeOK, Place
  <2>5. Filed
    BY DEF Init, Filed
  <2> QED
    BY <2>4, <2>5
<1>2. TypeOK /\ Filed /\ [Next]_vars => TypeOK' /\ Filed'
  <2> SUFFICES ASSUME TypeOK, Filed, [Next]_vars PROVE TypeOK' /\ Filed'
    OBVIOUS
  <2>1. CASE UNCHANGED vars
    BY <2>1 DEF vars, TypeOK, Filed, Calling, Writing, Current
  <2> QED
    BY <2>1, StepTypes, StepFiles DEF Next
<1> QED
  BY <1>1, <1>2, PTL DEF Spec

-----------------------------------------------------------------------------
(* What a race costs.                                                        *)

LEMMA StepSingles ==
  ASSUME TypeOK, Filed, Single, NEW j \in Jobs, Step(j)
  PROVE  Single'
<1>0. /\ Calling(j) /\ UNCHANGED plan /\ Current(j).domain \in Domains
      /\ entries \in Seq(Entry) /\ Len(entries) \in Nat /\ DOMAIN entries = 1 .. Len(entries)
  BY StepMoves, CallTypes, EntrySeq
<1>1. \A k \in Jobs \ {j} : Current(k)' = Current(k) /\ At(k, "create")' = At(k, "create")
  BY StepMoves DEF Current, Calling, At
<1>2. CASE Create(j)
  <2> DEFINE e == Current(j).domain
             n == Len(entries) + 1
  <2>1. /\ pc[j] = "create" /\ pc'[j] = "update"
        /\ patterns' = [patterns EXCEPT ![e] = n]
        /\ raced' = raced \cup (IF \E k \in Jobs \ {j} : At(k, "create") /\ Current(k).domain = e
                                THEN {e} ELSE {})
        /\ entries' = Append(entries, NewEntry(e))
    BY <1>0, <1>2 DEF Create, At, Goto, TypeOK
  <2>2. \A d \in Domains : EntriesOf(d)' = EntriesOf(d) \cup (IF d = e THEN {n} ELSE {})
    BY <1>0, <2>1 DEF EntriesOf, NewEntry
  <2>3. \A d \in Domains : patterns'[d] = IF d = e THEN n ELSE patterns[d]
    BY <1>0, <2>1 DEF TypeOK
  <2>4. ~At(j, "create")'
    BY <2>1 DEF At
  <2>5. e \notin raced => patterns[e] = 0 /\ EntriesOf(e) = {}
    BY <1>0, <2>1 DEF Single, At
  <2> SUFFICES ASSUME NEW d \in Domains
               PROVE  /\ patterns'[d] = 0 => EntriesOf(d)' = {}
                      /\ d \notin raced' =>
                           /\ EntriesOf(d)' \subseteq {patterns'[d]}
                           /\ patterns'[d] # 0 =>
                                \A k \in Jobs : ~(At(k, "create")' /\ Current(k)'.domain = d)
    BY DEF Single
  <2>6. CASE d = e
    BY <1>0, <1>1, <2>1, <2>2, <2>3, <2>4, <2>5, <2>6
  <2>7. CASE d # e
    BY <1>1, <2>1, <2>2, <2>3, <2>4, <2>7 DEF Single
  <2> QED
    BY <2>6, <2>7
<1>3. CASE ~Create(j)
  <2>1. UNCHANGED <<patterns, raced>>
    BY <1>3 DEF Step, Lookup, Learn, Count, SnapFormats, SnapResolved, SnapRate
  <2>2. \A d \in Domains : EntriesOf(d)' = EntriesOf(d)
    BY <1>3, EntryTypes DEF EntriesOf
  <2>3. At(j, "create")' => patterns[Current(j).domain] = 0 /\ Current(j)' = Current(j)
    <3>1. CASE Lookup(j)
      BY <1>0, <3>1 DEF Lookup, At, Goto, CallEnds, Current, TypeOK
    <3>2. CASE ~Lookup(j)
      BY <1>3, <3>2 DEF Step, Learn, Count, SnapFormats, SnapResolved, SnapRate, At, Goto, CallEnds, TypeOK
    <3> QED
      BY <3>1, <3>2
  <2> QED
    BY <1>1, <2>1, <2>2, <2>3 DEF Single
<1> QED
  BY <1>2, <1>3

LEMMA RecordTypes ==
  ASSUME TypeOK, NEW r \in recorded
  PROVE  /\ r[1] \in Jobs /\ r[2] \in Nat \ {0} /\ r[3] \in DOMAIN entries /\ next[r[1]] \in Nat
         /\ r = <<r[1], r[2], r[3]>>
  BY EntrySeq DEF TypeOK

\* A call other than the one that counts records nothing and keeps the counts
\* of every entry.
LEMMA KeepsRecords ==
  ASSUME TypeOK, Filed, Recorded, NEW j \in Jobs, Step(j), ~Count(j)
  PROVE  Recorded'
<1>0. /\ Calling(j) /\ UNCHANGED <<plan, recorded>> /\ next[j] \in Nat \ {0}
      /\ entries \in Seq(Entry) /\ Len(entries) \in Nat /\ DOMAIN entries = 1 .. Len(entries)
  BY StepMoves, EntrySeq DEF Step, Lookup, Create, Learn, SnapFormats, SnapResolved, SnapRate, TypeOK
<1>1. \A i \in DOMAIN entries : i \in DOMAIN entries' /\ entries'[i].domain = entries[i].domain
  BY EntryTypes
<1>2. /\ \A k \in Jobs \ {j} : next'[k] = next[k]
      /\ next'[j] = next[j] \/ (next'[j] = next[j] + 1 /\ ~Writing(j))
  <2>1. ~Writing(j) \/ UNCHANGED next
    <3>1. CASE Lookup(j)
      BY <3>1 DEF Lookup
    <3>2. CASE SnapRate(j)
      BY <1>0, <3>2 DEF SnapRate, At, Filed
    <3>3. CASE Create(j) \/ Learn(j) \/ SnapFormats(j) \/ SnapResolved(j)
      BY <3>3 DEF Create, Learn, SnapFormats, SnapResolved
    <3> QED
      BY <3>1, <3>2, <3>3 DEF Step
  <2>2. (\A k \in Jobs \ {j} : next'[k] = next[k]) /\ next'[j] \in {next[j], next[j] + 1}
    BY StepMoves
  <2> QED
    BY <2>1, <2>2
<1>3. \A r \in recorded : CallOf(r)' = CallOf(r)
  BY <1>0 DEF CallOf
<1>4. ASSUME NEW i \in DOMAIN entries'
      PROVE  /\ entries'[i].resolvedValid = Cardinality(RecordsIn(i, "valid")')
             /\ entries'[i].totalReserved = Cardinality(RecordsIn(i, "reserved")')
  <2>1. RecordsIn(i, "valid")' = RecordsIn(i, "valid") /\ RecordsIn(i, "reserved")' = RecordsIn(i, "reserved")
    BY <1>0, <1>3 DEF RecordsIn
  <2>2. CASE i \in DOMAIN entries
    <3>1. /\ entries'[i].resolvedValid = entries[i].resolvedValid
          /\ entries'[i].totalReserved = entries[i].totalReserved
      <4>1. CASE Create(j)
        BY <1>0, <2>2, <4>1 DEF Create
      <4>2. CASE Learn(j)
        <5>1. held[j] \in DOMAIN entries /\ entries[held[j]] \in Entry
          BY <4>2, HeldEntry DEF Learn, At
        <5> QED
          BY <1>0, <2>2, <4>2, <5>1 DEF Learn, Entry
      <4>3. CASE UNCHANGED entries
        BY <4>3
      <4> QED
        BY <4>1, <4>2, <4>3 DEF Step, Lookup, SnapFormats, SnapResolved, SnapRate
    <3> QED
      BY <2>1, <2>2, <3>1 DEF Recorded, EveryRecordKept
  <2>3. CASE i \notin DOMAIN entries
    <3>1. Create(j)
      BY <2>3, EntryTypes
    <3>2. entries'[i].resolvedValid = 0 /\ entries'[i].totalReserved = 0
      BY <1>0, <2>3, <3>1 DEF Create, NewEntry
    <3>3. RecordsIn(i, "valid") = {} /\ RecordsIn(i, "reserved") = {}
      BY <2>3, RecordTypes DEF RecordsIn
    <3> QED
      BY <2>1, <3>2, <3>3, FS_EmptySet
  <2> QED
    BY <2>2, <2>3
<1>5. ASSUME NEW k \in Jobs, NEW m \in 1 .. next'[k] - 1, plan'[k][m].op # "snapshot"
      PROVE  \E i \in EntriesOf(plan[k][m].domain)' :
               {r \in recorded' : r[1] = k /\ r[2] = m} = {<<k, m, i>>}
  <2>1. m \in 1 .. next[k] - 1
    <3>1. next[k] \in Nat
      BY DEF TypeOK
    <3>2. ~Writing(j) => plan[j][next[j]].op = "snapshot"
      BY <1>0, CallTypes DEF Writing, Current
    <3> QED
      BY <1>0, <1>2, <1>5, <3>1, <3>2
  <2>2. PICK i \in EntriesOf(plan[k][m].domain) : {r \in recorded : r[1] = k /\ r[2] = m} = {<<k, m, i>>}
    BY <1>0, <1>5, <2>1 DEF Recorded, EveryRecordKept
  <2>3. i \in EntriesOf(plan[k][m].domain)'
    BY <1>0, <1>1, <2>2 DEF EntriesOf
  <2> QED
    BY <1>0, <2>2, <2>3
<1>6. ASSUME NEW r \in recorded'
      PROVE  /\ r[2] < next'[r[1]] /\ r[2] \in DOMAIN plan'[r[1]]
             /\ CallOf(r)'.op # "snapshot" /\ entries'[r[3]].domain = CallOf(r)'.domain
  BY <1>0, <1>1, <1>2, <1>3, RecordTypes DEF Recorded
<1> QED
  BY <1>0, <1>4, <1>5, <1>6 DEF Recorded, EveryRecordKept

\* There are finitely many calls that have begun.
LEMMA BegunFinite ==
  ASSUME TypeOK, NEW d, NEW op
  PROVE  /\ IsFiniteSet(Begun(d, op))
         /\ \A c : c \in Begun(d, op) <=>
              \E j \in Jobs : \E k \in DOMAIN plan[j] :
                /\ c = <<j, k>> /\ k <= next[j]
                /\ plan[j][k].op = op /\ plan[j][k].domain = d
<1> DEFINE Made(j) == {<<j, k>> : k \in {k \in DOMAIN plan[j] : /\ k <= next[j]
                                                              /\ plan[j][k].op = op
                                                              /\ plan[j][k].domain = d}}
           Each == {Made(j) : j \in Jobs}
<1>1. Begun(d, op) = UNION Each
  BY DEF Begun
<1>2. \A S \in Each : IsFiniteSet(S)
  <2> SUFFICES ASSUME NEW j \in Jobs PROVE IsFiniteSet(Made(j))
    OBVIOUS
  <2>1. DOMAIN plan[j] = 1 .. Len(plan[j]) /\ Len(plan[j]) \in Int
    BY CallTypes
  <2>2. IsFiniteSet({j} \X DOMAIN plan[j])
    <3>1. IsFiniteSet({j}) /\ IsFiniteSet(DOMAIN plan[j])
      <4>1. IsFiniteSet(1 .. Len(plan[j]))
        BY <2>1, FS_Interval
      <4> QED
        BY <2>1, <4>1, FS_Singleton
    <3> QED
      BY <3>1, FS_Product
  <2>3. Made(j) \in SUBSET ({j} \X DOMAIN plan[j])
    OBVIOUS
  <2> QED
    BY <2>2, <2>3, FS_Subset
<1>3. IsFiniteSet(Each)
  <2> DEFINE f == [j \in Jobs |-> Made(j)]
  <2>1. f \in Surjection(Jobs, Each)
    BY DEF Surjection
  <2> QED
    BY <2>1, JobsAssumption, FS_Surjection
<1>4. IsFiniteSet(UNION Each)
  BY <1>2, <1>3, FS_UNION
<1>5. \A c : c \in UNION Each <=>
        \E j \in Jobs : \E k \in DOMAIN plan[j] :
          c = <<j, k>> /\ k <= next[j] /\ plan[j][k].op = op /\ plan[j][k].domain = d
  OBVIOUS
<1> QED
  BY <1>1, <1>4, <1>5

LEMMA BegunStaysFinite == TypeOK' => \A d, op : IsFiniteSet(Begun(d, op)')
<1>1. TypeOK => \A d, op : IsFiniteSet(Begun(d, op))
  BY BegunFinite
<1>2. (TypeOK => \A d, op : IsFiniteSet(Begun(d, op)))'
  BY <1>1, PTL
<1> QED
  BY <1>2

\* Calls that have begun stay so.
LEMMA BegunGrows ==
  ASSUME TypeOK, TypeOK', NEW j \in Jobs, Step(j), NEW d, NEW op
  PROVE  /\ Begun(d, op) \subseteq Begun(d, op)'
         /\ Cardinality(Begun(d, op)) <= Cardinality(Begun(d, op)')
         /\ Cardinality(Begun(d, op)) \in Nat /\ Cardinality(Begun(d, op)') \in Nat
<1>0. UNCHANGED plan
  BY StepMoves
<1>1. \A k \in Jobs : next[k] \in Int /\ next'[k] \in Int /\ next[k] <= next'[k]
  <2>1. next \in [Jobs -> Nat \ {0}] /\ next' \in [Jobs -> Nat \ {0}]
    BY DEF TypeOK
  <2>2. (\A k \in Jobs \ {j} : next'[k] = next[k]) /\ next'[j] \in {next[j], next[j] + 1}
    BY StepMoves
  <2> QED
    BY <2>1, <2>2
<1>2. \A k \in Jobs, m \in Int : m <= next[k] => m <= next'[k]
  BY <1>1
<1>3. IsFiniteSet(Begun(d, op)) /\ IsFiniteSet(Begun(d, op)')
  BY BegunFinite, BegunStaysFinite
<1>4. Begun(d, op) \in SUBSET (Begun(d, op)')
  <2>1. \A k \in Jobs :
          {<<k, m>> : m \in {m \in DOMAIN plan[k] : /\ m <= next[k]
                                                   /\ plan[k][m].op = op
                                                   /\ plan[k][m].domain = d}}
            \subseteq
          {<<k, m>> : m \in {m \in DOMAIN plan[k] : /\ m <= next'[k]
                                                   /\ plan[k][m].op = op
                                                   /\ plan[k][m].domain = d}}
    BY <1>2, CallTypes
  <2> QED
    BY <1>0, <2>1 DEF Begun
<1> QED
  BY <1>3, <1>4, FS_Subset, FS_CardinalityType

\* The call counts once, in its entry.
LEMMA CountRecords ==
  ASSUME TypeOK, Filed, Recorded, NEW j \in Jobs, Count(j)
  PROVE  Recorded'
<1> DEFINE n == next[j]
           h == held[j]
           t == <<j, n, h>>
<1>0. /\ Calling(j) /\ UNCHANGED plan /\ next'[j] = n + 1 /\ n \in Nat \ {0}
      /\ \A k \in Jobs \ {j} : next'[k] = next[k]
      /\ entries \in Seq(Entry) /\ Len(entries) \in Nat /\ DOMAIN entries = 1 .. Len(entries)
      /\ n \in DOMAIN plan[j]
  BY CallTypes, EntrySeq DEF Count, At, CallEnds, TypeOK
<1>1. /\ h \in DOMAIN entries /\ entries[h] \in Entry /\ entries[h].domain = plan[j][n].domain
      /\ plan[j][n].op \in {"valid", "reserved"}
  BY HeldEntry DEF Count, At, Filed, Writing, Current
<1>2. recorded' = recorded \cup {t} /\ entries' = [entries EXCEPT ![h] = Counted(plan[j][n].op, @)]
  BY DEF Count, Current
<1>3. \A r \in recorded : r[1] = j => r[2] # n
  BY <1>0, RecordTypes DEF Recorded
<1>4. \A i \in DOMAIN entries : i \in DOMAIN entries' /\ entries'[i].domain = entries[i].domain
  BY <1>0, <1>1, <1>2 DEF Entry, Counted
<1>5. t \notin recorded /\ IsFiniteSet(recorded')
  BY <1>2, <1>3, FS_AddElement DEF Recorded
<1>6. \A r \in recorded' : CallOf(r)' = CallOf(r) /\ (r = t => CallOf(r) = plan[j][n])
  BY <1>0 DEF CallOf
<1>7. ASSUME NEW i \in DOMAIN entries', NEW op \in {"valid", "reserved"}
      PROVE  Cardinality(RecordsIn(i, op)')
               = Cardinality(RecordsIn(i, op)) + (IF i = h /\ op = plan[j][n].op THEN 1 ELSE 0)
             /\ Cardinality(RecordsIn(i, op)) \in Nat
  <2>1. RecordsIn(i, op)' = RecordsIn(i, op) \cup (IF i = h /\ op = plan[j][n].op THEN {t} ELSE {})
    BY <1>2, <1>6 DEF RecordsIn
  <2>2. RecordsIn(i, op) \in SUBSET recorded /\ t \notin RecordsIn(i, op)
    BY <1>5 DEF RecordsIn
  <2>3. IsFiniteSet(RecordsIn(i, op)) /\ Cardinality(RecordsIn(i, op)) \in Nat
    BY <2>2, FS_Subset, FS_CardinalityType DEF Recorded
  <2>4. Cardinality(RecordsIn(i, op) \cup {t}) = Cardinality(RecordsIn(i, op)) + 1
    BY <2>2, <2>3, FS_AddElement
  <2>5. CASE i = h /\ op = plan[j][n].op
    BY <2>1, <2>3, <2>4, <2>5
  <2>6. CASE ~(i = h /\ op = plan[j][n].op)
    <3>1. RecordsIn(i, op)' = RecordsIn(i, op)
      BY <2>1, <2>6
    <3> QED
      BY <2>3, <2>6, <3>1
  <2> QED
    BY <2>5, <2>6
<1>8. ASSUME NEW i \in DOMAIN entries'
      PROVE  /\ entries'[i].resolvedValid = Cardinality(RecordsIn(i, "valid")')
             /\ entries'[i].totalReserved = Cardinality(RecordsIn(i, "reserved")')
  <2>1. /\ entries[i].resolvedValid = Cardinality(RecordsIn(i, "valid"))
        /\ entries[i].totalReserved = Cardinality(RecordsIn(i, "reserved"))
        /\ i \in DOMAIN entries
    BY <1>2 DEF Recorded, EveryRecordKept
  <2>2. /\ entries'[i].resolvedValid = entries[i].resolvedValid
             + (IF i = h /\ "valid" = plan[j][n].op THEN 1 ELSE 0)
        /\ entries'[i].totalReserved = entries[i].totalReserved
             + (IF i = h /\ "reserved" = plan[j][n].op THEN 1 ELSE 0)
    <3>1. entries[i] \in Entry
      BY <1>0, <2>1
    <3>2. CASE i = h /\ plan[j][n].op = "valid"
      BY <1>1, <1>2, <2>1, <3>1, <3>2 DEF Counted, Entry
    <3>3. CASE i = h /\ plan[j][n].op = "reserved"
      BY <1>1, <1>2, <2>1, <3>1, <3>3 DEF Counted, Entry
    <3>4. CASE i # h
      BY <1>2, <2>1, <3>1, <3>4 DEF Entry
    <3> QED
      BY <1>1, <3>2, <3>3, <3>4
  <2> QED
    BY <1>7, <2>1, <2>2
<1>9. ASSUME NEW k \in Jobs, NEW m \in 1 .. next'[k] - 1, plan'[k][m].op # "snapshot"
      PROVE  \E i \in EntriesOf(plan[k][m].domain)' :
               {r \in recorded' : r[1] = k /\ r[2] = m} = {<<k, m, i>>}
  <2>1. CASE k = j /\ m = n
    <3>1. h \in EntriesOf(plan[k][m].domain)'
      BY <1>0, <1>1, <1>4, <2>1 DEF EntriesOf
    <3>2. {r \in recorded' : r[1] = k /\ r[2] = m} = {<<k, m, h>>}
      BY <1>2, <1>3, <2>1
    <3> QED
      BY <3>1, <3>2
  <2>2. CASE ~(k = j /\ m = n)
    <3>1. m \in 1 .. next[k] - 1
      <4>1. next[k] \in Nat
        BY DEF TypeOK
      <4> QED
        BY <1>0, <2>2, <4>1
    <3>2. PICK i \in EntriesOf(plan[k][m].domain) : {r \in recorded : r[1] = k /\ r[2] = m} = {<<k, m, i>>}
      BY <1>0, <1>9, <3>1 DEF Recorded, EveryRecordKept
    <3>3. i \in EntriesOf(plan[k][m].domain)'
      BY <1>0, <1>4, <3>2 DEF EntriesOf
    <3>4. {r \in recorded' : r[1] = k /\ r[2] = m} = {r \in recorded : r[1] = k /\ r[2] = m}
      BY <1>2, <2>2
    <3> QED
      BY <3>2, <3>3, <3>4
  <2> QED
    BY <2>1, <2>2
<1>10. ASSUME NEW r \in recorded'
       PROVE  /\ r[2] < next'[r[1]] /\ r[2] \in DOMAIN plan'[r[1]]
              /\ CallOf(r)'.op # "snapshot" /\ entries'[r[3]].domain = CallOf(r)'.domain
  <2>1. CASE r = t
    BY <1>0, <1>1, <1>4, <1>6, <2>1
  <2>2. CASE r \in recorded
    BY <1>0, <1>4, <1>6, <2>2, RecordTypes DEF Recorded
  <2> QED
    BY <1>2, <2>1, <2>2
<1> QED
  BY <1>0, <1>5, <1>8, <1>9, <1>10 DEF Recorded, EveryRecordKept

-----------------------------------------------------------------------------
(* What no race can do.                                                      *)

\* The calls whose record an entry holds have begun.
LEMMA RecordsBegun ==
  ASSUME TypeOK, Recorded, NEW i \in DOMAIN entries, NEW op
  PROVE  Cardinality(RecordsIn(i, op)) <= Cardinality(Begun(entries[i].domain, op))
<1> DEFINE C == Begun(entries[i].domain, op)
           f == [r \in RecordsIn(i, op) |-> <<r[1], r[2]>>]
<1>1. f \in Injection(RecordsIn(i, op), C)
  <2>1. ASSUME NEW r \in RecordsIn(i, op) PROVE f[r] \in C /\ r = <<r[1], r[2], i>>
    <3>1. /\ r \in recorded /\ r[3] = i /\ plan[r[1]][r[2]].op = op
      BY DEF RecordsIn, CallOf
    <3>2. /\ r[1] \in Jobs /\ r[2] \in DOMAIN plan[r[1]] /\ r[2] <= next[r[1]]
          /\ plan[r[1]][r[2]].domain = entries[i].domain /\ r = <<r[1], r[2], r[3]>>
      BY <3>1, RecordTypes DEF Recorded, CallOf
    <3>3. \E j \in Jobs : \E k \in DOMAIN plan[j] :
            /\ <<r[1], r[2]>> = <<j, k>> /\ k <= next[j]
            /\ plan[j][k].op = op /\ plan[j][k].domain = entries[i].domain
      BY <3>1, <3>2
    <3> QED
      BY <3>1, <3>2, <3>3, BegunFinite
  <2>2. ASSUME NEW r \in RecordsIn(i, op), NEW s \in RecordsIn(i, op), f[r] = f[s]
        PROVE  r = s
    BY <2>1, <2>2
  <2> QED
    BY <2>1, <2>2 DEF Injection, IsInjective
<1> QED
  BY <1>1, BegunFinite, FS_Injection

LEMMA StepGrounded ==
  ASSUME TypeOK, Filed, Recorded, Grounded, TypeOK', NEW j \in Jobs, Step(j)
  PROVE  Grounded'
<1> DEFINE Learnt(d) == {plan[c[1]][c[2]].format : c \in Begun(d, "valid")}
           LearntNext(d) == {plan'[c[1]][c[2]].format : c \in Begun(d, "valid")'}
<1>0. /\ Calling(j) /\ UNCHANGED plan /\ Current(j).domain \in Domains /\ next[j] \in DOMAIN plan[j]
      /\ entries \in Seq(Entry) /\ Len(entries) \in Nat /\ DOMAIN entries = 1 .. Len(entries)
  BY StepMoves, CallTypes, EntrySeq
<1>1. \A i \in DOMAIN entries : i \in DOMAIN entries' /\ entries'[i].domain = entries[i].domain
  BY EntryTypes
<1>2. ASSUME NEW d
      PROVE  /\ Learnt(d) \subseteq LearntNext(d)
             /\ Cardinality(Begun(d, "valid")) <= Cardinality(Begun(d, "valid")')
             /\ Cardinality(Begun(d, "valid")) \in Nat /\ Cardinality(Begun(d, "valid")') \in Nat
  BY <1>0, BegunGrows
<1>3. ASSUME NEW i \in DOMAIN entries', NEW d, d = entries'[i].domain
      PROVE  entries'[i].formats \subseteq LearntNext(d)
  <2>1. CASE Learn(j) /\ i = held[j] /\ Current(j).op = "valid"
    <3>1. /\ i \in DOMAIN entries /\ entries[i] \in Entry /\ entries[i].domain = Current(j).domain
      BY <1>0, <2>1, HeldEntry DEF Learn, At
    <3>2. entries'[i].formats = entries[i].formats \cup {Current(j).format}
      BY <2>1, <3>1 DEF Learn, Entry
    <3>3. Current(j).format \in Learnt(entries[i].domain)
      <4>1. <<j, next[j]>> \in Begun(entries[i].domain, "valid")
        <5>1. next[j] <= next[j]
          BY DEF TypeOK
        <5>2. \E a \in Jobs : \E k \in DOMAIN plan[a] :
                /\ <<j, next[j]>> = <<a, k>> /\ k <= next[a]
                /\ plan[a][k].op = "valid" /\ plan[a][k].domain = entries[i].domain
          BY <1>0, <2>1, <3>1, <5>1 DEF Current
        <5> QED
          BY <5>2, BegunFinite
      <4> QED
        BY <4>1 DEF Current
    <3>4. entries[i].formats \subseteq Learnt(entries[i].domain)
      BY <3>1 DEF Grounded
    <3> HIDE DEF Learnt, LearntNext
    <3> QED
      BY <1>1, <1>2, <1>3, <3>1, <3>2, <3>3, <3>4
  <2>2. CASE Create(j) /\ i = Len(entries) + 1
    <3>1. entries'[i].formats = {}
      BY <1>0, <2>2 DEF Create, NewEntry
    <3> HIDE DEF LearntNext
    <3> QED
      BY <3>1
  <2>3. CASE i \in DOMAIN entries /\ entries'[i].formats = entries[i].formats
    <3>1. entries[i].formats \subseteq Learnt(entries[i].domain)
      BY <2>3 DEF Grounded
    <3> HIDE DEF Learnt, LearntNext
    <3> QED
      BY <1>1, <1>2, <1>3, <2>3, <3>1
  <2>4. \/ Learn(j) /\ i = held[j] /\ Current(j).op = "valid"
        \/ Create(j) /\ i = Len(entries) + 1
        \/ i \in DOMAIN entries /\ entries'[i].formats = entries[i].formats
    <3>1. CASE Create(j)
      BY <1>0, <3>1 DEF Create
    <3>2. CASE Learn(j)
      BY <1>0, <3>2 DEF Learn
    <3>3. CASE Count(j)
      <4>1. held[j] \in DOMAIN entries /\ entries[held[j]] \in Entry
        BY <1>0, <3>3, HeldEntry DEF Count, At
      <4> QED
        BY <1>0, <3>3, <4>1 DEF Count, Counted, Entry
    <3>4. CASE UNCHANGED entries
      BY <3>4
    <3> QED
      BY <3>1, <3>2, <3>3, <3>4 DEF Step, Lookup, SnapFormats, SnapResolved, SnapRate
  <2> QED
    BY <2>1, <2>2, <2>3, <2>4
<1>4. ASSUME NEW k \in Jobs, NEW d \in Domains
      PROVE  /\ snap'[k][d].formats \subseteq LearntNext(d)
             /\ snap'[k][d].resolved <= Cardinality(Begun(d, "valid")')
  <2>0. /\ snap[k][d].formats \subseteq Learnt(d) /\ snap[k][d].resolved <= Cardinality(Begun(d, "valid"))
        /\ snap[k][d].resolved \in Nat /\ snap[k][d] \in PatternSnapshot
    <3>1. snap[k][d] \in PatternSnapshot
      BY DEF TypeOK
    <3>2. snap[k][d].resolved \in Nat
      BY <3>1, Zenon DEF PatternSnapshot
    <3> QED
      BY <3>1, <3>2 DEF Grounded, NothingInvented
  <2>s. snap \in [Jobs -> [Domains -> PatternSnapshot]] /\ Current(j).domain \in Domains
    BY <1>0 DEF TypeOK
  <2>h. pc[j] \in {"formats", "resolved"} =>
          /\ held[j] \in DOMAIN entries /\ entries[held[j]] \in Entry
          /\ entries[held[j]].domain = Current(j).domain
    BY <1>0, HeldEntry
  <2>1. CASE SnapFormats(j) /\ k = j /\ d = Current(j).domain
    <3>1. snap'[k][d].formats = entries[held[j]].formats /\ snap'[k][d].resolved = snap[k][d].resolved
      BY <2>0, <2>1, <2>s DEF SnapFormats, PatternSnapshot
    <3>2. entries[held[j]].formats \subseteq Learnt(d)
      BY <2>1, <2>h DEF SnapFormats, At, Grounded
    <3> HIDE DEF Learnt, LearntNext
    <3> QED
      BY <1>2, <2>0, <3>1, <3>2
  <2>2. CASE SnapResolved(j) /\ k = j /\ d = Current(j).domain
    <3>1. /\ snap'[k][d].formats = snap[k][d].formats
          /\ snap'[k][d].resolved = entries[held[j]].resolvedValid
      BY <2>0, <2>2, <2>s DEF SnapResolved, PatternSnapshot
    <3>2. /\ entries[held[j]].resolvedValid <= Cardinality(Begun(d, "valid"))
          /\ entries[held[j]].resolvedValid \in Nat
      BY <2>2, <2>h, RecordsBegun DEF SnapResolved, At, Entry, Recorded, EveryRecordKept
    <3> HIDE DEF Learnt, LearntNext
    <3> QED
      BY <1>2, <2>0, <3>1, <3>2
  <2>3. CASE snap'[k][d].formats = snap[k][d].formats /\ snap'[k][d].resolved = snap[k][d].resolved
    <3> HIDE DEF Learnt, LearntNext
    <3> QED
      BY <1>2, <2>0, <2>3
  <2>4. \/ SnapFormats(j) /\ k = j /\ d = Current(j).domain
        \/ SnapResolved(j) /\ k = j /\ d = Current(j).domain
        \/ snap'[k][d].formats = snap[k][d].formats /\ snap'[k][d].resolved = snap[k][d].resolved
    <3>1. CASE SnapFormats(j)
      BY <2>s, <3>1 DEF SnapFormats
    <3>2. CASE SnapResolved(j)
      BY <2>s, <3>2 DEF SnapResolved
    <3>3. CASE SnapRate(j)
      BY <2>0, <2>s, <3>3 DEF SnapRate, PatternSnapshot
    <3>4. CASE UNCHANGED snap
      BY <3>4
    <3> QED
      BY <3>1, <3>2, <3>3, <3>4 DEF Step, Lookup, Create, Learn, Count
  <2> QED
    BY <2>1, <2>2, <2>3, <2>4
<1>5. ASSUME NEW i \in DOMAIN entries'
      PROVE  entries'[i].formats
               \subseteq {plan'[c[1]][c[2]].format : c \in Begun(entries[i].domain, "valid")'}
  BY <1>3 DEF Begun
<1> QED
  BY <1>4, <1>5 DEF Grounded, NothingInvented

-----------------------------------------------------------------------------
(* The theorems.                                                             *)

LEMMA UnchangedKeeps ==
  ASSUME Single, Recorded, Grounded, UNCHANGED vars
  PROVE  Single' /\ Recorded' /\ Grounded'
<1>1. Single'
  BY DEF vars, Single, EntriesOf, At, Calling, Current
<1>2. Recorded'
  <2>1. /\ UNCHANGED <<plan, next, entries, recorded>> /\ \A d : EntriesOf(d)' = EntriesOf(d)
        /\ \A i, op : RecordsIn(i, op)' = RecordsIn(i, op)
        /\ \A r : CallOf(r)' = CallOf(r)
    BY DEF vars, EntriesOf, RecordsIn, CallOf
  <2>2. EveryRecordKept'
    BY <2>1 DEF Recorded, EveryRecordKept
  <2> QED
    BY <2>1, <2>2 DEF Recorded
<1>3. Grounded'
  <2>1. UNCHANGED <<plan, entries, snap>> /\ \A d, op : Begun(d, op)' = Begun(d, op)
    BY DEF vars, Begun
  <2>2. \A j, d : NothingInvented(j, d)' <=> NothingInvented(j, d)
    BY <2>1 DEF NothingInvented
  <2> QED
    BY <2>1, <2>2 DEF Grounded
<1> QED
  BY <1>1, <1>2, <1>3

\* The four parts of the invariant hold together.
THEOREM StoreInvariant == Spec => [](Single /\ Recorded /\ Grounded)
<1>1. Init /\ TypeOK => Single /\ Recorded /\ Grounded
  <2> SUFFICES ASSUME Init, TypeOK PROVE Single /\ Recorded /\ Grounded
    OBVIOUS
  <2>1. entries = <<>> /\ recorded = {} /\ DOMAIN entries = {} /\ next = [j \in Jobs |-> 1]
    BY DEF Init
  <2>2. Single
    BY <2>1 DEF Init, Single, EntriesOf, At
  <2>3. Recorded
    BY <2>1, FS_EmptySet DEF Recorded, EveryRecordKept
  <2>4. ASSUME NEW d \in Domains PROVE Cardinality(Begun(d, "valid")) \in Nat
    BY BegunFinite, FS_CardinalityType
  <2>5. Grounded
    BY <2>1, <2>4 DEF Init, Grounded, NothingInvented, NoPattern
  <2> QED
    BY <2>2, <2>3, <2>5
<1>2. TypeOK /\ Filed /\ Single /\ Recorded /\ Grounded /\ TypeOK' /\ [Next]_vars
        => Single' /\ Recorded' /\ Grounded'
  <2> SUFFICES ASSUME TypeOK, Filed, Single, Recorded, Grounded, TypeOK', [Next]_vars
               PROVE  Single' /\ Recorded' /\ Grounded'
    OBVIOUS
  <2>1. CASE UNCHANGED vars
    BY <2>1, UnchangedKeeps
  <2>2. ASSUME NEW j \in Jobs, Step(j) PROVE Single' /\ Recorded' /\ Grounded'
    BY <2>2, StepSingles, KeepsRecords, CountRecords, StepGrounded
  <2> QED
    BY <2>1, <2>2 DEF Next
<1> QED
  BY <1>1, <1>2, TypeInvariant, PTL DEF Spec

\* No thread ever undoes another's record: whatever the interleaving, each
\* completed record_valid or record_reserved is counted in exactly one entry
\* of its domain, and an entry counts nothing else (patterns.py:70-84).
THEOREM RecordsAreKept == Spec => []EveryRecordKept
<1>1. Recorded => EveryRecordKept
  BY DEF Recorded
<1> QED
  BY <1>1, StoreInvariant, PTL

\* A record is lost from the store only by two threads that both found the
\* domain missing in _get_or_create (patterns.py:45-50): any other domain has
\* at most one entry, and its two numbers count every record made.
THEOREM OnlyCreationLoses == Spec => []LostOnlyInCreation
<1>1. TypeOK /\ Filed /\ Single /\ Recorded => LostOnlyInCreation
  <2> SUFFICES ASSUME TypeOK, Filed, Single, Recorded, NEW d \in Domains \ raced
               PROVE  /\ Cardinality(EntriesOf(d)) <= 1
                      /\ patterns[d] # 0 =>
                           /\ entries[patterns[d]].resolvedValid = Cardinality(Records(d, "valid"))
                           /\ entries[patterns[d]].totalReserved = Cardinality(Records(d, "reserved"))
    BY DEF LostOnlyInCreation
  <2>1. EntriesOf(d) \subseteq {patterns[d]}
    BY DEF Single
  <2>2. Cardinality(EntriesOf(d)) <= 1
    <3>1. EntriesOf(d) = {} \/ EntriesOf(d) = {patterns[d]}
      BY <2>1
    <3> QED
      BY <3>1, FS_EmptySet, FS_Singleton
  <2>3. ASSUME patterns[d] # 0, NEW op
        PROVE  Records(d, op) = RecordsIn(patterns[d], op)
    <3>1. ASSUME NEW r \in recorded PROVE CallOf(r).domain = d <=> r[3] = patterns[d]
      <4>1. r[3] \in DOMAIN entries /\ entries[r[3]].domain = CallOf(r).domain
        BY RecordTypes DEF Recorded
      <4>2. entries[patterns[d]].domain = d
        BY <2>3 DEF Filed
      <4> QED
        BY <2>1, <4>1, <4>2 DEF EntriesOf
    <3> QED
      BY <3>1 DEF Records, RecordsIn
  <2>4. patterns[d] # 0 => patterns[d] \in DOMAIN entries
    BY EntrySeq DEF TypeOK
  <2> QED
    BY <2>2, <2>3, <2>4 DEF Recorded, EveryRecordKept
<1> QED
  BY <1>1, TypeInvariant, StoreInvariant, PTL

-----------------------------------------------------------------------------
(* What a snapshot cannot miss.                                              *)

\* An entry never forgets a format.
LEMMA FormatsGrow ==
  ASSUME TypeOK, Filed, NEW j \in Jobs, Step(j)
  PROVE  /\ \A i \in DOMAIN entries :
              i \in DOMAIN entries' /\ entries[i].formats \subseteq entries'[i].formats
         /\ Learn(j) /\ Current(j).op = "valid" => Current(j).format \in entries'[held[j]].formats
<1>0. /\ Calling(j) /\ entries \in Seq(Entry) /\ Len(entries) \in Nat /\ DOMAIN entries = 1 .. Len(entries)
  BY StepMoves, EntrySeq
<1>1. CASE Create(j)
  BY <1>0, <1>1 DEF Create, Learn, At
<1>2. CASE Learn(j)
  <2>1. held[j] \in DOMAIN entries /\ entries[held[j]] \in Entry
    BY <1>0, <1>2, HeldEntry DEF Learn, At
  <2> QED
    BY <1>0, <1>2, <2>1 DEF Learn, Entry
<1>3. CASE Count(j)
  <2>1. held[j] \in DOMAIN entries /\ entries[held[j]] \in Entry
    BY <1>0, <1>3, HeldEntry DEF Count, At
  <2> QED
    BY <1>0, <1>3, <2>1 DEF Count, Counted, Entry, Learn, At
<1>4. CASE UNCHANGED entries /\ ~Learn(j)
  BY <1>4
<1>5. (UNCHANGED entries /\ ~Learn(j)) \/ Create(j) \/ Learn(j) \/ Count(j)
  BY DEF Step, Lookup, SnapFormats, SnapResolved, SnapRate
<1> QED
  BY <1>1, <1>2, <1>3, <1>4, <1>5

LEMMA StepLearned ==
  ASSUME TypeOK, Filed, Recorded, Learned, NEW j \in Jobs, Step(j)
  PROVE  Learned'
<1>0. /\ Calling(j) /\ UNCHANGED plan /\ \A r : CallOf(r)' = CallOf(r)
  BY StepMoves DEF CallOf
<1>1. ASSUME NEW r \in recorded', CallOf(r)'.op = "valid"
      PROVE  CallOf(r)'.format \in entries'[r[3]].formats
  <2>1. CASE r \in recorded
    <3>1. r[3] \in DOMAIN entries /\ CallOf(r).format \in entries[r[3]].formats
      BY <1>0, <1>1, <2>1, RecordTypes DEF Learned
    <3> QED
      BY <1>0, <3>1, FormatsGrow
  <2>2. CASE Count(j) /\ r = <<j, next[j], held[j]>>
    <3>1. held[j] \in DOMAIN entries /\ At(j, "count")
      BY <1>0, <2>2, HeldEntry DEF Count, At
    <3>2. CallOf(r) = Current(j) /\ r[3] = held[j]
      BY <2>2 DEF CallOf, Current
    <3>3. CallOf(r).format \in entries[r[3]].formats
      BY <1>0, <1>1, <3>1, <3>2 DEF Learned
    <3> QED
      BY <1>0, <3>1, <3>2, <3>3, FormatsGrow
  <2>3. r \in recorded \/ (Count(j) /\ r = <<j, next[j], held[j]>>)
    BY DEF Step, Lookup, Create, Learn, Count, SnapFormats, SnapResolved, SnapRate
  <2> QED
    BY <2>1, <2>2, <2>3
<1>2. ASSUME NEW k \in Jobs \ {j}, At(k, "count")', Current(k)'.op = "valid"
      PROVE  Current(k)'.format \in entries'[held'[k]].formats
  <2>1. At(k, "count") /\ Current(k)' = Current(k) /\ held'[k] = held[k]
    BY <1>0, <1>2, StepMoves DEF At, Calling, Current
  <2>2. held[k] \in DOMAIN entries /\ Current(k).format \in entries[held[k]].formats
    BY <1>2, <2>1, HeldEntry DEF Learned, At
  <2> QED
    BY <2>1, <2>2, FormatsGrow
<1>3. ASSUME At(j, "count")', Current(j)'.op = "valid"
      PROVE  Current(j)'.format \in entries'[held'[j]].formats
  <2>1. Learn(j) /\ UNCHANGED <<next, held>>
    <3>1. pc'[j] = "count"
      BY <1>3 DEF At
    <3>2. pc \in [Jobs -> Place]
      BY DEF TypeOK
    <3>3. Learn(j)
      BY <3>1, <3>2 DEF Step, Lookup, Create, Count, SnapFormats, SnapResolved, SnapRate, Goto, CallEnds
    <3> QED
      BY <3>3 DEF Learn
  <2>2. Current(j)' = Current(j)
    BY <1>0, <2>1 DEF Current
  <2> QED
    BY <1>3, <2>1, <2>2, FormatsGrow
<1> QED
  BY <1>1, <1>2, <1>3 DEF Learned

\* Without a race every record of the domain is in the one entry, so what a
\* snapshot must not miss is there.
LEMMA KnownIsThere ==
  ASSUME TypeOK, Filed, Single, Recorded, Learned, NEW j \in Jobs, NEW d \in Domains,
         d \notin raced, \A r \in since[j][d] : CallOf(r).domain = d, NEW op
  PROVE  /\ since[j][d] \subseteq recorded
         /\ Known(j, d, op) \subseteq RecordsIn(patterns[d], op)
         /\ Cardinality(Known(j, d, op)) <= Cardinality(RecordsIn(patterns[d], op))
         /\ Cardinality(Known(j, d, op)) \in Nat /\ Cardinality(RecordsIn(patterns[d], op)) \in Nat
         /\ \A r \in Known(j, d, "valid") : CallOf(r).format \in entries[patterns[d]].formats
<1>1. since[j][d] \subseteq recorded
  BY DEF TypeOK
<1>2. \A r \in since[j][d] : r \in recorded /\ r[3] = patterns[d]
  <2> SUFFICES ASSUME NEW r \in since[j][d] PROVE r[3] = patterns[d]
    BY <1>1
  <2>1. r[3] \in DOMAIN entries /\ entries[r[3]].domain = d
    BY <1>1, RecordTypes DEF Recorded
  <2> QED
    BY <2>1 DEF Single, EntriesOf
<1>3. Known(j, d, op) \in SUBSET RecordsIn(patterns[d], op)
  BY <1>2 DEF Known, RecordsIn
<1>4. IsFiniteSet(RecordsIn(patterns[d], op))
  <2>1. RecordsIn(patterns[d], op) \in SUBSET recorded
    BY DEF RecordsIn
  <2> QED
    BY <2>1, FS_Subset DEF Recorded
<1>5. \A r \in Known(j, d, "valid") : CallOf(r).format \in entries[patterns[d]].formats
  BY <1>2 DEF Known, Learned
<1> QED
  BY <1>1, <1>3, <1>4, <1>5, FS_Subset, FS_CardinalityType

\* The one entry in numbers: they lie between what a snapshot must not miss and
\* the calls that have begun.
LEMMA EntryInWindow ==
  ASSUME TypeOK, Filed, Single, Recorded, Learned, NEW j \in Jobs, NEW d \in Domains,
         d \notin raced, patterns[d] # 0, \A r \in since[j][d] : CallOf(r).domain = d
  PROVE  LET e == entries[patterns[d]]
         IN  /\ e \in Entry
             /\ {CallOf(r).format : r \in Known(j, d, "valid")} \subseteq e.formats
             /\ Cardinality(Known(j, d, "valid")) <= e.resolvedValid
             /\ e.resolvedValid <= Cardinality(Begun(d, "valid"))
             /\ Cardinality(Known(j, d, "reserved")) <= e.totalReserved
             /\ e.totalReserved <= Cardinality(Begun(d, "reserved"))
<1>1. patterns[d] \in DOMAIN entries /\ entries[patterns[d]] \in Entry /\ entries[patterns[d]].domain = d
  BY EntrySeq DEF TypeOK, Filed
<1>2. /\ entries[patterns[d]].resolvedValid = Cardinality(RecordsIn(patterns[d], "valid"))
      /\ entries[patterns[d]].totalReserved = Cardinality(RecordsIn(patterns[d], "reserved"))
  BY <1>1 DEF Recorded, EveryRecordKept
<1>3. /\ Cardinality(RecordsIn(patterns[d], "valid")) <= Cardinality(Begun(d, "valid"))
      /\ Cardinality(RecordsIn(patterns[d], "reserved")) <= Cardinality(Begun(d, "reserved"))
  BY <1>1, RecordsBegun
<1> QED
  BY <1>1, <1>2, <1>3, KnownIsThere

\* Nothing that bears on the job's snapshot of the domain changes but the
\* number of calls that have begun.
LEMMA WindowStays ==
  ASSUME TypeOK, TypeOK', NEW j \in Jobs, NEW d \in Domains, Window(j, d), UNCHANGED plan,
         raced \subseteq raced', since'[j][d] = since[j][d], snap'[j][d] = snap[j][d],
         Reading(j, d)' <=> Reading(j, d), Reading(j, d) => pc'[j] = pc[j],
         \A op : /\ Cardinality(Begun(d, op)) <= Cardinality(Begun(d, op)')
                 /\ Cardinality(Begun(d, op)) \in Nat /\ Cardinality(Begun(d, op)') \in Nat,
         \A op : Cardinality(Known(j, d, op)) \in Nat
  PROVE  Window(j, d)'
<1>1. /\ \A r : CallOf(r)' = CallOf(r)
      /\ \A op : Known(j, d, op)' = Known(j, d, op)
  BY DEF CallOf, Known
<1>2. ASSUME NothingMissed(j, d) PROVE NothingMissed(j, d)'
  <2> DEFINE known(op) == Cardinality(Known(j, d, op))
             begun(op) == Cardinality(Begun(d, op))
  <2>1. /\ known("valid") \in Nat /\ known("reserved") \in Nat
        /\ begun("valid") \in Nat /\ begun("valid")' \in Nat /\ begun("valid") <= begun("valid")'
        /\ begun("reserved") \in Nat /\ begun("reserved")' \in Nat
        /\ begun("reserved") <= begun("reserved")'
    OBVIOUS
  <2>2. {CallOf(r).format : r \in Known(j, d, "valid")}' = {CallOf(r).format : r \in Known(j, d, "valid")}
    BY <1>1
  <2>3. /\ {CallOf(r).format : r \in Known(j, d, "valid")} \subseteq snap[j][d].formats
        /\ known("valid") <= snap[j][d].resolved
        /\ snap[j][d].highRate => 10 * begun("valid") > 8 * known("reserved")
        /\ ~snap[j][d].highRate => known("reserved") = 0 \/ 10 * known("valid") <= 8 * begun("reserved")
    BY <1>2 DEF NothingMissed
  <2>4. known("valid")' = known("valid") /\ known("reserved")' = known("reserved")
    BY <1>1
  <2>5. /\ {CallOf(r).format : r \in Known(j, d, "valid")}' \subseteq snap'[j][d].formats
        /\ known("valid")' <= snap'[j][d].resolved
    BY <2>2, <2>3, <2>4
  <2> HIDE DEF known, begun
  <2>6. /\ snap'[j][d].highRate => 10 * begun("valid")' > 8 * known("reserved")'
        /\ ~snap'[j][d].highRate =>
             known("reserved")' = 0 \/ 10 * known("valid")' <= 8 * begun("reserved")'
    BY <2>1, <2>3, <2>4
  <2> QED
    BY <2>5, <2>6 DEF NothingMissed, known, begun
<1>3. HasFormats(j, d)' <=> HasFormats(j, d)
  BY <1>1 DEF HasFormats
<1>4. HasCount(j, d)' <=> HasCount(j, d)
  BY <1>1 DEF HasCount
<1> QED
  BY <1>1, <1>2, <1>3, <1>4 DEF Window

\* One step of a snapshot of the domain.
LEMMA SnapshotStep ==
  ASSUME TypeOK, Filed, Single, Recorded, Learned, TypeOK',
         NEW j \in Jobs, NEW d \in Domains, Step(j), Window(j, d),
         Calling(j), ~Writing(j), Current(j).domain = d
  PROVE  Window(j, d)'
<1> DEFINE known(op) == Cardinality(Known(j, d, op))
           begun(op) == Cardinality(Begun(d, op))
           e == entries[patterns[d]]
<1>0. /\ UNCHANGED plan /\ \A r : CallOf(r)' = CallOf(r)
      /\ snap \in [Jobs -> [Domains -> PatternSnapshot]] /\ snap[j][d] \in PatternSnapshot
      /\ since \in [Jobs -> [Domains -> SUBSET recorded]] /\ pc \in [Jobs -> Place]
  BY StepMoves DEF CallOf, TypeOK
<1>1. pc'[j] = "lookup" => ~Reading(j, d)'
  BY DEF Reading
<1>2. pc[j] \in {"formats", "resolved", "rate"} => Reading(j, d)
  BY DEF Reading
<1>3. ~Create(j) /\ ~Learn(j) /\ ~Count(j)
  BY DEF Filed, Create, Learn, Count, At
<1>4. CASE Lookup(j)
  <2>1. /\ since' = [since EXCEPT ![j][d] = RecordsOf(d)] /\ UNCHANGED <<snap, raced, patterns>>
        /\ pc[j] = "lookup"
        /\ IF patterns[d] = 0 THEN pc'[j] = "lookup" ELSE pc'[j] = "formats"
    BY <1>0, <1>4 DEF Lookup, At, Goto, CallEnds
  <2>2. since'[j][d] = RecordsOf(d) /\ \A r \in since'[j][d] : CallOf(r)'.domain = d
    BY <1>0, <2>1 DEF RecordsOf
  <2>3. CASE patterns[d] # 0
    <3>1. pc'[j] = "formats" /\ UNCHANGED next
      BY <1>4, <2>1, <2>3 DEF Lookup
    <3>2. Reading(j, d)'
      BY <1>0, <3>1 DEF Reading, Calling, Current
    <3> QED
      BY <2>2, <3>1, <3>2 DEF Window
  <2>4. CASE patterns[d] = 0
    <3>1. RecordsOf(d) = {}
      <4>1. \A r \in recorded : CallOf(r).domain = d => r[3] \in EntriesOf(d)
        BY RecordTypes DEF Recorded, EntriesOf
      <4> QED
        BY <2>4, <4>1 DEF Single, RecordsOf
    <3>2. \A op : Known(j, d, op)' = {}
      BY <2>2, <3>1 DEF Known
    <3>3. known("valid")' = 0 /\ known("reserved")' = 0
      BY <3>2, FS_EmptySet
    <3>4. ASSUME d \notin raced PROVE NothingMissed(j, d)'
      <4>1. ~Reading(j, d) /\ NothingMissed(j, d)
        BY <2>1, <3>4 DEF Reading, Window
      <4>2. snap[j][d].highRate => 10 * begun("valid") > 8 * known("reserved")
        BY <4>1 DEF NothingMissed
      <4>3. begun("valid") \in Nat /\ begun("valid")' \in Nat /\ begun("valid") <= begun("valid")'
        BY BegunGrows
      <4>4. known("reserved") \in Nat /\ snap[j][d].resolved \in Nat
        BY <1>0, <3>4, KnownIsThere DEF PatternSnapshot, Window
      <4> HIDE DEF known, begun
      <4>5. snap'[j][d].highRate => 10 * begun("valid")' > 8 * known("reserved")'
        BY <2>1, <3>3, <4>2, <4>3, <4>4
      <4>6. snap'[j][d].resolved >= known("valid")'
        BY <2>1, <3>3, <4>4
      <4>7. {CallOf(r).format : r \in Known(j, d, "valid")}' \subseteq snap'[j][d].formats
        BY <3>2
      <4> QED
        BY <3>3, <4>5, <4>6, <4>7 DEF NothingMissed, known, begun
    <3> QED
      BY <1>1, <2>1, <2>2, <2>4, <3>4 DEF Window
  <2> QED
    BY <2>3, <2>4
<1>5. ASSUME SnapFormats(j) \/ SnapResolved(j) \/ SnapRate(j)
      PROVE  Window(j, d)'
  <2>1. /\ UNCHANGED <<since, raced, patterns, entries, recorded>> /\ Reading(j, d)
        /\ \A op : Known(j, d, op)' = Known(j, d, op)
        /\ \A r \in since'[j][d] : CallOf(r)'.domain = d
    BY <1>0, <1>2, <1>5 DEF SnapFormats, SnapResolved, SnapRate, At, Known, Window
  <2>2. SUFFICES ASSUME d \notin raced
                 PROVE  /\ Reading(j, d)' /\ pc'[j] \in {"resolved", "rate"} => HasFormats(j, d)'
                        /\ Reading(j, d)' /\ pc'[j] = "rate" => HasCount(j, d)'
                        /\ ~Reading(j, d)' => NothingMissed(j, d)'
    BY <2>1 DEF Window
  <2>3. held[j] = patterns[d] /\ patterns[d] # 0
    <3>1. held[j] \in DOMAIN entries /\ entries[held[j]].domain = d
      BY <1>5, HeldEntry DEF SnapFormats, SnapResolved, SnapRate, At
    <3>2. held[j] \in EntriesOf(d)
      BY <3>1 DEF EntriesOf
    <3> QED
      BY <2>2, <3>2 DEF Single
  <2>4. /\ e \in Entry
        /\ {CallOf(r).format : r \in Known(j, d, "valid")} \subseteq e.formats
        /\ known("valid") <= e.resolvedValid /\ e.resolvedValid <= begun("valid")
        /\ known("reserved") <= e.totalReserved /\ e.totalReserved <= begun("reserved")
    BY <2>1, <2>2, <2>3, EntryInWindow DEF Window
  <2>5. CASE SnapFormats(j)
    <3>1. snap'[j][d].formats = e.formats /\ pc'[j] = "resolved"
      BY <1>0, <2>3, <2>5 DEF SnapFormats, At, Goto, PatternSnapshot
    <3>2. UNCHANGED next
      BY <2>5 DEF SnapFormats
    <3>3. Reading(j, d)'
      BY <1>0, <3>1, <3>2 DEF Reading, Calling, Current
    <3>4. HasFormats(j, d)'
      BY <1>0, <2>1, <2>4, <3>1 DEF HasFormats
    <3> QED
      BY <3>1, <3>3, <3>4
  <2>6. CASE SnapResolved(j)
    <3>1. /\ snap'[j][d].resolved = e.resolvedValid /\ snap'[j][d].formats = snap[j][d].formats
          /\ pc'[j] = "rate" /\ pc[j] = "resolved" /\ UNCHANGED next
      BY <1>0, <2>3, <2>6 DEF SnapResolved, At, Goto, PatternSnapshot
    <3>2. Reading(j, d)'
      BY <1>0, <3>1 DEF Reading, Calling, Current
    <3>3. HasFormats(j, d)
      BY <2>1, <2>2, <3>1 DEF Window
    <3>4. HasFormats(j, d)'
      BY <1>0, <2>1, <3>1, <3>3 DEF HasFormats
    <3>5. HasCount(j, d)'
      BY <2>1, <2>4, <3>1 DEF HasCount
    <3> QED
      BY <3>2, <3>4, <3>5
  <2>7. CASE SnapRate(j)
    <3>1. /\ snap'[j][d].highRate = HighRate(e) /\ snap'[j][d].formats = snap[j][d].formats
          /\ snap'[j][d].resolved = snap[j][d].resolved
          /\ pc'[j] = "lookup" /\ pc[j] = "rate"
      BY <1>0, <2>7 DEF SnapRate, At, Goto, CallEnds, PatternSnapshot
    <3>2. HasFormats(j, d) /\ HasCount(j, d)
      BY <2>1, <2>2, <3>1 DEF Window
    <3>3. {CallOf(r).format : r \in Known(j, d, "valid")}' \subseteq snap'[j][d].formats
      BY <1>0, <2>1, <3>1, <3>2 DEF HasFormats
    <3>4. known("valid")' = known("valid") /\ known("reserved")' = known("reserved")
      BY <2>1
    <3>5. known("valid")' <= snap'[j][d].resolved
      BY <3>1, <3>2, <3>4 DEF HasCount
    <3>6. /\ begun("valid") \in Nat /\ begun("valid")' \in Nat /\ begun("valid") <= begun("valid")'
          /\ begun("reserved") \in Nat /\ begun("reserved")' \in Nat
          /\ begun("reserved") <= begun("reserved")'
      BY BegunGrows
    <3>7. known("valid") \in Nat /\ known("reserved") \in Nat
      BY <2>1, <2>2, KnownIsThere DEF Window
    <3>8. e.totalReserved \in Nat /\ e.resolvedValid \in Nat
      BY <2>4 DEF Entry
    <3> HIDE DEF known, begun, e
    <3>a. snap'[j][d].highRate <=> e.totalReserved # 0 /\ 10 * e.resolvedValid > 8 * e.totalReserved
      BY <3>1 DEF HighRate
    <3>9. /\ snap'[j][d].highRate => 10 * begun("valid")' > 8 * known("reserved")'
          /\ ~snap'[j][d].highRate =>
               known("reserved")' = 0 \/ 10 * known("valid")' <= 8 * begun("reserved")'
      <4>1. known("valid")' <= e.resolvedValid /\ e.resolvedValid <= begun("valid")'
        BY <2>4, <3>4, <3>6, <3>7, <3>8
      <4>2. known("reserved")' <= e.totalReserved /\ e.totalReserved <= begun("reserved")'
        BY <2>4, <3>4, <3>6, <3>7, <3>8
      <4> QED
        BY <3>a, <3>4, <3>6, <3>7, <3>8, <4>1, <4>2
    <3>10. NothingMissed(j, d)'
      BY <3>3, <3>5, <3>9 DEF NothingMissed, known, begun
    <3> QED
      BY <1>1, <3>1, <3>10
  <2> QED
    BY <1>5, <2>5, <2>6, <2>7
<1> QED
  BY <1>3, <1>4, <1>5 DEF Step

LEMMA StepWindows ==
  ASSUME TypeOK, Filed, Single, Recorded, Learned, Windows, TypeOK', NEW j \in Jobs, Step(j)
  PROVE  Windows'
<1>0. /\ Calling(j) /\ UNCHANGED plan /\ Current(j).domain \in Domains /\ raced \subseteq raced'
      /\ snap \in [Jobs -> [Domains -> PatternSnapshot]]
      /\ since \in [Jobs -> [Domains -> SUBSET recorded]]
  BY StepMoves, CallTypes
     DEF Step, Lookup, Create, Learn, Count, SnapFormats, SnapResolved, SnapRate, TypeOK
<1> SUFFICES ASSUME NEW k \in Jobs, NEW d \in Domains PROVE Window(k, d)'
  BY DEF Windows
<1>1. Window(k, d)
  BY DEF Windows
<1>2. CASE k = j /\ d = Current(j).domain /\ ~Writing(j)
  BY <1>0, <1>1, <1>2, SnapshotStep
<1>3. CASE ~(k = j /\ d = Current(j).domain /\ ~Writing(j))
  <2>1. since'[k][d] = since[k][d] /\ snap'[k][d] = snap[k][d]
    <3>1. CASE Writing(j)
      <4>1. ~SnapFormats(j) /\ ~SnapResolved(j) /\ ~SnapRate(j)
        BY <1>0, <3>1 DEF Filed, SnapFormats, SnapResolved, SnapRate, At
      <4> QED
        BY <3>1, <4>1 DEF Step, Lookup, Create, Learn, Count
    <3>2. CASE k # j \/ d # Current(j).domain
      <4>1. \/ UNCHANGED since
            \/ since' = [since EXCEPT ![j][Current(j).domain] = RecordsOf(Current(j).domain)]
        BY DEF Step, Lookup, Create, Learn, Count, SnapFormats, SnapResolved, SnapRate
      <4>2. since'[k][d] = since[k][d]
        BY <1>0, <3>2, <4>1
      <4>3. \/ UNCHANGED snap
            \/ \E v : snap' = [snap EXCEPT ![j][Current(j).domain] = v]
        BY DEF Step, Lookup, Create, Learn, Count, SnapFormats, SnapResolved, SnapRate
      <4>4. snap'[k][d] = snap[k][d]
        BY <1>0, <3>2, <4>3
      <4> QED
        BY <4>2, <4>4
    <3> QED
      BY <1>3, <3>1, <3>2
  <2>2. (Reading(k, d)' <=> Reading(k, d)) /\ (Reading(k, d) => pc'[k] = pc[k])
    <3>1. CASE k # j
      BY <1>0, <3>1, StepMoves DEF Reading, Calling, Current
    <3>2. CASE k = j
      <4>1. ~Reading(j, d)
        BY <1>0, <1>3, <3>2 DEF Reading, Filed
      <4>2. ~Reading(j, d)'
        <5>1. CASE pc'[j] = "lookup"
          BY <5>1 DEF Reading
        <5>2. CASE pc'[j] # "lookup"
          <6>1. Calling(j)' /\ Current(j)' = Current(j) /\ Writing(j)' = Writing(j)
            BY <1>0, <5>2, StepMoves DEF Calling, Current, Writing, TypeOK
          <6>2. Filed'
            BY StepFiles
          <6> QED
            BY <1>3, <3>2, <5>2, <6>1, <6>2 DEF Reading, Filed
        <5> QED
          BY <5>1, <5>2
      <4> QED
        BY <3>2, <4>1, <4>2
    <3> QED
      BY <3>1, <3>2
  <2>3. \A op : /\ Cardinality(Begun(d, op)) <= Cardinality(Begun(d, op)')
                /\ Cardinality(Begun(d, op)) \in Nat /\ Cardinality(Begun(d, op)') \in Nat
    BY BegunGrows
  <2>4. \A op : Cardinality(Known(k, d, op)) \in Nat
    <3> SUFFICES ASSUME NEW op PROVE Cardinality(Known(k, d, op)) \in Nat
      OBVIOUS
    <3>1. Known(k, d, op) \in SUBSET recorded
      BY <1>0 DEF Known
    <3> QED
      BY <3>1, FS_Subset, FS_CardinalityType DEF Recorded
  <2> QED
    BY <1>0, <1>1, <2>1, <2>2, <2>3, <2>4, WindowStays
<1> QED
  BY <1>2, <1>3

\* The inductive invariant of a snapshot in the making: how far it has come
\* says what it already has.
THEOREM WindowInvariant == Spec => [](Learned /\ Windows)
<1>1. Init /\ TypeOK => Learned /\ Windows
  <2> SUFFICES ASSUME Init, TypeOK PROVE Learned /\ Windows
    OBVIOUS
  <2>1. Learned
    BY DEF Init, Learned, At
  <2>2. ASSUME NEW j \in Jobs, NEW d \in Domains PROVE Window(j, d)
    <3>1. since[j][d] = {} /\ snap[j][d] = NoPattern /\ ~Reading(j, d)
      BY DEF Init, Reading
    <3>2. \A op : Known(j, d, op) = {}
      BY <3>1 DEF Known
    <3>3. \A op : Cardinality(Known(j, d, op)) = 0
      BY <3>2, FS_EmptySet
    <3>4. NothingMissed(j, d)
      BY <3>1, <3>2, <3>3 DEF NothingMissed, NoPattern
    <3> QED
      BY <3>1, <3>4 DEF Window
  <2> QED
    BY <2>1, <2>2 DEF Windows
<1>2. TypeOK /\ Filed /\ Single /\ Recorded /\ Learned /\ Windows /\ TypeOK' /\ [Next]_vars
        => Learned' /\ Windows'
  <2> SUFFICES ASSUME TypeOK, Filed, Single, Recorded, Learned, Windows, TypeOK', [Next]_vars
               PROVE  Learned' /\ Windows'
    OBVIOUS
  <2>1. CASE UNCHANGED vars
    <3>1. /\ UNCHANGED <<plan, next, pc, patterns, entries, held, snap, recorded, raced, since>>
          /\ \A r : CallOf(r)' = CallOf(r)
          /\ \A d, op : Begun(d, op)' = Begun(d, op)
          /\ \A j, d, op : Known(j, d, op)' = Known(j, d, op)
          /\ \A j, d : Reading(j, d)' = Reading(j, d)
      BY <2>1 DEF vars, CallOf, Begun, Known, Reading, Calling, Current
    <3>2. \A j, d : NothingMissed(j, d)' <=> NothingMissed(j, d)
      BY <3>1 DEF NothingMissed
    <3>3. Learned'
      BY <3>1 DEF Learned, At, Calling, Current
    <3>4. Windows'
      BY <3>1, <3>2 DEF Windows, Window, HasFormats, HasCount
    <3> QED
      BY <3>3, <3>4
  <2>2. ASSUME NEW j \in Jobs, Step(j) PROVE Learned' /\ Windows'
    BY <2>2, StepLearned, StepWindows
  <2> QED
    BY <2>1, <2>2 DEF Next
<1> QED
  BY <1>1, <1>2, TypeInvariant, StoreInvariant, PTL DEF Spec

\* A snapshot never claims a format or a number of confirmed addresses that no
\* call has brought, and without a race it misses nothing that was recorded
\* when it began, its rate included (snapshot_for, patterns.py:110-123).
THEOREM SnapshotsAreGrounded == Spec => []SnapshotGrounded
<1>1. Grounded /\ Windows => SnapshotGrounded
  BY DEF Grounded, Windows, Window, SnapshotGrounded
<1> QED
  BY <1>1, StoreInvariant, WindowInvariant, PTL
=============================================================================
