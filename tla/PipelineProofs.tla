--------------------------- MODULE PipelineProofs ---------------------------
(* Theorems of Pipeline for every batch, every set of domains and every limit: *)
(*   - its types;                                                            *)
(*   - its counts, which agree with its results (the invariant Accounting);  *)
(*   - its verdicts: "processed" is exact and never falls, a verdict that has *)
(*     left "reserved" is final, the first of equal addresses wins and is the *)
(*     only one probed;                                                      *)
(*   - where the job, its domains and its emails stand (the invariant        *)
(*     Lifecycle): no email is lost, the pipeline implements BatchVerdicts,  *)
(*     and the progress it shows is honest.                                  *)
EXTENDS PipelineRefinement, FiniteSetTheorems, TLAPS

-----------------------------------------------------------------------------
(* Lemmas about the operators.                                               *)

\* Any set of emails is finite and its size is a natural number.
LEMMA EmailSets ==
  ASSUME NEW S, S \subseteq Email
  PROVE  IsFiniteSet(S) /\ Cardinality(S) \in Nat
<1>1. IsFiniteSet(Email)
  BY SizeAssumption, FS_Interval DEF Email
<1>2. IsFiniteSet(S)
  BY <1>1, FS_Subset
<1> QED
  BY <1>2, FS_CardinalityType

\* increment_count keeps a count record a count record.
LEMMA IncrementType ==
  ASSUME NEW total \in Nat, NEW c \in [CountFields -> Int],
         NEW f \in CountFields, NEW k \in Int
  PROVE  IncrementCount(total, c, f, k) \in [CountFields -> Int]
  BY DEF IncrementCount, Recount, Processed, Tallied, CountFields, Statuses

\* So does apply_score_count.
LEMMA ApplyScoreType ==
  ASSUME NEW total \in Nat, NEW c \in [CountFields -> Int],
         NEW p \in Int, NEW d \in Int, NEW n \in Int
  PROVE  ApplyScoreCounts(total, c, p, d, n) \in [CountFields -> Int]
  BY DEF ApplyScoreCounts, Recount, Processed, Tallied, CountFields, Statuses

\* Reporting a well-formed verdict keeps results and counts well-formed.
LEMMA ReportType ==
  ASSUME TypeOK, NEW S \in SUBSET Email, NEW v \in Verdict, v.status \in Statuses,
         Report(S, v)
  PROVE  verdict' \in [Email -> Verdict] /\ counts' \in [CountFields -> Int]
<1>1. verdict' \in [Email -> Verdict]
  BY DEF TypeOK, Report
<1>2. Cardinality(S) \in Int
  BY EmailSets
<1>3. v.status \in CountFields
  BY DEF CountFields
<1>4. counts' \in [CountFields -> Int]
  BY <1>2, <1>3, IncrementType, SizeAssumption DEF TypeOK, Report
<1> QED
  BY <1>1, <1>4

\* Moving emails keeps every email in a known place.
LEMMA MoveType ==
  ASSUME TypeOK, NEW S \in SUBSET Email, NEW place \in Place, Move(S, place)
  PROVE  at' \in [Email -> Place]
  BY DEF TypeOK, Move

\* The verdicts the handlers build are well-formed.
LEMMA ResultType ==
  ASSUME NEW s \in Statuses, NEW sub \in SubStatus, NEW stage \in 0 .. 4
  PROVE  Result(s, sub, stage) \in Verdict /\ Result(s, sub, stage).status = s
  BY DEF Result, Verdict, Statuses

\* A Stage-1 handler that reports keeps the types of all it touches.
LEMMA StageOneVerdictType ==
  ASSUME TypeOK, Reading, NEW v \in Verdict, v.status \in Statuses, StageOneVerdict(v)
  PROVE  /\ verdict' \in [Email -> Verdict] /\ counts' \in [CountFields -> Int]
         /\ at' \in [Email -> Place] /\ cursor' \in 1 .. BatchSize + 1
         /\ UNCHANGED <<raw, status, pc, dom, counters, progress, fetch, retry>>
<1>1. {cursor} \in SUBSET Email
  BY SizeAssumption DEF Reading, TypeOK, Email
<1>2. Report({cursor}, v) /\ Move({cursor}, "settled")
  BY DEF StageOneVerdict
<1>3. verdict' \in [Email -> Verdict] /\ counts' \in [CountFields -> Int]
  BY <1>1, <1>2, ReportType
<1>4. at' \in [Email -> Place]
  BY <1>1, <1>2, MoveType DEF Place
<1>5. cursor' \in 1 .. BatchSize + 1
  BY SizeAssumption DEF StageOneVerdict, Reading, TypeOK
<1> QED
  BY <1>3, <1>4, <1>5 DEF StageOneVerdict

\* Every list check that settles an address names a known verdict.
LEMMA ListChecksType ==
  ASSUME NEW k \in 1 .. 3
  PROVE  ListChecks[k].status \in Statuses /\ ListChecks[k].sub \in SubStatus
<1>1. k = 1 \/ k = 2 \/ k = 3
  OBVIOUS
<1> QED
  BY <1>1 DEF ListChecks, Statuses, SubStatus

\* The Stage-1 loop keeps the types.
LEMMA StageOneType ==
  ASSUME TypeOK, StageOne
  PROVE  TypeOK'
<1>0. Reading => Current \in Address
  BY SizeAssumption DEF Reading, Current, TypeOK, Email
<1>1. CASE Begin
  BY <1>1 DEF Begin, TypeOK
<1>2. CASE ReadMalformed
  <2>1. Result("invalid", "syntax_error", 1) \in Verdict
        /\ Result("invalid", "syntax_error", 1).status \in Statuses
    BY ResultType DEF Statuses, SubStatus
  <2> QED
    BY <1>2, <2>1, StageOneVerdictType DEF ReadMalformed, TypeOK
<1>3. CASE ReadDuplicate
  <2>1. Result("duplicate", "syntax_error", 1) \in Verdict
        /\ Result("duplicate", "syntax_error", 1).status \in Statuses
    BY ResultType DEF Statuses, SubStatus
  <2> QED
    BY <1>3, <2>1, StageOneVerdictType DEF ReadDuplicate, TypeOK
<1>4. CASE ReadListed
  <2>1. PICK k \in 1 .. 3 : StageOneVerdict(Result(ListChecks[k].status, ListChecks[k].sub, 1))
    BY <1>4 DEF ReadListed
  <2>2. Result(ListChecks[k].status, ListChecks[k].sub, 1) \in Verdict
        /\ Result(ListChecks[k].status, ListChecks[k].sub, 1).status \in Statuses
    BY ListChecksType, ResultType
  <2> QED
    BY <1>0, <1>4, <2>1, <2>2, StageOneVerdictType DEF ReadListed, TypeOK
<1>5. CASE ReadQueued
  <2>1. {cursor} \in SUBSET Email
    BY <1>5, SizeAssumption DEF ReadQueued, Reading, TypeOK, Email
  <2>2. at' \in [Email -> Place]
    BY <1>5, <2>1, MoveType DEF ReadQueued, Place
  <2> QED
    BY <1>0, <1>5, <2>2, SizeAssumption DEF ReadQueued, Reading, TypeOK
<1>6. CASE ReadFaulty
  <2>1. Result("reserved", "temp_error", 1) \in Verdict
        /\ Result("reserved", "temp_error", 1).status \in Statuses
    BY ResultType DEF Statuses, SubStatus
  <2>2. seen' \subseteq Address
    BY <1>0, <1>6 DEF ReadFaulty, TypeOK
  <2> QED
    BY <1>6, <2>1, <2>2, StageOneVerdictType DEF ReadFaulty, TypeOK
<1>7. CASE ReadUnstorable
  BY <1>7 DEF ReadUnstorable, TypeOK
<1>8. CASE Fail
  BY <1>8 DEF Fail, TypeOK
<1>9. CASE EndStage1
  <2>1. Cardinality(EmailsAt("domain")) \in Int
    BY EmailSets DEF EmailsAt
  <2> QED
    BY <1>9, <2>1 DEF EndStage1, TypeOK, Counter
<1> QED
  BY <1>1, <1>2, <1>3, <1>4, <1>5, <1>6, <1>7, <1>8, <1>9 DEF StageOne

\* The DNS tasks keep the types.
LEMMA DnsSettlesType ==
  ASSUME TypeOK, NEW d \in Domain, NEW v \in Verdict, v.status \in Statuses, DnsSettles(d, v)
  PROVE  TypeOK'
<1>1. Group(d) \in SUBSET Email
  BY DEF Group, EmailsAt
<1>2. verdict' \in [Email -> Verdict] /\ counts' \in [CountFields -> Int]
  BY <1>1, ReportType DEF DnsSettles
<1>3. at' \in [Email -> Place]
  BY <1>1, MoveType DEF DnsSettles, Place
<1>4. Cardinality(Group(d)) \in Int
  BY <1>1, EmailSets
<1>5. counters' \in [Counter -> Int]
  BY <1>4 DEF DnsSettles, CountDns, TypeOK, Counter
<1> QED
  BY <1>2, <1>3, <1>5 DEF DnsSettles, TypeOK

LEMMA DnsType ==
  ASSUME TypeOK, NEW d \in Domain, DnsStep(d)
  PROVE  TypeOK'
<1>1. CASE AcquireDns(d)
  BY <1>1 DEF AcquireDns, TypeOK
<1>2. CASE DnsNoMail(d)
  <2>1. Result("invalid", "no_mx_record", 2) \in Verdict
        /\ Result("invalid", "no_mx_record", 2).status \in Statuses
    BY ResultType DEF Statuses, SubStatus
  <2> QED
    BY <1>2, <2>1, DnsSettlesType DEF DnsNoMail
<1>3. CASE DnsAddressOnly(d)
  <2>1. Result("reserved", "no_mx_record", 2) \in Verdict
        /\ Result("reserved", "no_mx_record", 2).status \in Statuses
    BY ResultType DEF Statuses, SubStatus
  <2> QED
    BY <1>3, <2>1, DnsSettlesType DEF DnsAddressOnly
<1>4. CASE DnsRaises(d)
  <2>1. Result("reserved", "domain_not_found", 2) \in Verdict
        /\ Result("reserved", "domain_not_found", 2).status \in Statuses
    BY ResultType DEF Statuses, SubStatus
  <2> QED
    BY <1>4, <2>1, DnsSettlesType DEF DnsRaises
<1>5. CASE DnsMailHosts(d)
  <2>1. Cardinality(Group(d)) \in Int
    BY EmailSets DEF Group, EmailsAt
  <2>2. counters' \in [Counter -> Int]
    BY <1>5, <2>1 DEF DnsMailHosts, CountDns, TypeOK, Counter
  <2> QED
    BY <1>5, <2>2 DEF DnsMailHosts, TypeOK
<1> QED
  BY <1>1, <1>2, <1>3, <1>4, <1>5 DEF DnsStep

\* A Stage-3 result keeps the types of what it touches.
LEMMA ReportStage3Type ==
  ASSUME TypeOK, NEW S \in SUBSET Email, NEW s \in Statuses, NEW sub \in SubStatus,
         ReportStage3(S, s, sub)
  PROVE  /\ verdict' \in [Email -> Verdict] /\ counts' \in [CountFields -> Int]
         /\ counters' \in [Counter -> Int]
<1>1. Result(s, sub, 3) \in Verdict /\ Result(s, sub, 3).status \in Statuses
  BY ResultType
<1>2. Report(S, Result(s, sub, 3))
  BY DEF ReportStage3
<1>3. Cardinality(S) \in Int
  BY EmailSets
<1>4. counters' \in [Counter -> Int]
  BY <1>3 DEF ReportStage3, TypeOK, Counter
<1> QED
  BY <1>1, <1>2, <1>4, ReportType

\* The catch-all probes and the mailbox tasks keep the types.
LEMMA CatchAllType ==
  ASSUME TypeOK, NEW d \in Domain, CatchAllStep(d)
  PROVE  TypeOK'
<1>0. Group(d) \in SUBSET Email
  BY DEF Group, EmailsAt
<1>1. CASE CatchAllYes(d)
  <2>1. /\ verdict' \in [Email -> Verdict] /\ counts' \in [CountFields -> Int]
        /\ counters' \in [Counter -> Int]
    BY <1>0, <1>1, ReportStage3Type DEF CatchAllYes, Statuses, SubStatus
  <2>2. at' \in [Email -> Place]
    BY <1>0, <1>1, MoveType DEF CatchAllYes, Place
  <2> QED
    BY <1>1, <2>1, <2>2 DEF CatchAllYes, TypeOK
<1>2. CASE CatchAllNo(d)
  <2>1. at' \in [Email -> Place]
    BY <1>0, <1>2, MoveType DEF CatchAllNo, Place
  <2> QED
    BY <1>2, <2>1 DEF CatchAllNo, TypeOK
<1> QED
  BY <1>1, <1>2 DEF CatchAllStep

LEMMA ProbeSettlesType ==
  ASSUME TypeOK, NEW i \in Email, NEW s \in Statuses, NEW sub \in SubStatus,
         ProbeSettles(i, s, sub)
  PROVE  TypeOK'
<1>1. /\ verdict' \in [Email -> Verdict] /\ counts' \in [CountFields -> Int]
      /\ counters' \in [Counter -> Int]
  <2>1. {i} \in SUBSET Email
    OBVIOUS
  <2> QED
    BY <2>1, ReportStage3Type DEF ProbeSettles
<1>2. at' \in [Email -> Place]
  BY MoveType DEF ProbeSettles, Place
<1> QED
  BY <1>1, <1>2 DEF ProbeSettles, TypeOK

LEMMA MailboxType ==
  ASSUME TypeOK, NEW i \in Email, MailboxStep(i)
  PROVE  TypeOK'
<1>1. CASE AcquireMailbox(i)
  <2>1. at' \in [Email -> Place]
    BY <1>1, MoveType DEF AcquireMailbox, Place
  <2> QED
    BY <1>1, <2>1 DEF AcquireMailbox, TypeOK
<1>2. CASE ProbeNoHost(i)
  BY <1>2, ProbeSettlesType DEF ProbeNoHost, Statuses, SubStatus
<1>3. CASE ProbeExists(i)
  BY <1>3, ProbeSettlesType DEF ProbeExists, Statuses, SubStatus
<1>4. CASE ProbeRejected(i)
  BY <1>4, ProbeSettlesType DEF ProbeRejected, Statuses, SubStatus
<1>5. CASE ProbeUnknown(i)
  BY <1>5, ProbeSettlesType DEF ProbeUnknown, Statuses, SubStatus
<1>6. CASE ProbeRetry(i)
  <2>1. at' \in [Email -> Place]
    BY <1>6, MoveType DEF ProbeRetry, Place
  <2> QED
    BY <1>6, <2>1 DEF ProbeRetry, TypeOK
<1> QED
  BY <1>1, <1>2, <1>3, <1>4, <1>5, <1>6 DEF MailboxStep

\* What run_pipeline itself does between the stages keeps the types.
LEMMA BetweenStagesType ==
  ASSUME TypeOK, StartStage3 \/ EmitGreylisted \/ EmitProgress \/ PublishStage3 \/ EnterStage4
  PROVE  TypeOK'
<1>1. CASE StartStage3
  BY <1>1 DEF StartStage3, TypeOK
<1>2. CASE EmitGreylisted
  <2>1. EmailsAt("parked") \in SUBSET Email
    BY DEF EmailsAt
  <2>2. /\ verdict' \in [Email -> Verdict] /\ counts' \in [CountFields -> Int]
        /\ counters' \in [Counter -> Int]
    BY <1>2, <2>1, ReportStage3Type DEF EmitGreylisted, Statuses, SubStatus
  <2>3. at' \in [Email -> Place]
    BY <1>2, <2>1, MoveType DEF EmitGreylisted, Place
  <2> QED
    BY <1>2, <2>2, <2>3 DEF EmitGreylisted, TypeOK
<1>3. CASE EmitProgress \/ PublishStage3
  BY <1>3 DEF EmitProgress, PublishStage3, TypeOK
<1>4. CASE EnterStage4
  <2>1. Cardinality(Reserved) \in Int
    BY EmailSets DEF Reserved
  <2>2. counters' \in [Counter -> Int] /\ progress' \in [Counter -> Int]
    BY <1>4, <2>1 DEF EnterStage4, TypeOK, Counter
  <2>3. at' \in [Email -> Place]
    BY <1>4 DEF EnterStage4, TypeOK, Place
  <2>4. fetch' \in [Batch -> [Domain -> {"idle", "waiting", "fetching", "done"}]]
    BY <1>4 DEF EnterStage4, OpenBatch, TypeOK, Batch
  <2> QED
    BY <1>4, <2>2, <2>3, <2>4 DEF EnterStage4, TypeOK
<1> QED
  BY <1>1, <1>2, <1>3, <1>4

\* Stage 4 counts what it has done without leaving the integers.
LEMMA CountStage4Type ==
  ASSUME TypeOK, NEW n \in Int, CountStage4(n)
  PROVE  counters' \in [Counter -> Int] /\ progress' \in [Counter -> Int]
  BY DEF CountStage4, TypeOK, Counter

\* Scoring keeps the types.
LEMMA ScoreType ==
  ASSUME TypeOK, NEW b \in Batch, NEW d \in Domain, ScoreStep(b, d)
  PROVE  TypeOK'
<1>1. CASE AcquireWebsite(b, d)
  BY <1>1 DEF AcquireWebsite, TypeOK
<1>2. CASE ScoreDomain(b, d)
  <2> DEFINE refs == Refs(b, d)
             dropped == {i \in refs : verdict[i].sub = "no_mx_record"}
  <2>1. refs \in SUBSET Email /\ dropped \in SUBSET Email
    BY DEF Refs, EmailsAt
  <2>2. PICK P \in SUBSET {i \in refs \ dropped : MayPromote(i)} :
        \E D \in SUBSET ((refs \ dropped) \ P) :
           /\ verdict' = [i \in Email |->
                IF i \in P THEN Scored(verdict[i], "valid", TRUE, FALSE)
                ELSE IF i \in D THEN Scored(verdict[i], "invalid", FALSE, TRUE)
                ELSE IF i \in dropped THEN Scored(verdict[i], "invalid", FALSE, FALSE)
                ELSE IF i \in refs THEN Scored(verdict[i], verdict[i].status, FALSE, FALSE)
                ELSE verdict[i]]
           /\ counts' = ApplyScoreCounts(BatchSize, counts, Cardinality(P),
                                         Cardinality(D), Cardinality(dropped))
    BY <1>2 DEF ScoreDomain
  <2>3. PICK D \in SUBSET ((refs \ dropped) \ P) :
           /\ verdict' = [i \in Email |->
                IF i \in P THEN Scored(verdict[i], "valid", TRUE, FALSE)
                ELSE IF i \in D THEN Scored(verdict[i], "invalid", FALSE, TRUE)
                ELSE IF i \in dropped THEN Scored(verdict[i], "invalid", FALSE, FALSE)
                ELSE IF i \in refs THEN Scored(verdict[i], verdict[i].status, FALSE, FALSE)
                ELSE verdict[i]]
           /\ counts' = ApplyScoreCounts(BatchSize, counts, Cardinality(P),
                                         Cardinality(D), Cardinality(dropped))
    BY <2>2
  <2>4. /\ Cardinality(P) \in Int /\ Cardinality(D) \in Int
        /\ Cardinality(dropped) \in Int /\ Cardinality(refs) \in Int
    <3>1. P \subseteq Email /\ D \subseteq Email
      BY <2>1
    <3> QED
      BY <2>1, <3>1, EmailSets
  <2>5. counts' \in [CountFields -> Int]
    BY <2>3, <2>4, ApplyScoreType, SizeAssumption DEF TypeOK
  <2>6. verdict' \in [Email -> Verdict]
    BY <2>3 DEF TypeOK, Verdict, Statuses, Scored
  <2>7. at' \in [Email -> Place]
    BY <1>2, <2>1, MoveType DEF ScoreDomain, Place
  <2>8. counters' \in [Counter -> Int] /\ progress' \in [Counter -> Int]
    BY <1>2, <2>4, CountStage4Type DEF ScoreDomain
  <2>9. fetch' \in [Batch -> [Domain -> {"idle", "waiting", "fetching", "done"}]]
    BY <1>2 DEF ScoreDomain, TypeOK
  <2> QED
    BY <1>2, <2>5, <2>6, <2>7, <2>8, <2>9 DEF ScoreDomain, TypeOK
<1> QED
  BY <1>1, <1>2 DEF ScoreStep

\* The second try of a greylisted email keeps the types.
LEMMA RetryType ==
  ASSUME TypeOK, NEW i \in Email, RetryStep(i)
  PROVE  TypeOK'
<1>1. CASE RetryExists(i)
  <2>1. counts' \in [CountFields -> Int]
    BY <1>1, ApplyScoreType, SizeAssumption DEF RetryExists, TypeOK
  <2>2. verdict' \in [Email -> Verdict]
    BY <1>1 DEF RetryExists, Retried, TypeOK, Verdict, Statuses, SubStatus
  <2>3. at' \in [Email -> Place]
    BY <1>1, MoveType DEF RetryExists, Place
  <2>4. counters' \in [Counter -> Int] /\ progress' \in [Counter -> Int]
    BY <1>1, CountStage4Type DEF RetryExists
  <2> QED
    BY <1>1, <2>1, <2>2, <2>3, <2>4 DEF RetryExists, TypeOK
<1>2. CASE RetryRejected(i)
  <2>1. counts' \in [CountFields -> Int]
    BY <1>2, ApplyScoreType, SizeAssumption DEF RetryRejected, TypeOK
  <2>2. verdict' \in [Email -> Verdict]
    BY <1>2 DEF RetryRejected, Retried, TypeOK, Verdict, Statuses, SubStatus
  <2>3. at' \in [Email -> Place]
    BY <1>2, MoveType DEF RetryRejected, Place
  <2>4. counters' \in [Counter -> Int] /\ progress' \in [Counter -> Int]
    BY <1>2, CountStage4Type DEF RetryRejected
  <2> QED
    BY <1>2, <2>1, <2>2, <2>3, <2>4 DEF RetryRejected, TypeOK
<1>3. CASE RetryInconclusive(i)
  <2>1. at' \in [Email -> Place]
    BY <1>3, MoveType DEF RetryInconclusive, Place
  <2>2. counters' \in [Counter -> Int] /\ progress' \in [Counter -> Int]
    BY <1>3, CountStage4Type DEF RetryInconclusive
  <2> QED
    BY <1>3, <2>1, <2>2 DEF RetryInconclusive, TypeOK
<1> QED
  BY <1>1, <1>2, <1>3 DEF RetryStep

\* The greylist coroutine and the end of the job keep the types.
LEMMA EndingType ==
  ASSUME TypeOK, WakeGreylist \/ EndRetries \/ EndGreylist \/ Complete
  PROVE  TypeOK'
<1>1. CASE WakeGreylist
  <2>1. at' \in [Email -> Place]
    BY <1>1, MoveType DEF WakeGreylist, Place, EmailsAt
  <2> QED
    BY <1>1, <2>1 DEF WakeGreylist, TypeOK
<1>2. CASE EndRetries
  BY <1>2 DEF EndRetries, OpenBatch, TypeOK, Batch
<1>3. CASE EndGreylist
  BY <1>3 DEF EndGreylist, TypeOK
<1>4. CASE Complete
  BY <1>4 DEF Complete, TypeOK, Counter
<1> QED
  BY <1>1, <1>2, <1>3, <1>4

\* Every state of every job is well-formed: in particular a handler never
\* writes a status or sub-status that the model does not know, and no count
\* leaves the integers.
THEOREM TypeInvariant == Spec => []TypeOK
<1>1. Init => TypeOK
  BY SizeAssumption, AddressAssumption
  DEF Init, TypeOK, NoVerdict, NewCounts, ZeroCounters, Verdict, SubStatus, Place, Batch
<1>2. TypeOK /\ [Next]_vars => TypeOK'
  <2> SUFFICES ASSUME TypeOK, [Next]_vars PROVE TypeOK'
    OBVIOUS
  <2>1. CASE Next
    BY <2>1, StageOneType, DnsType, CatchAllType, MailboxType, BetweenStagesType, ScoreType,
       RetryType, EndingType DEF Next
  <2>2. CASE UNCHANGED vars
    BY <2>2 DEF vars, TypeOK
  <2> QED
    BY <2>1, <2>2
<1> QED
  BY <1>1, <1>2, PTL DEF Spec

-----------------------------------------------------------------------------
(* Sizes of sets of emails, and what the two count operators add.            *)

LEMMA DisjointUnion ==
  ASSUME NEW S, S \subseteq Email, NEW T, T \subseteq Email, S \cap T = {}
  PROVE  Cardinality(S \cup T) = Cardinality(S) + Cardinality(T)
<1>1. IsFiniteSet(S) /\ IsFiniteSet(T) /\ Cardinality(S) \in Nat /\ Cardinality(T) \in Nat
  BY EmailSets
<1>2. Cardinality(S \cup T) = Cardinality(S) + Cardinality(T) - Cardinality(S \cap T)
  BY <1>1, FS_Union
<1>3. Cardinality(S \cap T) = 0
  BY FS_EmptySet
<1> QED
  BY <1>1, <1>2, <1>3

LEMMA Remainder ==
  ASSUME NEW S, S \subseteq Email, NEW T, T \subseteq S
  PROVE  Cardinality(S \ T) = Cardinality(S) - Cardinality(T)
<1>1. (S \ T) \cup T = S /\ (S \ T) \cap T = {}
  OBVIOUS
<1>2. Cardinality(S) = Cardinality(S \ T) + Cardinality(T)
  BY <1>1, DisjointUnion
<1>3. Cardinality(S \ T) \in Nat /\ Cardinality(T) \in Nat
  BY EmailSets
<1> QED
  BY <1>2, <1>3

\* Recomputing "processed" moves no other field, and makes it fresh.
LEMMA RecountEffect ==
  ASSUME NEW total \in Nat, NEW c \in [CountFields -> Int]
  PROVE  /\ \A g \in CountFields \ {"processed"} : Recount(total, c)[g] = c[g]
         /\ Recount(total, c)["processed"] = Processed(total, Recount(total, c))
<1>1. \A g \in CountFields \ {"processed"} : Recount(total, c)[g] = c[g]
  BY DEF Recount
<1>2. Recount(total, c)["processed"] = Processed(total, c)
  BY DEF Recount, CountFields
<1>3. Tallied(Recount(total, c)) = Tallied(c)
  BY <1>1 DEF Tallied, CountFields, Statuses
<1>4. Processed(total, Recount(total, c)) = Processed(total, c)
  BY <1>3 DEF Processed
<1> QED
  BY <1>1, <1>2, <1>4

\* increment_count moves one field, and leaves "processed" fresh.
LEMMA IncrementEffect ==
  ASSUME NEW total \in Nat, NEW c \in [CountFields -> Int],
         NEW f \in CountFields \ {"processed"}, NEW k \in Int
  PROVE  LET n == IncrementCount(total, c, f, k)
         IN  /\ n[f] = c[f] + k
             /\ \A g \in CountFields \ {"processed", f} : n[g] = c[g]
             /\ n["processed"] = Processed(total, n)
<1> DEFINE moved == [c EXCEPT ![f] = @ + k]
<1>1. moved \in [CountFields -> Int]
  OBVIOUS
<1>2. moved[f] = c[f] + k /\ \A g \in CountFields \ {f} : moved[g] = c[g]
  OBVIOUS
<1>3. IncrementCount(total, c, f, k) = Recount(total, moved)
  BY DEF IncrementCount
<1> HIDE DEF moved
<1> QED
  BY <1>1, <1>2, <1>3, RecountEffect

\* apply_score_count moves results from "reserved" to "valid" and "invalid".
LEMMA ApplyScoreEffect ==
  ASSUME NEW total \in Nat, NEW c \in [CountFields -> Int],
         NEW p \in Int, NEW d \in Int, NEW n \in Int
  PROVE  LET r == ApplyScoreCounts(total, c, p, d, n)
         IN  /\ r["reserved"] = c["reserved"] - (p + d + n)
             /\ r["valid"] = c["valid"] + p
             /\ r["invalid"] = c["invalid"] + (d + n)
             /\ r["do_not_use"] = c["do_not_use"]
             /\ r["duplicate"] = c["duplicate"]
             /\ r["promoted_to_valid"] = c["promoted_to_valid"] + p
             /\ r["demoted_to_invalid"] = c["demoted_to_invalid"] + d
             /\ r["processed"] = Processed(total, r)
<1> DEFINE moved == [c EXCEPT !["promoted_to_valid"]  = @ + p,
                              !["demoted_to_invalid"] = @ + d,
                              !["reserved"]           = @ - (p + d + n),
                              !["valid"]              = @ + p,
                              !["invalid"]            = @ + (d + n)]
<1>1. moved \in [CountFields -> Int]
  BY DEF CountFields, Statuses
<1>2. /\ moved["reserved"] = c["reserved"] - (p + d + n)
      /\ moved["valid"] = c["valid"] + p
      /\ moved["invalid"] = c["invalid"] + (d + n)
      /\ moved["do_not_use"] = c["do_not_use"]
      /\ moved["duplicate"] = c["duplicate"]
      /\ moved["promoted_to_valid"] = c["promoted_to_valid"] + p
      /\ moved["demoted_to_invalid"] = c["demoted_to_invalid"] + d
  BY DEF CountFields, Statuses
<1>3. ApplyScoreCounts(total, c, p, d, n) = Recount(total, moved)
  BY DEF ApplyScoreCounts
<1> HIDE DEF moved
<1> QED
  BY <1>1, <1>2, <1>3, RecountEffect DEF CountFields, Statuses

-----------------------------------------------------------------------------
(* The counts agree with the results.                                        *)

Promoted == {i \in Email : verdict[i].promoted}
Demoted == {i \in Email : verdict[i].demoted}

Fresh == counts["processed"] = Processed(BatchSize, counts)

\* Reporting emails that had no result keeps counts and results together.
LEMMA ReportCounts ==
  ASSUME TypeOK, CountsAgree, NEW S \in SUBSET Email,
         \A i \in S : verdict[i].status = "none" /\ ~verdict[i].promoted /\ ~verdict[i].demoted,
         NEW v \in Verdict, v.status \in Statuses, ~v.promoted, ~v.demoted,
         Report(S, v)
  PROVE  CountsAgree' /\ Fresh'
<1>1. Cardinality(S) \in Int
  BY EmailSets
<1>2. /\ counts'[v.status] = counts[v.status] + Cardinality(S)
      /\ \A g \in CountFields \ {"processed", v.status} : counts'[g] = counts[g]
      /\ Fresh'
  <2>1. v.status \in CountFields \ {"processed"}
    BY DEF CountFields, Statuses
  <2> QED
    BY <1>1, <2>1, IncrementEffect, SizeAssumption DEF Report, TypeOK, Fresh
<1>3. \A i \in Email : verdict'[i] = IF i \in S THEN v ELSE verdict[i]
  BY DEF Report
<1>4. ASSUME NEW s \in Statuses PROVE counts'[s] = Cardinality(With(s)')
  <2>1. CASE s = v.status
    <3>1. With(s)' = With(s) \cup S
      BY <1>3, <2>1 DEF With
    <3>2. With(s) \cap S = {}
      BY DEF With, Statuses
    <3>3. Cardinality(With(s)') = Cardinality(With(s)) + Cardinality(S)
      BY <3>1, <3>2, DisjointUnion DEF With
    <3> QED
      BY <1>2, <2>1, <3>3 DEF CountsAgree
  <2>2. CASE s # v.status
    <3>1. With(s)' = With(s)
      BY <1>3, <2>2 DEF With, Statuses
    <3>2. counts'[s] = counts[s]
      BY <1>2, <2>2 DEF CountFields, Statuses
    <3> QED
      BY <3>1, <3>2 DEF CountsAgree
  <2> QED
    BY <2>1, <2>2
<1>5. Promoted' = Promoted /\ Demoted' = Demoted
  BY <1>3 DEF Promoted, Demoted
<1>6. /\ counts'["promoted_to_valid"] = counts["promoted_to_valid"]
      /\ counts'["demoted_to_invalid"] = counts["demoted_to_invalid"]
  BY <1>2 DEF CountFields, Statuses
<1>7. CountsAgree'
  BY <1>4, <1>5, <1>6 DEF CountsAgree, Promoted, Demoted
<1> QED
  BY <1>2, <1>7

\* Settling reserved results keeps them together: P is promoted, D demoted
\* and N made invalid with neither flag.
LEMMA SettleCounts ==
  ASSUME TypeOK, CountsAgree,
         NEW P \in SUBSET Reserved, NEW D \in SUBSET (Reserved \ P),
         NEW N \in SUBSET ((Reserved \ P) \ D),
         \A i \in Reserved : ~verdict[i].promoted /\ ~verdict[i].demoted,
         \A i \in P : /\ verdict'[i].status = "valid"
                      /\ verdict'[i].promoted /\ ~verdict'[i].demoted,
         \A i \in D : /\ verdict'[i].status = "invalid"
                      /\ ~verdict'[i].promoted /\ verdict'[i].demoted,
         \A i \in N : /\ verdict'[i].status = "invalid"
                      /\ ~verdict'[i].promoted /\ ~verdict'[i].demoted,
         \A i \in ((Email \ P) \ D) \ N :
            /\ verdict'[i].status = verdict[i].status
            /\ verdict'[i].promoted = verdict[i].promoted
            /\ verdict'[i].demoted = verdict[i].demoted,
         counts' = ApplyScoreCounts(BatchSize, counts, Cardinality(P), Cardinality(D), Cardinality(N))
  PROVE  CountsAgree' /\ Fresh'
<1>0. P \subseteq Email /\ D \subseteq Email /\ N \subseteq Email /\ Reserved \subseteq Email
  BY DEF Reserved
<1>1. Cardinality(P) \in Int /\ Cardinality(D) \in Int /\ Cardinality(N) \in Int
  BY <1>0, EmailSets
<1>2. /\ counts'["reserved"] = counts["reserved"] - (Cardinality(P) + Cardinality(D) + Cardinality(N))
      /\ counts'["valid"] = counts["valid"] + Cardinality(P)
      /\ counts'["invalid"] = counts["invalid"] + (Cardinality(D) + Cardinality(N))
      /\ counts'["do_not_use"] = counts["do_not_use"]
      /\ counts'["duplicate"] = counts["duplicate"]
      /\ counts'["promoted_to_valid"] = counts["promoted_to_valid"] + Cardinality(P)
      /\ counts'["demoted_to_invalid"] = counts["demoted_to_invalid"] + Cardinality(D)
      /\ counts'["processed"] = Processed(BatchSize, counts')
  BY <1>1, ApplyScoreEffect, SizeAssumption DEF TypeOK
<1>3. Cardinality(D \cup N) = Cardinality(D) + Cardinality(N)
  BY <1>0, DisjointUnion
<1>4. Cardinality(P \cup (D \cup N)) = Cardinality(P) + (Cardinality(D) + Cardinality(N))
  <2>1. P \cap (D \cup N) = {}
    OBVIOUS
  <2> QED
    BY <1>0, <1>3, <2>1, DisjointUnion
<1>5. counts'["reserved"] = Cardinality(With("reserved")')
  <2>1. With("reserved")' = Reserved \ (P \cup (D \cup N))
    BY <1>0 DEF With, Reserved
  <2>2. Cardinality(With("reserved")') = Cardinality(Reserved) - Cardinality(P \cup (D \cup N))
    BY <1>0, <2>1, Remainder
  <2>3. counts["reserved"] = Cardinality(Reserved)
    BY DEF CountsAgree, Statuses, With, Reserved
  <2> QED
    BY <1>1, <1>2, <1>4, <2>2, <2>3
<1>6. counts'["valid"] = Cardinality(With("valid")')
  <2>1. With("valid")' = With("valid") \cup P
    BY <1>0 DEF With, Reserved
  <2>2. With("valid") \cap P = {}
    BY DEF With, Reserved
  <2>3. Cardinality(With("valid")') = Cardinality(With("valid")) + Cardinality(P)
    BY <1>0, <2>1, <2>2, DisjointUnion DEF With
  <2> QED
    BY <1>2, <2>3 DEF CountsAgree, Statuses
<1>7. counts'["invalid"] = Cardinality(With("invalid")')
  <2>1. With("invalid")' = With("invalid") \cup (D \cup N)
    BY <1>0 DEF With, Reserved
  <2>2. With("invalid") \cap (D \cup N) = {}
    BY DEF With, Reserved
  <2>3. Cardinality(With("invalid")') = Cardinality(With("invalid")) + Cardinality(D \cup N)
    BY <1>0, <2>1, <2>2, DisjointUnion DEF With
  <2> QED
    BY <1>2, <1>3, <2>3 DEF CountsAgree, Statuses
<1>8. /\ counts'["do_not_use"] = Cardinality(With("do_not_use")')
      /\ counts'["duplicate"] = Cardinality(With("duplicate")')
  <2>1. With("do_not_use")' = With("do_not_use") /\ With("duplicate")' = With("duplicate")
    BY <1>0 DEF With, Reserved
  <2> QED
    BY <1>2, <2>1 DEF CountsAgree, Statuses
<1>9. counts'["promoted_to_valid"] = Cardinality(Promoted')
  <2>1. Promoted' = Promoted \cup P
    BY <1>0 DEF Promoted, Reserved
  <2>2. Promoted \cap P = {}
    BY DEF Promoted
  <2>3. Cardinality(Promoted') = Cardinality(Promoted) + Cardinality(P)
    BY <1>0, <2>1, <2>2, DisjointUnion DEF Promoted
  <2> QED
    BY <1>2, <2>3 DEF CountsAgree, Promoted
<1>10. counts'["demoted_to_invalid"] = Cardinality(Demoted')
  <2>1. Demoted' = Demoted \cup D
    BY <1>0 DEF Demoted, Reserved
  <2>2. Demoted \cap D = {}
    BY DEF Demoted
  <2>3. Cardinality(Demoted') = Cardinality(Demoted) + Cardinality(D)
    BY <1>0, <2>1, <2>2, DisjointUnion DEF Demoted
  <2> QED
    BY <1>2, <2>3 DEF CountsAgree, Demoted
<1>11. CountsAgree'
  BY <1>5, <1>6, <1>7, <1>8, <1>9, <1>10 DEF CountsAgree, Statuses, Promoted, Demoted
<1> QED
  BY <1>2, <1>11 DEF Fresh

-----------------------------------------------------------------------------
(* Accounting, one lemma per kind of step.                                   *)

\* A step that leaves results, counts, places and cursor alone.
LEMMA QuietStep ==
  ASSUME Accounting, UNCHANGED <<at, verdict, counts, cursor>>
  PROVE  Accounting'
  BY DEF Accounting, PlacesAgree, CountsAgree, With

\* A step that only moves emails S to a place that fits their result.
LEMMA MovingStep ==
  ASSUME TypeOK, Accounting, NEW S \in SUBSET Email, NEW place \in Place, Move(S, place),
         \A i \in S : /\ verdict[i].status = "none" <=> place \in Unreported
                      /\ place \in Provisional => verdict[i].status = "reserved"
                      /\ i < cursor',
         cursor' \in Int, cursor' >= cursor, UNCHANGED <<verdict, counts>>
  PROVE  Accounting'
<1>1. \A i \in Email : at'[i] = IF i \in S THEN place ELSE at[i]
  BY DEF Move
<1>2. PlacesAgree'
  <2> SUFFICES ASSUME NEW i \in Email
               PROVE  /\ verdict[i].status = "none" <=> at'[i] \in Unreported
                      /\ at'[i] \in Provisional => verdict[i].status = "reserved"
                      /\ verdict[i].status \in {"none", "reserved"} =>
                           ~verdict[i].promoted /\ ~verdict[i].demoted
                      /\ i >= cursor' => at'[i] = "input"
    BY DEF PlacesAgree
  <2>1. i \in Int /\ cursor \in Int
    BY SizeAssumption DEF Email, TypeOK
  <2> QED
    BY <1>1, <2>1 DEF Accounting, PlacesAgree
<1>3. CountsAgree' /\ Fresh'
  BY DEF Accounting, CountsAgree, With, Fresh
<1> QED
  BY <1>2, <1>3 DEF Accounting, Fresh

\* A step that reports emails S, all without a result so far, and settles them.
LEMMA ReportingStep ==
  ASSUME TypeOK, Accounting, NEW S \in SUBSET Email,
         \A i \in S : at[i] \in Unreported /\ i < cursor',
         NEW s \in Statuses, NEW sub \in SubStatus, NEW stage \in 0 .. 4,
         Report(S, Result(s, sub, stage)), Move(S, "settled"),
         cursor' \in Int, cursor' >= cursor
  PROVE  Accounting'
<1> DEFINE v == Result(s, sub, stage)
<1>1. v \in Verdict /\ v.status = s /\ ~v.promoted /\ ~v.demoted
  BY ResultType DEF Result
<1>2. \A i \in S : verdict[i].status = "none" /\ ~verdict[i].promoted /\ ~verdict[i].demoted
  BY DEF Accounting, PlacesAgree
<1>3. CountsAgree' /\ Fresh'
  BY <1>1, <1>2, ReportCounts DEF Accounting
<1>4. \A i \in Email : /\ at'[i] = IF i \in S THEN "settled" ELSE at[i]
                       /\ verdict'[i] = IF i \in S THEN v ELSE verdict[i]
  BY DEF Move, Report
<1> HIDE DEF v
<1>5. PlacesAgree'
  <2> SUFFICES ASSUME NEW i \in Email
               PROVE  /\ verdict'[i].status = "none" <=> at'[i] \in Unreported
                      /\ at'[i] \in Provisional => verdict'[i].status = "reserved"
                      /\ verdict'[i].status \in {"none", "reserved"} =>
                           ~verdict'[i].promoted /\ ~verdict'[i].demoted
                      /\ i >= cursor' => at'[i] = "input"
    BY DEF PlacesAgree
  <2>1. i \in Int /\ cursor \in Int
    BY SizeAssumption DEF Email, TypeOK
  <2>2. CASE i \in S
    BY <1>1, <1>4, <2>1, <2>2 DEF Unreported, Provisional, Statuses
  <2>3. CASE i \notin S
    BY <1>4, <2>1, <2>3 DEF Accounting, PlacesAgree
  <2> QED
    BY <2>2, <2>3
<1> QED
  BY <1>3, <1>5 DEF Accounting, Fresh

\* Stage 1 reads one entry at the cursor, which has no result yet.
LEMMA AtCursor ==
  ASSUME TypeOK, Accounting, Reading
  PROVE  /\ cursor \in Email /\ {cursor} \in SUBSET Email
         /\ at[cursor] = "input" /\ verdict[cursor].status = "none"
<1>1. cursor \in Email
  BY SizeAssumption DEF Reading, TypeOK, Email
<1>2. cursor >= cursor
  BY <1>1 DEF Email
<1> QED
  BY <1>1, <1>2 DEF Accounting, PlacesAgree, Unreported

LEMMA StageOneVerdictAccounts ==
  ASSUME TypeOK, Accounting, Reading, NEW s \in Statuses, NEW sub \in SubStatus,
         StageOneVerdict(Result(s, sub, 1))
  PROVE  Accounting'
<1>1. \A i \in {cursor} : at[i] \in Unreported /\ i < cursor'
  BY AtCursor DEF StageOneVerdict, Unreported, Email
<1>2. cursor' \in Int /\ cursor' >= cursor
  BY AtCursor DEF StageOneVerdict, Email
<1> QED
  BY <1>1, <1>2, AtCursor, ReportingStep DEF StageOneVerdict

LEMMA StageOneAccounts ==
  ASSUME TypeOK, Accounting, StageOne
  PROVE  Accounting'
<1>1. CASE Begin \/ ReadUnstorable \/ Fail \/ EndStage1
  BY <1>1, QuietStep DEF Begin, ReadUnstorable, Fail, EndStage1
<1>2. CASE ReadMalformed
  BY <1>2, StageOneVerdictAccounts DEF ReadMalformed, Statuses, SubStatus
<1>3. CASE ReadDuplicate
  BY <1>3, StageOneVerdictAccounts DEF ReadDuplicate, Statuses, SubStatus
<1>4. CASE ReadListed
  <2>1. PICK k \in 1 .. 3 : StageOneVerdict(Result(ListChecks[k].status, ListChecks[k].sub, 1))
    BY <1>4 DEF ReadListed
  <2> QED
    BY <1>4, <2>1, ListChecksType, StageOneVerdictAccounts DEF ReadListed
<1>5. CASE ReadQueued
  <2>1. \A i \in {cursor} : /\ verdict[i].status = "none" <=> "domain" \in Unreported
                            /\ "domain" \in Provisional => verdict[i].status = "reserved"
                            /\ i < cursor'
    BY <1>5, AtCursor DEF ReadQueued, Unreported, Provisional, Email
  <2>2. cursor' \in Int /\ cursor' >= cursor
    BY <1>5, AtCursor DEF ReadQueued, Email
  <2> QED
    BY <1>5, <2>1, <2>2, AtCursor, MovingStep DEF ReadQueued, Place
<1>6. CASE ReadFaulty
  BY <1>6, StageOneVerdictAccounts DEF ReadFaulty, Statuses, SubStatus
<1> QED
  BY <1>1, <1>2, <1>3, <1>4, <1>5, <1>6 DEF StageOne

\* After Stage 1 an email that has left the input lies behind the cursor.
LEMMA BehindCursor ==
  ASSUME TypeOK, Accounting, cursor' = cursor
  PROVE  /\ cursor' \in Int /\ cursor' >= cursor
         /\ \A i \in Email : at[i] # "input" => i < cursor'
<1>1. cursor \in Int /\ \A i \in Email : i \in Int
  BY SizeAssumption DEF TypeOK, Email
<1> QED
  BY <1>1 DEF Accounting, PlacesAgree

\* A task of Stages 2 and 3 that reports what it held at some place.
LEMMA TaskReports ==
  ASSUME TypeOK, Accounting, cursor' = cursor, NEW S \in SUBSET Email,
         NEW place \in Unreported \ {"input"}, \A i \in S : at[i] = place,
         NEW s \in Statuses, NEW sub \in SubStatus, NEW stage \in 0 .. 4,
         Report(S, Result(s, sub, stage)), Move(S, "settled")
  PROVE  Accounting'
<1>1. \A i \in S : at[i] \in Unreported /\ i < cursor'
  BY BehindCursor
<1> QED
  BY <1>1, BehindCursor, ReportingStep

\* A task that moves what it held from one place to another of the same kind.
LEMMA TaskMoves ==
  ASSUME TypeOK, Accounting, UNCHANGED <<cursor, verdict, counts>>, NEW S \in SUBSET Email,
         NEW from \in Place \ {"input"}, NEW place \in Place, \A i \in S : at[i] = from,
         \/ from \in Unreported /\ place \in Unreported
         \/ from \in Provisional /\ place \in Provisional,
         Move(S, place)
  PROVE  Accounting'
<1>1. \A i \in S : /\ verdict[i].status = "none" <=> place \in Unreported
                   /\ place \in Provisional => verdict[i].status = "reserved"
                   /\ i < cursor'
  BY BehindCursor DEF Accounting, PlacesAgree, Unreported, Provisional
<1> QED
  BY <1>1, BehindCursor, MovingStep

LEMMA DnsAccounts ==
  ASSUME TypeOK, Accounting, NEW d \in Domain, DnsStep(d)
  PROVE  Accounting'
<1>1. Group(d) \in SUBSET Email /\ \A i \in Group(d) : at[i] = "domain"
  BY DEF Group, EmailsAt
<1>2. ASSUME NEW s \in Statuses, NEW sub \in SubStatus, DnsSettles(d, Result(s, sub, 2))
      PROVE  Accounting'
  BY <1>1, <1>2, TaskReports DEF DnsSettles, Unreported
<1>3. CASE AcquireDns(d) \/ DnsMailHosts(d)
  BY <1>3, QuietStep DEF AcquireDns, DnsMailHosts
<1>4. CASE DnsNoMail(d)
  BY <1>2, <1>4 DEF DnsNoMail, Statuses, SubStatus
<1>5. CASE DnsAddressOnly(d)
  BY <1>2, <1>5 DEF DnsAddressOnly, Statuses, SubStatus
<1>6. CASE DnsRaises(d)
  BY <1>2, <1>6 DEF DnsRaises, Statuses, SubStatus
<1> QED
  BY <1>3, <1>4, <1>5, <1>6 DEF DnsStep

LEMMA CatchAllAccounts ==
  ASSUME TypeOK, Accounting, NEW d \in Domain, CatchAllStep(d)
  PROVE  Accounting'
<1>1. Group(d) \in SUBSET Email /\ \A i \in Group(d) : at[i] = "domain"
  BY DEF Group, EmailsAt
<1>2. CASE CatchAllYes(d)
  BY <1>1, <1>2, TaskReports DEF CatchAllYes, ReportStage3, Unreported, Statuses, SubStatus
<1>3. CASE CatchAllNo(d)
  BY <1>1, <1>3, TaskMoves DEF CatchAllNo, Unreported, Place
<1> QED
  BY <1>2, <1>3 DEF CatchAllStep

LEMMA MailboxAccounts ==
  ASSUME TypeOK, Accounting, NEW i \in Email, MailboxStep(i)
  PROVE  Accounting'
<1>1. {i} \in SUBSET Email
  OBVIOUS
<1>2. ASSUME NEW s \in Statuses, NEW sub \in SubStatus, ProbeSettles(i, s, sub)
      PROVE  Accounting'
  BY <1>1, <1>2, TaskReports DEF ProbeSettles, ReportStage3, Unreported
<1>3. CASE AcquireMailbox(i)
  BY <1>1, <1>3, TaskMoves DEF AcquireMailbox, Unreported, Place
<1>4. CASE ProbeRetry(i)
  BY <1>1, <1>4, TaskMoves DEF ProbeRetry, Unreported, Place
<1>5. CASE ProbeNoHost(i)
  BY <1>2, <1>5 DEF ProbeNoHost, Statuses, SubStatus
<1>6. CASE ProbeExists(i)
  BY <1>2, <1>6 DEF ProbeExists, Statuses, SubStatus
<1>7. CASE ProbeRejected(i)
  BY <1>2, <1>7 DEF ProbeRejected, Statuses, SubStatus
<1>8. CASE ProbeUnknown(i)
  BY <1>2, <1>8 DEF ProbeUnknown, Statuses, SubStatus
<1> QED
  BY <1>3, <1>4, <1>5, <1>6, <1>7, <1>8 DEF MailboxStep

LEMMA BetweenStagesAccounts ==
  ASSUME TypeOK, Accounting, StartStage3 \/ EmitGreylisted \/ EmitProgress \/ PublishStage3 \/ EnterStage4
  PROVE  Accounting'
<1>1. CASE StartStage3 \/ EmitProgress \/ PublishStage3
  BY <1>1, QuietStep DEF StartStage3, EmitProgress, PublishStage3
<1>2. CASE EmitGreylisted
  <2>1. EmailsAt("parked") \in SUBSET Email /\ \A i \in EmailsAt("parked") : at[i] = "parked"
    BY DEF EmailsAt
  <2> QED
    BY <1>2, <2>1, TaskReports
    DEF EmitGreylisted, ReportStage3, Unreported, Statuses, SubStatus
<1>3. CASE EnterStage4
  <2>1. UNCHANGED <<verdict, counts, cursor>>
    BY <1>3 DEF EnterStage4
  <2>2. PlacesAgree'
    <3> SUFFICES ASSUME NEW i \in Email
                 PROVE  /\ verdict[i].status = "none" <=> at'[i] \in Unreported
                        /\ at'[i] \in Provisional => verdict[i].status = "reserved"
                        /\ verdict[i].status \in {"none", "reserved"} =>
                             ~verdict[i].promoted /\ ~verdict[i].demoted
                        /\ i >= cursor => at'[i] = "input"
      BY <2>1 DEF PlacesAgree
    <3>1. /\ verdict[i].status = "none" <=> at[i] \in Unreported
          /\ at[i] \in Provisional => verdict[i].status = "reserved"
          /\ verdict[i].status \in {"none", "reserved"} =>
               ~verdict[i].promoted /\ ~verdict[i].demoted
          /\ i >= cursor => at[i] = "input"
      BY DEF Accounting, PlacesAgree
    <3>2. at'[i] = IF i \in Greylisted THEN "asleep"
                   ELSE IF i \in Reserved THEN "rest" ELSE at[i]
      BY <1>3 DEF EnterStage4
    <3>3. i \in Greylisted => i \in Reserved
      BY DEF Greylisted
    <3>4. i \in Reserved => verdict[i].status = "reserved"
      BY DEF Reserved
    <3> QED
      BY <3>1, <3>2, <3>3, <3>4 DEF Unreported, Provisional
  <2>3. CountsAgree' /\ Fresh'
    BY <2>1 DEF Accounting, CountsAgree, With, Fresh
  <2> QED
    BY <2>2, <2>3 DEF Accounting, Fresh
<1> QED
  BY <1>1, <1>2, <1>3

\* A step of Stage 4 that settles emails S that it held, all reserved: P of
\* them promoted, D demoted, N made invalid; the others stay reserved.
LEMMA SettlingStep ==
  ASSUME TypeOK, Accounting, cursor' = cursor,
         NEW S \in SUBSET Email, NEW P \in SUBSET S, NEW D \in SUBSET (S \ P),
         NEW N \in SUBSET ((S \ P) \ D),
         \A i \in S : at[i] \in Provisional,
         \A i \in P : /\ verdict'[i].status = "valid"
                      /\ verdict'[i].promoted /\ ~verdict'[i].demoted,
         \A i \in D : /\ verdict'[i].status = "invalid"
                      /\ ~verdict'[i].promoted /\ verdict'[i].demoted,
         \A i \in N : /\ verdict'[i].status = "invalid"
                      /\ ~verdict'[i].promoted /\ ~verdict'[i].demoted,
         \A i \in ((Email \ P) \ D) \ N :
            /\ verdict'[i].status = verdict[i].status
            /\ verdict'[i].promoted = verdict[i].promoted
            /\ verdict'[i].demoted = verdict[i].demoted,
         counts' = ApplyScoreCounts(BatchSize, counts, Cardinality(P), Cardinality(D), Cardinality(N)),
         Move(S, "settled")
  PROVE  Accounting'
<1>1. \A i \in S : verdict[i].status = "reserved"
  BY DEF Accounting, PlacesAgree
<1>2. S \subseteq Reserved
  BY <1>1 DEF Reserved
<1>3. \A i \in Reserved : ~verdict[i].promoted /\ ~verdict[i].demoted
  BY DEF Accounting, PlacesAgree, Reserved
<1>4. P \in SUBSET Reserved /\ D \in SUBSET (Reserved \ P) /\ N \in SUBSET ((Reserved \ P) \ D)
  BY <1>2
<1>5. CountsAgree' /\ Fresh'
  BY <1>3, <1>4, SettleCounts DEF Accounting
<1>6. PlacesAgree'
  <2> SUFFICES ASSUME NEW i \in Email
               PROVE  /\ verdict'[i].status = "none" <=> at'[i] \in Unreported
                      /\ at'[i] \in Provisional => verdict'[i].status = "reserved"
                      /\ verdict'[i].status \in {"none", "reserved"} =>
                           ~verdict'[i].promoted /\ ~verdict'[i].demoted
                      /\ i >= cursor => at'[i] = "input"
    BY DEF PlacesAgree
  <2>1. at'[i] = IF i \in S THEN "settled" ELSE at[i]
    BY DEF Move
  <2>2. /\ verdict[i].status = "none" <=> at[i] \in Unreported
        /\ at[i] \in Provisional => verdict[i].status = "reserved"
        /\ verdict[i].status \in {"none", "reserved"} =>
             ~verdict[i].promoted /\ ~verdict[i].demoted
        /\ i >= cursor => at[i] = "input"
    BY DEF Accounting, PlacesAgree
  <2>3. CASE i \in P \cup D \cup N
    <3>1. i \in S
      BY <2>3
    <3>2. verdict'[i].status \in {"valid", "invalid"}
      BY <2>3
    <3>3. ~(i >= cursor)
      BY <3>1, <2>2 DEF Provisional
    <3> QED
      BY <2>1, <3>1, <3>2, <3>3 DEF Unreported, Provisional
  <2>4. CASE i \notin P \cup D \cup N
    <3>1. /\ verdict'[i].status = verdict[i].status
          /\ verdict'[i].promoted = verdict[i].promoted
          /\ verdict'[i].demoted = verdict[i].demoted
      BY <2>4
    <3>2. CASE i \in S
      BY <1>1, <2>1, <2>2, <3>1, <3>2 DEF Unreported, Provisional
    <3>3. CASE i \notin S
      BY <2>1, <2>2, <3>1, <3>3
    <3> QED
      BY <3>2, <3>3
  <2> QED
    BY <2>3, <2>4
<1> QED
  BY <1>5, <1>6 DEF Accounting, Fresh

LEMMA ScoreAccounts ==
  ASSUME TypeOK, Accounting, NEW b \in Batch, NEW d \in Domain, ScoreStep(b, d)
  PROVE  Accounting'
<1>1. CASE AcquireWebsite(b, d)
  BY <1>1, QuietStep DEF AcquireWebsite
<1>2. CASE ScoreDomain(b, d)
  <2> DEFINE refs == Refs(b, d)
             dropped == {i \in refs : verdict[i].sub = "no_mx_record"}
  <2>1. PICK P \in SUBSET {i \in refs \ dropped : MayPromote(i)} :
        \E D \in SUBSET ((refs \ dropped) \ P) :
           /\ verdict' = [i \in Email |->
                IF i \in P THEN Scored(verdict[i], "valid", TRUE, FALSE)
                ELSE IF i \in D THEN Scored(verdict[i], "invalid", FALSE, TRUE)
                ELSE IF i \in dropped THEN Scored(verdict[i], "invalid", FALSE, FALSE)
                ELSE IF i \in refs THEN Scored(verdict[i], verdict[i].status, FALSE, FALSE)
                ELSE verdict[i]]
           /\ counts' = ApplyScoreCounts(BatchSize, counts, Cardinality(P),
                                         Cardinality(D), Cardinality(dropped))
    BY <1>2 DEF ScoreDomain
  <2>2. PICK D \in SUBSET ((refs \ dropped) \ P) :
           /\ verdict' = [i \in Email |->
                IF i \in P THEN Scored(verdict[i], "valid", TRUE, FALSE)
                ELSE IF i \in D THEN Scored(verdict[i], "invalid", FALSE, TRUE)
                ELSE IF i \in dropped THEN Scored(verdict[i], "invalid", FALSE, FALSE)
                ELSE IF i \in refs THEN Scored(verdict[i], verdict[i].status, FALSE, FALSE)
                ELSE verdict[i]]
           /\ counts' = ApplyScoreCounts(BatchSize, counts, Cardinality(P),
                                         Cardinality(D), Cardinality(dropped))
    BY <2>1
  <2>3. /\ refs \in SUBSET Email /\ P \in SUBSET refs /\ D \in SUBSET (refs \ P)
        /\ dropped \in SUBSET ((refs \ P) \ D)
    BY DEF Refs, EmailsAt
  <2>4. \A i \in refs : at[i] \in Provisional /\ ~verdict[i].promoted /\ ~verdict[i].demoted
    BY DEF Refs, EmailsAt, Batch, Provisional, Accounting, PlacesAgree
  <2>5. /\ cursor' = cursor /\ Move(refs, "settled")
    BY <1>2 DEF ScoreDomain
  <2> HIDE DEF refs, dropped
  <2>6. \A i \in P : /\ verdict'[i].status = "valid"
                     /\ verdict'[i].promoted /\ ~verdict'[i].demoted
    BY <2>2, <2>3 DEF Scored
  <2>7. \A i \in D : /\ verdict'[i].status = "invalid"
                     /\ ~verdict'[i].promoted /\ verdict'[i].demoted
    BY <2>2, <2>3 DEF Scored
  <2>8. \A i \in dropped : /\ verdict'[i].status = "invalid"
                           /\ ~verdict'[i].promoted /\ ~verdict'[i].demoted
    BY <2>2, <2>3 DEF Scored
  <2>9. \A i \in ((Email \ P) \ D) \ dropped :
            /\ verdict'[i].status = verdict[i].status
            /\ verdict'[i].promoted = verdict[i].promoted
            /\ verdict'[i].demoted = verdict[i].demoted
    <3> SUFFICES ASSUME NEW i \in ((Email \ P) \ D) \ dropped
                 PROVE  /\ verdict'[i].status = verdict[i].status
                        /\ verdict'[i].promoted = verdict[i].promoted
                        /\ verdict'[i].demoted = verdict[i].demoted
      OBVIOUS
    <3>1. verdict[i].promoted \in BOOLEAN /\ verdict[i].demoted \in BOOLEAN
      BY DEF TypeOK, Verdict
    <3>2. CASE i \in refs
      <4>1. verdict'[i] = Scored(verdict[i], verdict[i].status, FALSE, FALSE)
        BY <2>2, <3>2
      <4>2. /\ verdict'[i].status = verdict[i].status
            /\ verdict'[i].promoted = FALSE /\ verdict'[i].demoted = FALSE
        BY <4>1 DEF Scored
      <4> QED
        BY <2>4, <3>1, <3>2, <4>2
    <3>3. CASE i \notin refs
      BY <2>2, <3>3
    <3> QED
      BY <3>2, <3>3
  <2>10. counts' = ApplyScoreCounts(BatchSize, counts, Cardinality(P), Cardinality(D),
                                   Cardinality(dropped))
    BY <2>2
  <2>11. \A i \in refs : at[i] \in Provisional
    BY <2>4
  <2> QED
    BY <2>3, <2>5, <2>6, <2>7, <2>8, <2>9, <2>10, <2>11, SettlingStep
<1> QED
  BY <1>1, <1>2 DEF ScoreStep

\* One email of retry_one: nothing is demoted, and the empty set has no size.
LEMMA RetryAccounts ==
  ASSUME TypeOK, Accounting, NEW i \in Email, RetryStep(i)
  PROVE  Accounting'
<1>1. Cardinality({i}) = 1 /\ Cardinality({}) = 0
  BY FS_Singleton, FS_EmptySet
<1>2. {i} \in SUBSET Email /\ {} \in SUBSET ({i} \ {}) /\ {} \in SUBSET (({i} \ {}) \ {})
  OBVIOUS
<1>3. CASE RetryExists(i)
  <2>1. /\ \A j \in Email : verdict'[j] = IF j = i THEN Retried(verdict[i], "valid", "smtp_confirmed", TRUE)
                                          ELSE verdict[j]
        /\ counts' = ApplyScoreCounts(BatchSize, counts, Cardinality({i}), Cardinality({}), Cardinality({}))
        /\ at[i] = "retrying" /\ cursor' = cursor /\ Move({i}, "settled")
    BY <1>1, <1>3 DEF RetryExists, TypeOK
  <2>2. \A j \in {i} : /\ verdict'[j].status = "valid"
                       /\ verdict'[j].promoted /\ ~verdict'[j].demoted
    BY <2>1 DEF Retried
  <2>3. \A j \in ((Email \ {i}) \ {}) \ {} : verdict'[j] = verdict[j]
    BY <2>1
  <2> QED
    BY <1>2, <2>1, <2>2, <2>3, SettlingStep DEF Provisional
<1>4. CASE RetryRejected(i)
  <2>1. /\ \A j \in Email : verdict'[j] = IF j = i THEN Retried(verdict[i], "invalid", "mailbox_not_found", FALSE)
                                          ELSE verdict[j]
        /\ counts' = ApplyScoreCounts(BatchSize, counts, Cardinality({}), Cardinality({}), Cardinality({i}))
        /\ at[i] = "retrying" /\ cursor' = cursor /\ Move({i}, "settled")
    BY <1>1, <1>4 DEF RetryRejected, TypeOK
  <2>2. \A j \in {i} : /\ verdict'[j].status = "invalid"
                       /\ ~verdict'[j].promoted /\ ~verdict'[j].demoted
    BY <2>1 DEF Retried
  <2>3. \A j \in ((Email \ {}) \ {}) \ {i} : verdict'[j] = verdict[j]
    BY <2>1
  <2>4. {} \in SUBSET {i} /\ {} \in SUBSET ({i} \ {}) /\ {i} \in SUBSET (({i} \ {}) \ {})
    OBVIOUS
  <2> QED
    BY <1>2, <2>1, <2>2, <2>3, <2>4, SettlingStep DEF Provisional
<1>5. CASE RetryInconclusive(i)
  BY <1>2, <1>5, TaskMoves DEF RetryInconclusive, Provisional, Place
<1> QED
  BY <1>3, <1>4, <1>5 DEF RetryStep

LEMMA EndingAccounts ==
  ASSUME TypeOK, Accounting, WakeGreylist \/ EndRetries \/ EndGreylist \/ Complete
  PROVE  Accounting'
<1>1. CASE WakeGreylist
  <2>1. EmailsAt("asleep") \in SUBSET Email /\ \A i \in EmailsAt("asleep") : at[i] = "asleep"
    BY DEF EmailsAt
  <2> QED
    BY <1>1, <2>1, TaskMoves DEF WakeGreylist, Provisional, Place
<1>2. CASE EndRetries \/ EndGreylist \/ Complete
  BY <1>2, QuietStep DEF EndRetries, EndGreylist, Complete
<1> QED
  BY <1>1, <1>2

\* At the start there is no result and every count is zero.
LEMMA InitAccounts == Init => Accounting
<1> SUFFICES ASSUME Init PROVE Accounting
  OBVIOUS
<1>1. \A i \in Email : verdict[i] = NoVerdict /\ at[i] = "input"
  BY DEF Init
<1>2. PlacesAgree
  BY <1>1 DEF PlacesAgree, NoVerdict, Unreported, Provisional
<1>3. \A f \in CountFields : counts[f] = 0
  BY DEF Init, NewCounts
<1>4. CountsAgree
  <2>1. \A s \in Statuses : With(s) = {}
    BY <1>1 DEF With, NoVerdict, Statuses
  <2>2. {i \in Email : verdict[i].promoted} = {} /\ {i \in Email : verdict[i].demoted} = {}
    BY <1>1 DEF NoVerdict
  <2> QED
    BY <1>3, <2>1, <2>2, FS_EmptySet DEF CountsAgree, CountFields
<1>5. counts["processed"] = Processed(BatchSize, counts)
  BY <1>3, SizeAssumption DEF Processed, Tallied, CountFields, Statuses
<1> QED
  BY <1>2, <1>4, <1>5 DEF Accounting

\* Places, results and counts agree in every state of every job.
THEOREM AccountingInvariant == Spec => []Accounting
<1>1. Init => Accounting
  BY InitAccounts
<1>2. TypeOK /\ Accounting /\ [Next]_vars => Accounting'
  <2> SUFFICES ASSUME TypeOK, Accounting, [Next]_vars PROVE Accounting'
    OBVIOUS
  <2>1. CASE Next
    BY <2>1, StageOneAccounts, DnsAccounts, CatchAllAccounts, MailboxAccounts,
       BetweenStagesAccounts, ScoreAccounts, RetryAccounts, EndingAccounts DEF Next
  <2>2. CASE UNCHANGED vars
    BY <2>2, QuietStep DEF vars
  <2> QED
    BY <2>1, <2>2
<1> QED
  BY <1>1, <1>2, TypeInvariant, PTL DEF Spec

\* Every count of the record is the number of results it claims to count
\* (increment_count and apply_score_count against add_result and the in-place
\* updates of Stage 4), at every step.
THEOREM CountsAlwaysAgree == Spec => []CountsAgree
<1>1. Accounting => CountsAgree
  BY DEF Accounting
<1> QED
  BY <1>1, AccountingInvariant, PTL

-----------------------------------------------------------------------------
(* "processed" is exact.                                                     *)

Judged == {i \in Email : verdict[i].status # "none"}

\* The five statuses split the emails that have a result.
LEMMA TallySplits ==
  ASSUME TypeOK, CountsAgree
  PROVE  Tallied(counts) = Cardinality(Judged)
<1>1. \A s \in Statuses : With(s) \in SUBSET Email /\ counts[s] = Cardinality(With(s))
  BY DEF With, CountsAgree
<1>2. \A s, t \in Statuses : s # t => With(s) \cap With(t) = {}
  BY DEF With
<1> DEFINE vi == With("valid") \cup With("invalid")
           rd == With("reserved") \cup With("do_not_use")
           four == vi \cup rd
<1>3. Cardinality(vi) = Cardinality(With("valid")) + Cardinality(With("invalid"))
  BY <1>1, <1>2, DisjointUnion DEF Statuses
<1>4. Cardinality(rd) = Cardinality(With("reserved")) + Cardinality(With("do_not_use"))
  BY <1>1, <1>2, DisjointUnion DEF Statuses
<1>5. Cardinality(four) = Cardinality(vi) + Cardinality(rd)
  <2>1. vi \subseteq Email /\ rd \subseteq Email /\ vi \cap rd = {}
    BY <1>1, <1>2 DEF Statuses
  <2> HIDE DEF vi, rd
  <2> QED
    BY <2>1, DisjointUnion
<1>6. Cardinality(four \cup With("duplicate")) = Cardinality(four) + Cardinality(With("duplicate"))
  <2>1. four \subseteq Email /\ With("duplicate") \subseteq Email /\ four \cap With("duplicate") = {}
    BY <1>1, <1>2 DEF Statuses
  <2> HIDE DEF four
  <2> QED
    BY <2>1, DisjointUnion
<1>7. four \cup With("duplicate") = Judged
  BY DEF With, Judged, TypeOK, Verdict, Statuses
<1>8. \A s \in Statuses : Cardinality(With(s)) \in Nat
  BY <1>1, EmailSets
<1> HIDE DEF vi, rd, four
<1>9. Cardinality(Judged) =
        ((Cardinality(With("valid")) + Cardinality(With("invalid")))
          + (Cardinality(With("reserved")) + Cardinality(With("do_not_use"))))
          + Cardinality(With("duplicate"))
  BY <1>3, <1>4, <1>5, <1>6, <1>7
<1> QED
  BY <1>1, <1>8, <1>9 DEF Tallied, Statuses

\* Fresh counts that agree with the results make "processed" exact: the clamp
\* of increment_count has nothing to cut.
LEMMA AccountingExact ==
  ASSUME TypeOK, Accounting
  PROVE  counts["processed"] = Cardinality(Judged)
<1>1. Tallied(counts) = Cardinality(Judged)
  BY TallySplits DEF Accounting
<1>2. Cardinality(Judged) <= BatchSize
  <2>1. IsFiniteSet(Email) /\ Judged \subseteq Email
    BY EmailSets DEF Judged
  <2>2. Cardinality(Email) = BatchSize
    BY SizeAssumption, FS_Interval DEF Email
  <2> QED
    BY <2>1, <2>2, FS_Subset
<1> QED
  BY <1>1, <1>2 DEF Accounting, Processed

\* "processed" (jobs.py, increment_count) is the number of emails that have a
\* verdict, at every step: the clamp to total never hides a double count.
THEOREM ProcessedAlwaysExact == Spec => []ProcessedExact
<1>1. TypeOK /\ Accounting => ProcessedExact
  BY AccountingExact DEF ProcessedExact, Judged
<1> QED
  BY <1>1, TypeInvariant, AccountingInvariant, PTL

-----------------------------------------------------------------------------
(* Verdicts are final.                                                       *)

\* What one step may do to one result.
Final(i) ==
  verdict'[i].status # verdict[i].status =>
    \/ verdict[i].status = "none"
    \/ verdict[i].status = "reserved" /\ verdict'[i].status \in {"valid", "invalid"}

\* A report touches only emails that had no result.
LEMMA ReportFinal ==
  ASSUME Accounting, NEW S \in SUBSET Email, \A i \in S : at[i] \in Unreported,
         NEW v, Report(S, v), NEW i \in Email
  PROVE  Final(i)
  BY DEF Report, Final, Accounting, PlacesAgree

LEMMA StageOneFinal ==
  ASSUME TypeOK, Accounting, StageOne, NEW i \in Email
  PROVE  Final(i)
<1>1. CASE Begin \/ ReadQueued \/ ReadUnstorable \/ Fail \/ EndStage1
  BY <1>1 DEF Begin, ReadQueued, ReadUnstorable, Fail, EndStage1, Final
<1>2. CASE ReadMalformed \/ ReadDuplicate \/ ReadListed \/ ReadFaulty
  <2>1. Reading /\ \E v : Report({cursor}, v)
    BY <1>2 DEF ReadMalformed, ReadDuplicate, ReadListed, ReadFaulty, StageOneVerdict
  <2> QED
    BY <2>1, AtCursor, ReportFinal DEF Unreported
<1> QED
  BY <1>1, <1>2 DEF StageOne

LEMMA TasksFinal ==
  ASSUME TypeOK, Accounting, NEW i \in Email,
         \/ \E d \in Domain : DnsStep(d)
         \/ \E d \in Domain : CatchAllStep(d)
         \/ \E j \in Email : MailboxStep(j)
         \/ EmitGreylisted
  PROVE  Final(i)
<1>1. ASSUME NEW d \in Domain, DnsStep(d) PROVE Final(i)
  <2>1. \A j \in Group(d) : at[j] \in Unreported
    BY DEF Group, EmailsAt, Unreported
  <2>2. CASE AcquireDns(d) \/ DnsMailHosts(d)
    BY <2>2 DEF AcquireDns, DnsMailHosts, Final
  <2>3. CASE DnsNoMail(d) \/ DnsAddressOnly(d) \/ DnsRaises(d)
    <3>1. \E v : Report(Group(d), v)
      BY <2>3 DEF DnsNoMail, DnsAddressOnly, DnsRaises, DnsSettles
    <3> QED
      BY <2>1, <3>1, ReportFinal DEF Group, EmailsAt
  <2> QED
    BY <1>1, <2>2, <2>3 DEF DnsStep
<1>2. ASSUME NEW d \in Domain, CatchAllStep(d) PROVE Final(i)
  <2>1. \A j \in Group(d) : at[j] \in Unreported
    BY DEF Group, EmailsAt, Unreported
  <2>2. CASE CatchAllYes(d)
    <3>1. \E v : Report(Group(d), v)
      BY <2>2 DEF CatchAllYes, ReportStage3
    <3> QED
      BY <2>1, <3>1, ReportFinal DEF Group, EmailsAt
  <2>3. CASE CatchAllNo(d)
    BY <2>3 DEF CatchAllNo, Final
  <2> QED
    BY <1>2, <2>2, <2>3 DEF CatchAllStep
<1>3. ASSUME NEW j \in Email, MailboxStep(j) PROVE Final(i)
  <2>1. CASE AcquireMailbox(j) \/ ProbeRetry(j)
    BY <2>1 DEF AcquireMailbox, ProbeRetry, Final
  <2>2. CASE ProbeNoHost(j) \/ ProbeExists(j) \/ ProbeRejected(j) \/ ProbeUnknown(j)
    <3>1. at[j] = "probing" /\ \E v : Report({j}, v)
      BY <2>2 DEF ProbeNoHost, ProbeExists, ProbeRejected, ProbeUnknown, ProbeSettles, ReportStage3
    <3> QED
      BY <3>1, ReportFinal DEF Unreported
  <2> QED
    BY <1>3, <2>1, <2>2 DEF MailboxStep
<1>4. ASSUME EmitGreylisted PROVE Final(i)
  <2>1. \E v : Report(EmailsAt("parked"), v)
    BY <1>4 DEF EmitGreylisted, ReportStage3
  <2> QED
    BY <2>1, ReportFinal DEF EmailsAt, Unreported
<1> QED
  BY <1>1, <1>2, <1>3, <1>4

\* Scoring and retrying touch only what is reserved.
LEMMA ScoreFinal ==
  ASSUME TypeOK, Accounting, NEW i \in Email,
         \/ \E b \in Batch, d \in Domain : ScoreStep(b, d)
         \/ \E j \in Email : RetryStep(j)
  PROVE  Final(i)
<1>1. at[i] \in Provisional => verdict[i].status = "reserved"
  BY DEF Accounting, PlacesAgree
<1>2. ASSUME NEW b \in Batch, NEW d \in Domain, ScoreStep(b, d) PROVE Final(i)
  <2>1. CASE AcquireWebsite(b, d)
    BY <2>1 DEF AcquireWebsite, Final
  <2>2. CASE ScoreDomain(b, d)
    <3>1. i \notin Refs(b, d) => verdict'[i] = verdict[i]
      BY <2>2 DEF ScoreDomain
    <3>2. \/ verdict'[i] = Scored(verdict[i], "valid", TRUE, FALSE)
          \/ verdict'[i] = Scored(verdict[i], "invalid", FALSE, TRUE)
          \/ verdict'[i] = Scored(verdict[i], "invalid", FALSE, FALSE)
          \/ verdict'[i] = Scored(verdict[i], verdict[i].status, FALSE, FALSE)
          \/ verdict'[i] = verdict[i]
      BY <2>2 DEF ScoreDomain
    <3>3. verdict'[i].status \in {"valid", "invalid", verdict[i].status}
      BY <3>2 DEF Scored
    <3>4. i \in Refs(b, d) => verdict[i].status = "reserved"
      BY <1>1 DEF Refs, EmailsAt, Batch, Provisional
    <3> QED
      BY <3>1, <3>3, <3>4 DEF Final
  <2> QED
    BY <1>2, <2>1, <2>2 DEF ScoreStep
<1>3. ASSUME NEW j \in Email, RetryStep(j) PROVE Final(i)
  <2>1. CASE RetryInconclusive(j)
    BY <2>1 DEF RetryInconclusive, Final
  <2>2. CASE RetryExists(j) \/ RetryRejected(j)
    <3>1. at[j] = "retrying"
      BY <2>2 DEF RetryExists, RetryRejected
    <3>2. i # j => verdict'[i] = verdict[i]
      BY <2>2 DEF RetryExists, RetryRejected, TypeOK
    <3>3. i = j => verdict'[i].status \in {"valid", "invalid"}
      BY <2>2 DEF RetryExists, RetryRejected, Retried, TypeOK
    <3> QED
      BY <1>1, <3>1, <3>2, <3>3 DEF Final, Provisional
  <2> QED
    BY <1>3, <2>1, <2>2 DEF RetryStep
<1> QED
  BY <1>2, <1>3

LEMMA StepFinal ==
  ASSUME TypeOK, Accounting, [Next]_vars, NEW i \in Email
  PROVE  Final(i)
<1>1. CASE UNCHANGED vars
  BY <1>1 DEF vars, Final
<1>2. CASE StartStage3 \/ EmitProgress \/ PublishStage3 \/ EnterStage4 \/ WakeGreylist \/ EndRetries
           \/ EndGreylist \/ Complete
  BY <1>2 DEF StartStage3, EmitProgress, PublishStage3, EnterStage4, WakeGreylist, EndRetries,
              EndGreylist, Complete, Final
<1> QED
  BY <1>1, <1>2, StageOneFinal, TasksFinal, ScoreFinal DEF Next

\* No coroutine overwrites a verdict that has left "reserved", and a reserved
\* result becomes only valid or invalid (runner.py, Stage 4's two coroutines).
THEOREM VerdictsAreFinal == Spec => VerdictsFinal
<1>1. TypeOK /\ Accounting /\ [Next]_vars =>
        [\A i \in Email : verdict'[i].status # verdict[i].status =>
           \/ verdict[i].status = "none"
           \/ verdict[i].status = "reserved" /\ verdict'[i].status \in {"valid", "invalid"}]_vars
  BY StepFinal DEF Final
<1> QED
  BY <1>1, TypeInvariant, AccountingInvariant, PTL DEF Spec, VerdictsFinal

\* The count behind the progress bar never falls.
THEOREM ProcessedIsMonotone == Spec => ProcessedNeverFalls
<1>1. (TypeOK /\ Accounting)' => (counts["processed"] = Cardinality(Judged))'
  <2>1. TypeOK /\ Accounting => counts["processed"] = Cardinality(Judged)
    BY AccountingExact
  <2> QED
    BY <2>1, PTL
<1>2. TypeOK /\ Accounting /\ TypeOK' /\ Accounting' /\ [Next]_vars =>
        [counts'["processed"] >= counts["processed"]]_vars
  <2> SUFFICES ASSUME TypeOK, Accounting, TypeOK', Accounting', [Next]_vars
               PROVE  counts'["processed"] >= counts["processed"]
    OBVIOUS
  <2>1. counts["processed"] = Cardinality(Judged)
    BY AccountingExact
  <2>2. counts'["processed"] = Cardinality(Judged')
    BY <1>1
  <2>3. Judged \subseteq Judged'
    BY StepFinal DEF Judged, Final
  <2>4. IsFiniteSet(Judged') /\ Cardinality(Judged') \in Nat /\ Cardinality(Judged) \in Nat
    <3>1. Judged \subseteq Email /\ Judged' \subseteq Email
      BY DEF Judged
    <3> QED
      BY <3>1, EmailSets
  <2>5. Cardinality(Judged) <= Cardinality(Judged')
    BY <2>3, <2>4, FS_Subset
  <2> QED
    BY <2>1, <2>2, <2>4, <2>5
<1> QED
  BY <1>2, TypeInvariant, AccountingInvariant, PTL DEF Spec, ProcessedNeverFalls

-----------------------------------------------------------------------------
(* The first of equal addresses.                                             *)

\* What one step may not do to one result, outside ReadDuplicate.
NotMarked(i) == verdict'[i].status = "duplicate" => verdict[i].status = "duplicate"

LEMMA ReportMarksNone ==
  ASSUME NEW S, NEW s, NEW sub, NEW stage, s # "duplicate",
         Report(S, Result(s, sub, stage)), NEW i \in Email
  PROVE  NotMarked(i)
  BY DEF Report, Result, NotMarked

LEMMA StageOneMarks ==
  ASSUME StageOne, ~ReadDuplicate, NEW i \in Email
  PROVE  NotMarked(i)
<1>1. CASE Begin \/ ReadQueued \/ ReadUnstorable \/ Fail \/ EndStage1
  BY <1>1 DEF Begin, ReadQueued, ReadUnstorable, Fail, EndStage1, NotMarked
<1>2. CASE ReadMalformed
  BY <1>2, ReportMarksNone DEF ReadMalformed, StageOneVerdict
<1>3. CASE ReadListed
  <2>1. PICK k \in 1 .. 3 : StageOneVerdict(Result(ListChecks[k].status, ListChecks[k].sub, 1))
    BY <1>3 DEF ReadListed
  <2>2. ListChecks[k].status # "duplicate"
    <3>1. k = 1 \/ k = 2 \/ k = 3
      OBVIOUS
    <3> QED
      BY <3>1 DEF ListChecks
  <2> QED
    BY <2>1, <2>2, ReportMarksNone DEF StageOneVerdict
<1>4. CASE ReadFaulty
  BY <1>4, ReportMarksNone DEF ReadFaulty, StageOneVerdict
<1> QED
  BY <1>1, <1>2, <1>3, <1>4 DEF StageOne

LEMMA TasksMarkNone ==
  ASSUME NEW i \in Email,
         \/ \E d \in Domain : DnsStep(d)
         \/ \E d \in Domain : CatchAllStep(d)
         \/ \E j \in Email : MailboxStep(j)
         \/ EmitGreylisted
  PROVE  NotMarked(i)
<1>1. ASSUME NEW d \in Domain, DnsStep(d) PROVE NotMarked(i)
  <2>1. CASE AcquireDns(d) \/ DnsMailHosts(d)
    BY <2>1 DEF AcquireDns, DnsMailHosts, NotMarked
  <2>2. CASE DnsNoMail(d)
    BY <2>2, ReportMarksNone DEF DnsNoMail, DnsSettles
  <2>3. CASE DnsAddressOnly(d)
    BY <2>3, ReportMarksNone DEF DnsAddressOnly, DnsSettles
  <2>4. CASE DnsRaises(d)
    BY <2>4, ReportMarksNone DEF DnsRaises, DnsSettles
  <2> QED
    BY <1>1, <2>1, <2>2, <2>3, <2>4 DEF DnsStep
<1>2. ASSUME NEW d \in Domain, CatchAllStep(d) PROVE NotMarked(i)
  <2>1. CASE CatchAllYes(d)
    BY <2>1, ReportMarksNone DEF CatchAllYes, ReportStage3
  <2>2. CASE CatchAllNo(d)
    BY <2>2 DEF CatchAllNo, NotMarked
  <2> QED
    BY <1>2, <2>1, <2>2 DEF CatchAllStep
<1>3. ASSUME NEW j \in Email, MailboxStep(j) PROVE NotMarked(i)
  <2>1. CASE AcquireMailbox(j) \/ ProbeRetry(j)
    BY <2>1 DEF AcquireMailbox, ProbeRetry, NotMarked
  <2>2. CASE ProbeNoHost(j)
    BY <2>2, ReportMarksNone DEF ProbeNoHost, ProbeSettles, ReportStage3
  <2>3. CASE ProbeExists(j)
    BY <2>3, ReportMarksNone DEF ProbeExists, ProbeSettles, ReportStage3
  <2>4. CASE ProbeRejected(j)
    BY <2>4, ReportMarksNone DEF ProbeRejected, ProbeSettles, ReportStage3
  <2>5. CASE ProbeUnknown(j)
    BY <2>5, ReportMarksNone DEF ProbeUnknown, ProbeSettles, ReportStage3
  <2> QED
    BY <1>3, <2>1, <2>2, <2>3, <2>4, <2>5 DEF MailboxStep
<1>4. ASSUME EmitGreylisted PROVE NotMarked(i)
  BY <1>4, ReportMarksNone DEF EmitGreylisted, ReportStage3
<1> QED
  BY <1>1, <1>2, <1>3, <1>4

LEMMA ScoreMarksNone ==
  ASSUME TypeOK, NEW i \in Email,
         \/ \E b \in Batch, d \in Domain : ScoreStep(b, d)
         \/ \E j \in Email : RetryStep(j)
  PROVE  NotMarked(i)
<1>1. ASSUME NEW b \in Batch, NEW d \in Domain, ScoreStep(b, d) PROVE NotMarked(i)
  <2>1. CASE AcquireWebsite(b, d)
    BY <2>1 DEF AcquireWebsite, NotMarked
  <2>2. CASE ScoreDomain(b, d)
    <3>1. \/ verdict'[i] = Scored(verdict[i], "valid", TRUE, FALSE)
          \/ verdict'[i] = Scored(verdict[i], "invalid", FALSE, TRUE)
          \/ verdict'[i] = Scored(verdict[i], "invalid", FALSE, FALSE)
          \/ verdict'[i] = Scored(verdict[i], verdict[i].status, FALSE, FALSE)
          \/ verdict'[i] = verdict[i]
      BY <2>2 DEF ScoreDomain
    <3> QED
      BY <3>1 DEF Scored, NotMarked
  <2> QED
    BY <1>1, <2>1, <2>2 DEF ScoreStep
<1>2. ASSUME NEW j \in Email, RetryStep(j) PROVE NotMarked(i)
  <2>1. \/ verdict'[i] = Retried(verdict[j], "valid", "smtp_confirmed", TRUE)
        \/ verdict'[i] = Retried(verdict[j], "invalid", "mailbox_not_found", FALSE)
        \/ verdict'[i] = verdict[i]
    BY <1>2 DEF RetryStep, RetryExists, RetryRejected, RetryInconclusive, TypeOK
  <2> QED
    BY <2>1 DEF Retried, NotMarked
<1> QED
  BY <1>1, <1>2

\* Only ReadDuplicate marks a result as a duplicate.
LEMMA StepMarksNone ==
  ASSUME TypeOK, [Next]_vars, ~ReadDuplicate, NEW i \in Email
  PROVE  NotMarked(i)
<1>1. CASE UNCHANGED vars
  BY <1>1 DEF vars, NotMarked
<1>2. CASE StartStage3 \/ EmitProgress \/ PublishStage3 \/ EnterStage4 \/ WakeGreylist \/ EndRetries
           \/ EndGreylist \/ Complete
  BY <1>2 DEF StartStage3, EmitProgress, PublishStage3, EnterStage4, WakeGreylist, EndRetries,
              EndGreylist, Complete, NotMarked
<1> QED
  BY <1>1, <1>2, StageOneMarks, TasksMarkNone, ScoreMarksNone DEF Next

\* What `seen` remembers: an entry behind the cursor that is no duplicate.
SeenFirst ==
  \A a \in seen : \E j \in Email : j < cursor /\ raw[j] = a /\ verdict[j].status # "duplicate"

\* `seen` and the cursor move together, and never otherwise.
LEMMA SeenGrows ==
  ASSUME [Next]_vars
  PROVE  /\ raw' = raw
         /\ \/ cursor' = cursor /\ seen' = seen
            \/ Reading /\ cursor' = cursor + 1 /\ seen' \in {seen, seen \cup {Current}}
<1>1. CASE UNCHANGED vars
  BY <1>1 DEF vars
<1>2. CASE StageOne
  BY <1>2 DEF StageOne, Begin, ReadMalformed, ReadDuplicate, ReadListed, ReadQueued, ReadFaulty,
              ReadUnstorable, Fail, EndStage1, StageOneVerdict
<1>3. ASSUME NEW d \in Domain, DnsStep(d) \/ CatchAllStep(d)
      PROVE  UNCHANGED <<raw, cursor, seen>>
  BY <1>3 DEF DnsStep, AcquireDns, DnsNoMail, DnsAddressOnly, DnsRaises, DnsSettles, DnsMailHosts,
              CatchAllStep, CatchAllYes, CatchAllNo
<1>4. ASSUME NEW i \in Email, MailboxStep(i) \/ RetryStep(i)
      PROVE  UNCHANGED <<raw, cursor, seen>>
  BY <1>4 DEF MailboxStep, AcquireMailbox, ProbeNoHost, ProbeExists, ProbeRejected, ProbeUnknown,
              ProbeSettles, ProbeRetry, RetryStep, RetryExists, RetryRejected, RetryInconclusive
<1>5. ASSUME NEW b \in Batch, NEW d \in Domain, ScoreStep(b, d)
      PROVE  UNCHANGED <<raw, cursor, seen>>
  BY <1>5 DEF ScoreStep, AcquireWebsite, ScoreDomain
<1>6. CASE StartStage3 \/ EmitGreylisted \/ EmitProgress \/ PublishStage3 \/ EnterStage4 \/ WakeGreylist
           \/ EndRetries \/ EndGreylist \/ Complete
  BY <1>6 DEF StartStage3, EmitGreylisted, EmitProgress, PublishStage3, EnterStage4, WakeGreylist,
              EndRetries, EndGreylist, Complete
<1> QED
  BY <1>1, <1>2, <1>3, <1>4, <1>5, <1>6 DEF Next

LEMMA SeenFirstStep ==
  ASSUME TypeOK, Accounting, SeenFirst, [Next]_vars
  PROVE  SeenFirst'
<1> SUFFICES ASSUME NEW a \in seen'
             PROVE  \E j \in Email : j < cursor' /\ raw'[j] = a /\ verdict'[j].status # "duplicate"
  BY DEF SeenFirst
<1>1. /\ raw' = raw
      /\ \/ cursor' = cursor /\ seen' = seen
         \/ Reading /\ cursor' = cursor + 1 /\ seen' \in {seen, seen \cup {Current}}
  BY SeenGrows
<1>2. cursor \in Int /\ cursor' \in Int /\ cursor <= cursor' /\ Email \subseteq Int
  BY <1>1, SizeAssumption DEF TypeOK, Email
<1>3. CASE a \in seen
  <2>1. PICK j \in Email : j < cursor /\ raw[j] = a /\ verdict[j].status # "duplicate"
    BY <1>3 DEF SeenFirst
  <2>2. CASE ReadDuplicate
    <3>1. verdict'[j] = verdict[j]
      BY <1>2, <2>1, <2>2 DEF ReadDuplicate, StageOneVerdict, Report
    <3> QED
      BY <1>1, <1>2, <2>1, <3>1
  <2>3. CASE ~ReadDuplicate
    <3>1. verdict'[j].status # "duplicate"
      BY <2>1, <2>3, StepMarksNone DEF NotMarked
    <3> QED
      BY <1>1, <1>2, <2>1, <3>1
  <2> QED
    BY <2>2, <2>3
<1>4. CASE a \notin seen
  <2>1. Reading /\ cursor' = cursor + 1 /\ a = Current /\ seen' # seen
    BY <1>1, <1>4
  <2>2. cursor \in Email /\ verdict[cursor].status = "none"
    BY <2>1, AtCursor
  <2>3. ~ReadDuplicate
    BY <2>1 DEF ReadDuplicate
  <2>4. verdict'[cursor].status # "duplicate"
    BY <2>2, <2>3, StepMarksNone DEF NotMarked
  <2> QED
    BY <1>1, <1>2, <2>1, <2>2, <2>4 DEF Current
<1> QED
  BY <1>3, <1>4

\* An entry is marked a duplicate only when an earlier entry of the batch is
\* not, whatever became of it (is_duplicate in the Stage-1 loop).
THEOREM FirstAlwaysWins == Spec => []FirstWins
<1>1. Init => SeenFirst /\ FirstWins
  BY DEF Init, SeenFirst, FirstWins, NoVerdict
<1>2. TypeOK /\ Accounting /\ SeenFirst /\ FirstWins /\ [Next]_vars => FirstWins'
  <2> SUFFICES ASSUME TypeOK, Accounting, SeenFirst, FirstWins, [Next]_vars,
                      NEW i \in Email, verdict'[i].status = "duplicate"
               PROVE  \E j \in 1 .. i - 1 : raw'[j] = raw'[i] /\ verdict'[j].status # "duplicate"
    BY DEF FirstWins
  <2>0. raw' = raw /\ Email \subseteq Int /\ \A j \in Email : 1 <= j
    BY SeenGrows DEF Email
  <2>1. ASSUME verdict[i].status = "duplicate"
        PROVE  \E j \in 1 .. i - 1 : raw[j] = raw[i] /\ verdict'[j].status # "duplicate"
    <3>1. PICK j \in 1 .. i - 1 : raw[j] = raw[i] /\ verdict[j].status # "duplicate"
      BY <2>1 DEF FirstWins
    <3>2. j \in Email /\ j < i /\ i < cursor
      BY <2>1, SizeAssumption DEF Email, Accounting, PlacesAgree, Unreported, TypeOK
    <3>3. CASE ReadDuplicate
      <4>1. verdict'[j] = verdict[j]
        BY <3>2, <3>3, SizeAssumption DEF ReadDuplicate, StageOneVerdict, Report, TypeOK, Email
      <4> QED
        BY <3>1, <4>1
    <3>4. CASE ~ReadDuplicate
      BY <3>1, <3>2, <3>4, StepMarksNone DEF NotMarked
    <3> QED
      BY <3>3, <3>4
  <2>2. ASSUME verdict[i].status # "duplicate"
        PROVE  \E j \in 1 .. i - 1 : raw[j] = raw[i] /\ verdict'[j].status # "duplicate"
    <3>1. ReadDuplicate /\ i = cursor
      <4>1. ReadDuplicate
        BY <2>2, StepMarksNone DEF NotMarked
      <4>2. i # cursor => verdict'[i] = verdict[i]
        BY <4>1 DEF ReadDuplicate, StageOneVerdict, Report
      <4> QED
        BY <2>2, <4>1, <4>2
    <3>2. PICK j \in Email : j < cursor /\ raw[j] = raw[i] /\ verdict[j].status # "duplicate"
      BY <3>1 DEF SeenFirst, ReadDuplicate, Current
    <3>3. verdict'[j] = verdict[j]
      BY <3>1, <3>2, <2>0 DEF ReadDuplicate, StageOneVerdict, Report
    <3>4. j \in 1 .. i - 1
      BY <2>0, <3>1, <3>2
    <3> QED
      BY <3>2, <3>3, <3>4
  <2> QED
    BY <2>0, <2>1, <2>2
<1> QED
  BY <1>1, <1>2, SeenFirstStep, TypeInvariant, AccountingInvariant, PTL DEF Spec

-----------------------------------------------------------------------------
(* One probe for an address.                                                 *)

\* An entry that a mail server is asked about, or will be asked about again.
Claimed(i) == at[i] \in InFlight \/ verdict[i].sub = "greylisted"

\* The claims are those of addresses in `seen`, one for each.
ClaimedOnce ==
  \A i \in Email : Claimed(i) =>
    /\ raw[i] \in seen
    /\ \A j \in Email : Claimed(j) /\ raw[i] = raw[j] => i = j

\* A report that settles its emails claims nothing.
LEMMA ReportClaims ==
  ASSUME NEW S, NEW s, NEW sub, NEW stage, sub # "greylisted",
         Report(S, Result(s, sub, stage)), Move(S, "settled"), NEW i \in Email
  PROVE  Claimed(i)' => Claimed(i)
  BY DEF Report, Move, Result, Claimed, InFlight

LEMMA StageOneClaims ==
  ASSUME StageOne, ~ReadQueued, NEW i \in Email
  PROVE  Claimed(i)' => Claimed(i)
<1>1. CASE Begin \/ ReadUnstorable \/ Fail \/ EndStage1
  BY <1>1 DEF Begin, ReadUnstorable, Fail, EndStage1, Claimed
<1>2. CASE ReadMalformed
  BY <1>2, ReportClaims DEF ReadMalformed, StageOneVerdict
<1>3. CASE ReadDuplicate
  BY <1>3, ReportClaims DEF ReadDuplicate, StageOneVerdict
<1>4. CASE ReadListed
  <2>1. PICK k \in 1 .. 3 : StageOneVerdict(Result(ListChecks[k].status, ListChecks[k].sub, 1))
    BY <1>4 DEF ReadListed
  <2>2. ListChecks[k].sub # "greylisted"
    <3>1. k = 1 \/ k = 2 \/ k = 3
      OBVIOUS
    <3> QED
      BY <3>1 DEF ListChecks
  <2> QED
    BY <2>1, <2>2, ReportClaims DEF StageOneVerdict
<1>5. CASE ReadFaulty
  BY <1>5, ReportClaims DEF ReadFaulty, StageOneVerdict
<1> QED
  BY <1>1, <1>2, <1>3, <1>4, <1>5 DEF StageOne

LEMMA TasksClaim ==
  ASSUME TypeOK, NEW i \in Email,
         \/ \E d \in Domain : DnsStep(d)
         \/ \E d \in Domain : CatchAllStep(d)
         \/ \E j \in Email : MailboxStep(j)
         \/ EmitGreylisted
  PROVE  Claimed(i)' => Claimed(i)
<1>1. ASSUME NEW d \in Domain, DnsStep(d) PROVE Claimed(i)' => Claimed(i)
  <2>1. CASE AcquireDns(d) \/ DnsMailHosts(d)
    BY <2>1 DEF AcquireDns, DnsMailHosts, Claimed
  <2>2. CASE DnsNoMail(d)
    BY <2>2, ReportClaims DEF DnsNoMail, DnsSettles
  <2>3. CASE DnsAddressOnly(d)
    BY <2>3, ReportClaims DEF DnsAddressOnly, DnsSettles
  <2>4. CASE DnsRaises(d)
    BY <2>4, ReportClaims DEF DnsRaises, DnsSettles
  <2> QED
    BY <1>1, <2>1, <2>2, <2>3, <2>4 DEF DnsStep
<1>2. ASSUME NEW d \in Domain, CatchAllStep(d) PROVE Claimed(i)' => Claimed(i)
  <2>1. CASE CatchAllYes(d)
    BY <2>1, ReportClaims DEF CatchAllYes, ReportStage3
  <2>2. CASE CatchAllNo(d)
    BY <2>2 DEF CatchAllNo, Move, Group, EmailsAt, Claimed, InFlight
  <2> QED
    BY <1>2, <2>1, <2>2 DEF CatchAllStep
<1>3. ASSUME NEW j \in Email, MailboxStep(j) PROVE Claimed(i)' => Claimed(i)
  <2>1. CASE AcquireMailbox(j) \/ ProbeRetry(j)
    BY <2>1 DEF AcquireMailbox, ProbeRetry, Move, Claimed, InFlight
  <2>2. CASE ProbeNoHost(j)
    BY <2>2, ReportClaims DEF ProbeNoHost, ProbeSettles, ReportStage3
  <2>3. CASE ProbeExists(j)
    BY <2>3, ReportClaims DEF ProbeExists, ProbeSettles, ReportStage3
  <2>4. CASE ProbeRejected(j)
    BY <2>4, ReportClaims DEF ProbeRejected, ProbeSettles, ReportStage3
  <2>5. CASE ProbeUnknown(j)
    BY <2>5, ReportClaims DEF ProbeUnknown, ProbeSettles, ReportStage3
  <2> QED
    BY <1>3, <2>1, <2>2, <2>3, <2>4, <2>5 DEF MailboxStep
<1>4. ASSUME EmitGreylisted PROVE Claimed(i)' => Claimed(i)
  BY <1>4 DEF EmitGreylisted, ReportStage3, Report, Move, EmailsAt, Claimed, InFlight
<1> QED
  BY <1>1, <1>2, <1>3, <1>4

LEMMA Stage4Claims ==
  ASSUME TypeOK, NEW i \in Email,
         \/ EnterStage4 \/ WakeGreylist \/ EndRetries \/ EndGreylist \/ Complete
         \/ \E b \in Batch, d \in Domain : ScoreStep(b, d)
         \/ \E j \in Email : RetryStep(j)
  PROVE  Claimed(i)' => Claimed(i)
<1>1. CASE EnterStage4
  BY <1>1 DEF EnterStage4, Greylisted, Claimed, InFlight
<1>2. CASE WakeGreylist
  BY <1>2 DEF WakeGreylist, Move, EmailsAt, Claimed, InFlight
<1>3. CASE EndRetries \/ EndGreylist \/ Complete
  BY <1>3 DEF EndRetries, EndGreylist, Complete, Claimed
<1>4. ASSUME NEW b \in Batch, NEW d \in Domain, ScoreStep(b, d) PROVE Claimed(i)' => Claimed(i)
  <2>1. CASE AcquireWebsite(b, d)
    BY <2>1 DEF AcquireWebsite, Claimed
  <2>2. CASE ScoreDomain(b, d)
    <3>1. \/ verdict'[i] = Scored(verdict[i], "valid", TRUE, FALSE)
          \/ verdict'[i] = Scored(verdict[i], "invalid", FALSE, TRUE)
          \/ verdict'[i] = Scored(verdict[i], "invalid", FALSE, FALSE)
          \/ verdict'[i] = Scored(verdict[i], verdict[i].status, FALSE, FALSE)
          \/ verdict'[i] = verdict[i]
      BY <2>2 DEF ScoreDomain
    <3>2. verdict'[i].sub = verdict[i].sub
      BY <3>1 DEF Scored
    <3>3. at'[i] \in {at[i], "settled"}
      BY <2>2 DEF ScoreDomain, Move
    <3> QED
      BY <3>2, <3>3 DEF Claimed, InFlight
  <2> QED
    BY <1>4, <2>1, <2>2 DEF ScoreStep
<1>5. ASSUME NEW j \in Email, RetryStep(j) PROVE Claimed(i)' => Claimed(i)
  <2>1. \/ verdict'[i] = Retried(verdict[j], "valid", "smtp_confirmed", TRUE)
        \/ verdict'[i] = Retried(verdict[j], "invalid", "mailbox_not_found", FALSE)
        \/ verdict'[i] = verdict[i]
    BY <1>5 DEF RetryStep, RetryExists, RetryRejected, RetryInconclusive, TypeOK
  <2>2. at[j] = "retrying" /\ at'[i] \in {at[i], IF i = j THEN "still" ELSE at[i], "settled"}
    BY <1>5 DEF RetryStep, RetryExists, RetryRejected, RetryInconclusive, Move
  <2> QED
    BY <2>1, <2>2 DEF Retried, Claimed, InFlight
<1> QED
  BY <1>1, <1>2, <1>3, <1>4, <1>5

\* Only ReadQueued makes a claim.
LEMMA StepClaims ==
  ASSUME TypeOK, [Next]_vars, ~ReadQueued, NEW i \in Email
  PROVE  Claimed(i)' => Claimed(i)
<1>1. CASE UNCHANGED vars \/ StartStage3 \/ EmitProgress \/ PublishStage3
  BY <1>1 DEF vars, StartStage3, EmitProgress, PublishStage3, Claimed
<1> QED
  BY <1>1, StageOneClaims, TasksClaim, Stage4Claims DEF Next

LEMMA ClaimedOnceStep ==
  ASSUME TypeOK, ClaimedOnce, [Next]_vars
  PROVE  ClaimedOnce'
<1>1. raw' = raw /\ seen \subseteq seen'
  BY SeenGrows
<1>2. CASE ~ReadQueued
  <2>1. \A i \in Email : Claimed(i)' => Claimed(i)
    BY <1>2, StepClaims
  <2> QED
    BY <1>1, <2>1 DEF ClaimedOnce
<1>3. CASE ReadQueued
  <2>1. /\ Current \notin seen /\ seen' = seen \cup {Current}
        /\ verdict' = verdict /\ Move({cursor}, "domain")
    BY <1>3 DEF ReadQueued
  <2>2. \A i \in Email : i # cursor => (Claimed(i)' <=> Claimed(i))
    BY <2>1 DEF Move, Claimed
  <2>3. \A i \in Email : Claimed(i) => raw[i] # raw[cursor]
    BY <2>1 DEF ClaimedOnce, Current
  <2> HIDE DEF ClaimedOnce
  <2> SUFFICES ASSUME NEW i \in Email, Claimed(i)'
               PROVE  /\ raw[i] \in seen'
                      /\ \A j \in Email : Claimed(j)' /\ raw[i] = raw[j] => i = j
    BY <1>1 DEF ClaimedOnce
  <2>4. raw[i] \in seen'
    BY <1>1, <2>1, <2>2 DEF ClaimedOnce, Current
  <2>5. ASSUME NEW j \in Email, Claimed(j)', raw[i] = raw[j] PROVE i = j
    <3>1. (i = cursor \/ Claimed(i)) /\ (j = cursor \/ Claimed(j))
      BY <2>2, <2>5
    <3> QED
      BY <2>3, <2>5, <3>1 DEF ClaimedOnce
  <2> QED
    BY <2>4, <2>5
<1> QED
  BY <1>2, <1>3

\* A job asks about an address on behalf of one entry: no two entries with
\* one address are ever on their way to a mail server or waiting for the
\* second try (the `seen` set of run_pipeline).
THEOREM EachAddressProbedOnce == Spec => []ProbedOnce
<1>1. Init => ClaimedOnce
  BY DEF Init, ClaimedOnce, Claimed, InFlight, NoVerdict
<1>2. ClaimedOnce => ProbedOnce
  BY DEF ClaimedOnce, Claimed, ProbedOnce
<1> QED
  BY <1>1, <1>2, ClaimedOnceStep, TypeInvariant, PTL DEF Spec

-----------------------------------------------------------------------------
(* The invariant.                                                            *)

\* Stage 1 is running, or the job failed in it.
Early == pc \in {"start", "read", "raised"} \/ status = "failed"

\* Stage 4 is running or has finished the job.
Scoring == pc = "score" \/ status = "complete"

\* The job record, run_pipeline and the greylist coroutine agree.
JobAgrees ==
  /\ status \in {"complete", "failed"} <=> pc = "end"
  /\ pc = "raised" \/ status = "failed" => cursor <= BatchSize
  /\ ~Scoring => retry = "idle"
  /\ status = "complete" => retry = "done"

\* The tasks of a domain exist only in their stage.
DomainAgrees(d) ==
  /\ Early => dom[d] = "idle"
  /\ dom[d] \in {"queued", "resolving", "hosted"} => pc = "dns"
  /\ dom[d] = "catchall" => pc = "smtp"
  /\ ~Scoring => \A b \in Batch : fetch[b][d] = "idle"
  /\ retry \in {"asleep", "retrying"} => fetch["still"][d] = "idle"
  /\ retry = "done" => fetch["still"][d] \in {"idle", "done"}
  /\ status = "complete" => fetch["rest"][d] \in {"idle", "done"}

\* In Stage 4 some coroutine still answers for an email, or its verdict stands.
InStage4(i) ==
  LET d == DomainOfEmail(i)
  IN  \/ /\ at[i] = "rest" /\ verdict[i].sub # "greylisted"
         /\ fetch["rest"][d] \in {"waiting", "fetching"}
      \/ at[i] = "asleep" /\ retry = "asleep"
      \/ at[i] = "retrying" /\ retry = "retrying"
      \/ at[i] = "still" /\ retry = "retrying"
      \/ /\ at[i] = "still" /\ retry = "scoring"
         /\ fetch["still"][d] \in {"waiting", "fetching"}
      \/ /\ at[i] = "settled"
         /\ verdict[i].status = "reserved" => verdict[i].stage = 4
         /\ verdict[i].status = "reserved" /\ verdict[i].sub = "greylisted" =>
              fetch["still"][d] = "done"

\* An email is where the stage of the job and the task of its domain put it.
EmailAgrees(i) ==
  /\ Early => at[i] \in {"input", "domain", "settled"} /\ (i < cursor => at[i] # "input")
  /\ pc = "dns" =>
       \/ at[i] = "settled"
       \/ at[i] = "domain" /\ dom[DomainOfEmail(i)] \in {"queued", "resolving", "hosted"}
  /\ pc = "smtp" =>
       \/ at[i] \in {"mailbox", "probing", "parked", "settled"}
       \/ at[i] = "domain" /\ dom[DomainOfEmail(i)] = "catchall"
  /\ pc \in {"publish", "announce", "split"} => at[i] = "settled"
  /\ Scoring => InStage4(i)

Lifecycle ==
  /\ JobAgrees
  /\ \A d \in Domain : DomainAgrees(d)
  /\ \A i \in Email : EmailAgrees(i)

-----------------------------------------------------------------------------
(* Stage 1.                                                                  *)

\* The loop has dealt with one more email, at most reporting it.
LEMMA ReadLives ==
  ASSUME TypeOK, Lifecycle, Reading, NEW place \in {"domain", "settled"},
         Move({cursor}, place), cursor' = cursor + 1,
         UNCHANGED <<raw, status, pc, dom, fetch, retry>>
  PROVE  Lifecycle'
<1>1. pc = "read" /\ status \notin {"complete", "failed"}
  BY DEF Reading, Lifecycle, JobAgrees
<1>2. JobAgrees'
  BY <1>1 DEF Lifecycle, JobAgrees, Scoring
<1>3. ASSUME NEW d \in Domain PROVE DomainAgrees(d)'
  BY <1>1 DEF Lifecycle, DomainAgrees, Scoring, Early
<1>4. ASSUME NEW i \in Email PROVE EmailAgrees(i)'
  <2>1. EmailAgrees(i) /\ i \in Int /\ cursor \in Int
    BY DEF Lifecycle, TypeOK, Email
  <2>2. at'[i] = IF i = cursor THEN place ELSE at[i]
    BY DEF Move
  <2> QED
    BY <1>1, <2>1, <2>2 DEF EmailAgrees, Scoring, Early
<1> QED
  BY <1>2, <1>3, <1>4 DEF Lifecycle

LEMMA StageOneLives ==
  ASSUME TypeOK, Lifecycle, StageOne
  PROVE  Lifecycle'
<1>1. CASE Begin \/ ReadUnstorable \/ Fail
  <2>0. pc \in {"start", "read", "raised"} /\ status \notin {"complete", "failed"}
    BY <1>1 DEF Begin, ReadUnstorable, Reading, Fail, Lifecycle, JobAgrees
  <2>1. JobAgrees'
    BY <1>1, <2>0 DEF Begin, ReadUnstorable, Reading, Fail, Lifecycle, JobAgrees, Scoring
  <2>2. ASSUME NEW d \in Domain PROVE DomainAgrees(d)'
    BY <1>1, <2>0 DEF Begin, ReadUnstorable, Reading, Fail, Lifecycle, DomainAgrees, Scoring, Early
  <2>3. ASSUME NEW i \in Email PROVE EmailAgrees(i)'
    <3>1. EmailAgrees(i)
      BY DEF Lifecycle
    <3> QED
      BY <1>1, <2>0, <3>1 DEF Begin, ReadUnstorable, Reading, Fail, EmailAgrees, Scoring, Early
  <2> QED
    BY <2>1, <2>2, <2>3 DEF Lifecycle
<1>2. CASE ReadMalformed \/ ReadDuplicate \/ ReadListed \/ ReadFaulty
  BY <1>2, ReadLives DEF ReadMalformed, ReadDuplicate, ReadListed, ReadFaulty, StageOneVerdict
<1>3. CASE ReadQueued
  BY <1>3, ReadLives DEF ReadQueued
<1>4. CASE EndStage1
  <2>0. pc = "read" /\ status \notin {"complete", "failed"}
    BY <1>4 DEF EndStage1, Lifecycle, JobAgrees
  <2>1. JobAgrees'
    BY <1>4, <2>0 DEF EndStage1, Lifecycle, JobAgrees, Scoring
  <2>2. ASSUME NEW d \in Domain PROVE DomainAgrees(d)'
    BY <1>4, <2>0 DEF EndStage1, Lifecycle, DomainAgrees, Scoring, Early
  <2>3. ASSUME NEW i \in Email PROVE EmailAgrees(i)'
    <3>1. EmailAgrees(i) /\ i < cursor
      BY <1>4, SizeAssumption DEF Lifecycle, EndStage1, Email
    <3>2. at[i] \in {"domain", "settled"}
      BY <2>0, <3>1 DEF EmailAgrees, Early
    <3>3. at[i] = "domain" => dom'[DomainOfEmail(i)] = "queued"
      <4>1. DomainOfEmail(i) \in Domain
        BY AddressAssumption DEF DomainOfEmail, TypeOK
      <4> QED
        BY <1>4, <4>1 DEF EndStage1, Group, EmailsAt
    <3> QED
      BY <1>4, <2>0, <3>2, <3>3 DEF EndStage1, EmailAgrees, Scoring, Early, DomainOfEmail
  <2> QED
    BY <2>1, <2>2, <2>3 DEF Lifecycle
<1> QED
  BY <1>1, <1>2, <1>3, <1>4 DEF StageOne

-----------------------------------------------------------------------------
(* Stages 2 and 3.                                                           *)

LEMMA EmailDomain ==
  ASSUME TypeOK, NEW i \in Email
  PROVE  DomainOfEmail(i) \in Domain
  BY AddressAssumption DEF DomainOfEmail, TypeOK

\* A task of Stage 2 or 3 is done with its whole group: it settles it or, for
\* a domain that is no catch-all, hands it to the mailbox tasks.
LEMMA GroupLives ==
  ASSUME TypeOK, Lifecycle, NEW d \in Domain,
         dom[d] \in {"resolving", "catchall"},
         NEW to \in {"open", "closed"}, dom' = [dom EXCEPT ![d] = to],
         NEW place \in {"mailbox", "settled"}, place = "mailbox" => dom[d] = "catchall",
         Move(Group(d), place),
         UNCHANGED <<raw, status, pc, cursor, fetch, retry>>
  PROVE  Lifecycle'
<1>1. /\ pc \in {"dns", "smtp"} /\ status \notin {"complete", "failed"}
      /\ dom[d] = "catchall" => pc = "smtp"
  BY DEF Lifecycle, JobAgrees, DomainAgrees
<1>2. JobAgrees'
  BY <1>1 DEF Lifecycle, JobAgrees, Scoring
<1>3. ASSUME NEW e \in Domain PROVE DomainAgrees(e)'
  <2>1. dom'[e] = IF e = d THEN to ELSE dom[e]
    BY DEF TypeOK
  <2>2. DomainAgrees(e)
    BY DEF Lifecycle
  <2> QED
    BY <1>1, <2>1, <2>2 DEF DomainAgrees, Scoring, Early
<1>4. ASSUME NEW i \in Email PROVE EmailAgrees(i)'
  <2> DEFINE e == DomainOfEmail(i)
  <2>1. e \in Domain /\ e' = e
    BY EmailDomain DEF DomainOfEmail
  <2>2. dom'[e] = IF e = d THEN to ELSE dom[e]
    BY <2>1 DEF TypeOK
  <2>3. at'[i] = IF at[i] = "domain" /\ e = d THEN place ELSE at[i]
    BY DEF Move, Group, EmailsAt
  <2>4. EmailAgrees(i)
    BY DEF Lifecycle
  <2> QED
    BY <1>1, <2>1, <2>2, <2>3, <2>4 DEF EmailAgrees, Scoring, Early
<1> QED
  BY <1>2, <1>3, <1>4 DEF Lifecycle

\* A DNS task moves on without touching its group.
LEMMA ResolvingLives ==
  ASSUME TypeOK, Lifecycle, NEW d \in Domain, dom[d] \in {"queued", "resolving"},
         NEW to \in {"resolving", "hosted"}, dom' = [dom EXCEPT ![d] = to],
         UNCHANGED <<raw, status, pc, cursor, at, fetch, retry>>
  PROVE  Lifecycle'
<1>1. pc = "dns" /\ status \notin {"complete", "failed"}
  BY DEF Lifecycle, JobAgrees, DomainAgrees
<1>2. JobAgrees'
  BY <1>1 DEF Lifecycle, JobAgrees, Scoring
<1>3. ASSUME NEW e \in Domain PROVE DomainAgrees(e)'
  <2>1. dom'[e] = IF e = d THEN to ELSE dom[e]
    BY DEF TypeOK
  <2>2. DomainAgrees(e)
    BY DEF Lifecycle
  <2> QED
    BY <1>1, <2>1, <2>2 DEF DomainAgrees, Scoring, Early
<1>4. ASSUME NEW i \in Email PROVE EmailAgrees(i)'
  <2> DEFINE e == DomainOfEmail(i)
  <2>1. e \in Domain /\ e' = e
    BY EmailDomain DEF DomainOfEmail
  <2>2. dom'[e] = IF e = d THEN to ELSE dom[e]
    BY <2>1 DEF TypeOK
  <2>4. EmailAgrees(i)
    BY DEF Lifecycle
  <2> QED
    BY <1>1, <2>1, <2>2, <2>4 DEF EmailAgrees, Scoring, Early
<1> QED
  BY <1>2, <1>3, <1>4 DEF Lifecycle

LEMMA DomainTasksLive ==
  ASSUME TypeOK, Lifecycle, NEW d \in Domain, DnsStep(d) \/ CatchAllStep(d)
  PROVE  Lifecycle'
<1>1. CASE AcquireDns(d) \/ DnsMailHosts(d)
  BY <1>1, ResolvingLives DEF AcquireDns, DnsMailHosts
<1>2. CASE DnsNoMail(d) \/ DnsAddressOnly(d) \/ DnsRaises(d)
  <2>1. /\ dom[d] = "resolving" /\ dom' = [dom EXCEPT ![d] = "closed"]
        /\ Move(Group(d), "settled")
        /\ UNCHANGED <<raw, status, pc, cursor, fetch, retry>>
    BY <1>2 DEF DnsNoMail, DnsAddressOnly, DnsRaises, DnsSettles
  <2> QED
    BY <2>1, GroupLives
<1>3. CASE CatchAllYes(d)
  BY <1>3, GroupLives DEF CatchAllYes
<1>4. CASE CatchAllNo(d)
  BY <1>4, GroupLives DEF CatchAllNo
<1> QED
  BY <1>1, <1>2, <1>3, <1>4 DEF DnsStep, CatchAllStep

\* A mailbox task moves its email, within Stage 3.
LEMMA MailboxLives ==
  ASSUME TypeOK, Lifecycle, NEW j \in Email, MailboxStep(j)
  PROVE  Lifecycle'
<1>1. /\ at[j] \in {"mailbox", "probing"}
      /\ \E place \in {"probing", "parked", "settled"} : Move({j}, place)
      /\ UNCHANGED <<raw, status, pc, cursor, dom, fetch, retry>>
  BY DEF MailboxStep, AcquireMailbox, ProbeNoHost, ProbeExists, ProbeRejected, ProbeUnknown,
         ProbeSettles, ProbeRetry
<1>2. PICK place \in {"probing", "parked", "settled"} : Move({j}, place)
  BY <1>1
<1>3. /\ pc \notin {"start", "read", "raised", "dns", "publish", "announce", "split"}
      /\ ~Early /\ ~Scoring
  BY <1>1 DEF Lifecycle, EmailAgrees, Early, InStage4
<1>4. JobAgrees'
  BY <1>1, <1>3 DEF Lifecycle, JobAgrees, Scoring
<1>5. ASSUME NEW e \in Domain PROVE DomainAgrees(e)'
  BY <1>1, <1>3 DEF Lifecycle, DomainAgrees, Scoring, Early
<1>6. ASSUME NEW i \in Email PROVE EmailAgrees(i)'
  <2>1. at'[i] = IF i = j THEN place ELSE at[i]
    BY <1>2 DEF Move
  <2>2. EmailAgrees(i) /\ DomainOfEmail(i)' = DomainOfEmail(i)
    BY <1>1 DEF Lifecycle, DomainOfEmail
  <2> QED
    BY <1>1, <1>3, <2>1, <2>2 DEF EmailAgrees, Scoring, Early
<1> QED
  BY <1>4, <1>5, <1>6 DEF Lifecycle

\* The steps between the stages, up to the split of Stage 4.
LEMMA BetweenStagesLive ==
  ASSUME TypeOK, Lifecycle, StartStage3 \/ EmitGreylisted \/ EmitProgress \/ PublishStage3
  PROVE  Lifecycle'
<1>0. pc \in {"dns", "smtp", "publish", "announce"} /\ status \notin {"complete", "failed"}
  BY DEF StartStage3, EmitGreylisted, EmitProgress, PublishStage3, Lifecycle, JobAgrees
<1>1. JobAgrees'
  BY <1>0 DEF StartStage3, EmitGreylisted, EmitProgress, PublishStage3, Lifecycle, JobAgrees, Scoring
<1>2. ASSUME NEW d \in Domain PROVE DomainAgrees(d)'
  <2>1. DomainAgrees(d)
    BY DEF Lifecycle
  <2> QED
    BY <1>0, <2>1 DEF StartStage3, EmitGreylisted, EmitProgress, PublishStage3, DomainAgrees, DomainsAt,
                      Scoring, Early
<1>3. ASSUME NEW i \in Email PROVE EmailAgrees(i)'
  <2>1. EmailAgrees(i) /\ DomainOfEmail(i) \in Domain /\ DomainOfEmail(i)' = DomainOfEmail(i)
    BY EmailDomain DEF StartStage3, EmitGreylisted, EmitProgress, PublishStage3, Lifecycle, DomainOfEmail
  <2>2. CASE StartStage3
    BY <1>0, <2>1, <2>2 DEF StartStage3, EmailAgrees, DomainsAt, Scoring, Early
  <2>3. CASE EmitGreylisted
    <3>1. at[i] \in {"parked", "settled"}
      BY <2>1, <2>3 DEF EmitGreylisted, EmailAgrees, DomainsAt, EmailsAt
    <3>2. at'[i] = "settled"
      BY <2>3, <3>1 DEF EmitGreylisted, EmailsAt, Move
    <3> QED
      BY <1>0, <2>3, <3>2 DEF EmitGreylisted, EmailAgrees, Scoring, Early
  <2>4. CASE EmitProgress \/ PublishStage3
    BY <1>0, <2>1, <2>4 DEF EmitProgress, PublishStage3, EmailAgrees, Scoring, Early
  <2> QED
    BY <2>1, <2>2, <2>3, <2>4
<1> QED
  BY <1>1, <1>2, <1>3 DEF Lifecycle

-----------------------------------------------------------------------------
(* Stage 4.                                                                  *)

\* The split gives every reserved result a coroutine.
LEMMA SplitLives ==
  ASSUME TypeOK, Lifecycle, EnterStage4
  PROVE  Lifecycle'
<1>0. pc = "split" /\ status \notin {"complete", "failed"} /\ ~Scoring /\ retry = "idle"
  BY DEF EnterStage4, Lifecycle, JobAgrees, Scoring
<1>1. JobAgrees'
  BY <1>0 DEF EnterStage4, Lifecycle, JobAgrees, Scoring
<1>f. /\ \A d \in Domain : fetch'["still"][d] = fetch["still"][d]
      /\ \A d \in Domain : fetch'["rest"][d] =
           IF \E i \in Reserved \ Greylisted : DomainOfEmail(i) = d THEN "waiting" ELSE "idle"
  BY DEF EnterStage4, OpenBatch, TypeOK, Batch
<1>2. ASSUME NEW d \in Domain PROVE DomainAgrees(d)'
  <2>1. DomainAgrees(d) /\ fetch["still"][d] = "idle"
    BY <1>0 DEF Lifecycle, DomainAgrees, Batch
  <2> QED
    BY <1>0, <1>f, <2>1 DEF EnterStage4, DomainAgrees, Scoring, Early
<1>3. ASSUME NEW i \in Email PROVE EmailAgrees(i)'
  <2>1. at[i] = "settled" /\ DomainOfEmail(i) \in Domain /\ DomainOfEmail(i)' = DomainOfEmail(i)
    BY <1>0, EmailDomain DEF EnterStage4, Lifecycle, EmailAgrees, DomainOfEmail
  <2>2. InStage4(i)'
    <3>1. at'[i] = IF i \in Greylisted THEN "asleep" ELSE IF i \in Reserved THEN "rest" ELSE at[i]
      BY DEF EnterStage4
    <3>2. verdict' = verdict
      BY DEF EnterStage4
    <3>3. CASE i \in Greylisted
      BY <3>1, <3>3 DEF EnterStage4, InStage4
    <3>4. CASE i \in Reserved \ Greylisted
      BY <1>f, <2>1, <3>1, <3>2, <3>4 DEF InStage4, Greylisted
    <3>5. CASE i \notin Reserved
      BY <2>1, <3>1, <3>2, <3>5 DEF InStage4, Reserved, Greylisted
    <3> QED
      BY <3>3, <3>4, <3>5
  <2> QED
    BY <1>0, <2>2 DEF EnterStage4, EmailAgrees, Scoring, Early
<1> QED
  BY <1>1, <1>2, <1>3 DEF Lifecycle

\* A step inside Stage 4: only the clauses about Stage 4 are at stake.
LEMMA InsideStage4 ==
  ASSUME TypeOK, Lifecycle, Scoring, UNCHANGED <<raw, status, pc, cursor, dom>>,
         status = "complete" => retry' = "done",
         \A d \in Domain :
           /\ retry' \in {"asleep", "retrying"} => fetch'["still"][d] = "idle"
           /\ retry' = "done" => fetch'["still"][d] \in {"idle", "done"}
           /\ status = "complete" => fetch'["rest"][d] \in {"idle", "done"},
         \A i \in Email : InStage4(i)'
  PROVE  Lifecycle'
<1>0. pc \in {"score", "end"} /\ status # "failed" /\ Scoring'
  BY DEF Lifecycle, JobAgrees, Scoring
<1>1. JobAgrees'
  BY <1>0 DEF Lifecycle, JobAgrees
<1>2. ASSUME NEW d \in Domain PROVE DomainAgrees(d)'
  BY <1>0 DEF Lifecycle, DomainAgrees, Early
<1>3. ASSUME NEW i \in Email PROVE EmailAgrees(i)'
  BY <1>0 DEF EmailAgrees, Early
<1> QED
  BY <1>1, <1>2, <1>3 DEF Lifecycle

LEMMA ScoreLives ==
  ASSUME TypeOK, Accounting, Lifecycle, NEW b \in Batch, NEW d \in Domain, ScoreStep(b, d)
  PROVE  Lifecycle'
<1>1. /\ fetch[b][d] \in {"waiting", "fetching"}
      /\ \E to \in {"fetching", "done"} : fetch' = [fetch EXCEPT ![b][d] = to]
      /\ UNCHANGED <<raw, status, pc, cursor, dom, retry>>
  BY DEF ScoreStep, AcquireWebsite, ScoreDomain
<1>2. PICK to \in {"fetching", "done"} : fetch' = [fetch EXCEPT ![b][d] = to]
  BY <1>1
<1>3. \A c \in Batch, e \in Domain : fetch'[c][e] = IF c = b /\ e = d THEN to ELSE fetch[c][e]
  BY <1>2 DEF TypeOK
<1>4. Scoring /\ b \in {"rest", "still"}
  BY <1>1 DEF Lifecycle, DomainAgrees, Batch
<1>5. \A e \in Domain : DomainAgrees(e)
  BY DEF Lifecycle
<1>6. ASSUME NEW e \in Domain
      PROVE  /\ retry' \in {"asleep", "retrying"} => fetch'["still"][e] = "idle"
             /\ retry' = "done" => fetch'["still"][e] \in {"idle", "done"}
             /\ status = "complete" => fetch'["rest"][e] \in {"idle", "done"}
  BY <1>1, <1>3, <1>5 DEF DomainAgrees, Batch
<1>7. ASSUME NEW i \in Email PROVE InStage4(i)'
  <2>1. InStage4(i) /\ DomainOfEmail(i) \in Domain /\ DomainOfEmail(i)' = DomainOfEmail(i)
    BY <1>1, <1>4, EmailDomain DEF Lifecycle, EmailAgrees, DomainOfEmail
  <2>2. CASE AcquireWebsite(b, d)
    <3>1. to = "fetching"
      BY <1>3, <2>2 DEF AcquireWebsite, TypeOK
    <3> QED
      BY <1>1, <1>3, <1>4, <2>1, <2>2, <3>1 DEF AcquireWebsite, InStage4, Batch
  <2>3. CASE ScoreDomain(b, d)
    <3>1. to = "done"
      BY <1>3, <2>3 DEF ScoreDomain, TypeOK
    <3>2. at'[i] = IF i \in Refs(b, d) THEN "settled" ELSE at[i]
      BY <2>3 DEF ScoreDomain, Move
    <3>3. CASE i \in Refs(b, d)
      <4>1. at[i] = b /\ DomainOfEmail(i) = d /\ verdict[i].status = "reserved"
        BY <1>4, <3>3 DEF Refs, EmailsAt, Accounting, PlacesAgree, Provisional
      <4>2. \/ verdict'[i] = Scored(verdict[i], "valid", TRUE, FALSE)
            \/ verdict'[i] = Scored(verdict[i], "invalid", FALSE, TRUE)
            \/ verdict'[i] = Scored(verdict[i], "invalid", FALSE, FALSE)
            \/ verdict'[i] = Scored(verdict[i], verdict[i].status, FALSE, FALSE)
        BY <2>3, <3>3 DEF ScoreDomain
      <4>3. verdict'[i].stage = 4 /\ verdict'[i].sub = verdict[i].sub
        BY <4>2 DEF Scored
      <4>4. b = "rest" => verdict[i].sub # "greylisted"
        BY <2>1, <4>1 DEF InStage4
      <4>5. b = "still" => fetch'["still"][d] = "done"
        BY <1>3, <3>1
      <4> QED
        BY <1>4, <2>1, <3>2, <3>3, <4>1, <4>3, <4>4, <4>5 DEF InStage4
    <3>4. CASE i \notin Refs(b, d)
      <4>1. verdict'[i] = verdict[i]
        BY <2>3, <3>4 DEF ScoreDomain
      <4>2. at[i] # b \/ DomainOfEmail(i) # d
        BY <3>4 DEF Refs, EmailsAt
      <4> QED
        BY <1>1, <1>3, <1>4, <2>1, <3>1, <3>2, <3>4, <4>1, <4>2 DEF InStage4, Batch
    <3> QED
      BY <3>3, <3>4
  <2> QED
    BY <2>2, <2>3 DEF ScoreStep
<1> QED
  BY <1>1, <1>4, <1>6, <1>7, InsideStage4 DEF Lifecycle, JobAgrees

\* The second try of one email, and the other steps of the greylist coroutine.
LEMMA RetryLives ==
  ASSUME TypeOK, Accounting, Lifecycle, NEW j \in Email, RetryStep(j)
  PROVE  Lifecycle'
<1>1. /\ at[j] = "retrying"
      /\ UNCHANGED <<raw, status, pc, cursor, dom, fetch, retry>>
  BY DEF RetryStep, RetryExists, RetryRejected, RetryInconclusive
<1>2. Scoring /\ retry = "retrying" /\ status # "complete"
  BY <1>1 DEF Lifecycle, EmailAgrees, Early, InStage4, JobAgrees, TypeOK, Scoring
<1>3. ASSUME NEW i \in Email PROVE InStage4(i)'
  <2>1. InStage4(i) /\ DomainOfEmail(i)' = DomainOfEmail(i)
    BY <1>1, <1>2 DEF Lifecycle, EmailAgrees, DomainOfEmail
  <2>2. CASE i # j
    <3>1. at'[i] = at[i] /\ verdict'[i] = verdict[i]
      BY <2>2 DEF RetryStep, RetryExists, RetryRejected, RetryInconclusive, Move, TypeOK
    <3> QED
      BY <1>1, <2>1, <3>1 DEF InStage4
  <2>3. CASE i = j /\ RetryInconclusive(j)
    <3>1. at'[i] = "still"
      BY <2>3 DEF RetryInconclusive, Move
    <3> QED
      BY <1>1, <1>2, <3>1 DEF InStage4
  <2>4. CASE i = j /\ (RetryExists(j) \/ RetryRejected(j))
    <3>1. at'[i] = "settled" /\ verdict'[i].status # "reserved"
      BY <2>4 DEF RetryExists, RetryRejected, Move, Retried, TypeOK
    <3> QED
      BY <3>1 DEF InStage4
  <2> QED
    BY <2>2, <2>3, <2>4 DEF RetryStep
<1> QED
  BY <1>1, <1>2, <1>3, InsideStage4 DEF Lifecycle, DomainAgrees

LEMMA GreylistLives ==
  ASSUME TypeOK, Accounting, Lifecycle,
         WakeGreylist \/ EndRetries \/ EndGreylist
  PROVE  Lifecycle'
<1>1. /\ UNCHANGED <<raw, status, pc, cursor, dom, verdict>>
      /\ retry \in {"asleep", "retrying", "scoring"}
  BY DEF WakeGreylist, EndRetries, EndGreylist
<1>2. Scoring /\ status # "complete"
  BY <1>1 DEF Lifecycle, JobAgrees, Scoring
<1>3. \A d \in Domain : DomainAgrees(d)
  BY DEF Lifecycle
<1>4. \A i \in Email : /\ InStage4(i)
                       /\ DomainOfEmail(i) \in Domain /\ DomainOfEmail(i)' = DomainOfEmail(i)
  BY <1>1, <1>2, EmailDomain DEF Lifecycle, EmailAgrees, DomainOfEmail
<1>5. CASE WakeGreylist
  <2>1. ASSUME NEW i \in Email PROVE InStage4(i)'
    BY <1>1, <1>4, <1>5 DEF WakeGreylist, InStage4, Move, EmailsAt
  <2> QED
    BY <1>1, <1>2, <1>3, <1>5, <2>1, InsideStage4 DEF WakeGreylist, DomainAgrees
<1>6. CASE EndRetries
  <2>1. /\ \A d \in Domain : fetch'["rest"][d] = fetch["rest"][d]
        /\ \A d \in Domain : fetch'["still"][d] =
             IF \E i \in EmailsAt("still") : DomainOfEmail(i) = d THEN "waiting" ELSE "idle"
    BY <1>6 DEF EndRetries, OpenBatch, TypeOK, Batch
  <2>2. \A d \in Domain : fetch["still"][d] = "idle"
    BY <1>3, <1>6 DEF EndRetries, DomainAgrees
  <2>3. ASSUME NEW i \in Email PROVE InStage4(i)'
    <3>1. InStage4(i) /\ at[i] # "retrying"
      BY <1>4, <1>6 DEF EndRetries, EmailsAt
    <3>2. CASE at[i] = "still"
      <4>1. fetch'["still"][DomainOfEmail(i)] = "waiting" /\ retry' = "scoring"
        BY <1>4, <1>6, <2>1, <3>2 DEF EndRetries, EmailsAt
      <4> QED
        BY <1>4, <1>6, <3>2, <4>1 DEF EndRetries, InStage4
    <3>3. CASE at[i] # "still"
      BY <1>1, <1>4, <1>6, <2>1, <2>2, <3>1, <3>3 DEF EndRetries, InStage4
    <3> QED
      BY <3>2, <3>3
  <2>4. ASSUME NEW d \in Domain
        PROVE  /\ retry' \notin {"asleep", "retrying"}
               /\ retry' = "done" => fetch'["still"][d] \in {"idle", "done"}
    BY <1>6, <2>1 DEF EndRetries
  <2> QED
    BY <1>1, <1>2, <2>3, <2>4, InsideStage4
<1>7. CASE EndGreylist
  <2>1. \A d \in Domain : fetch["still"][d] \in {"idle", "done"}
    BY <1>7 DEF EndGreylist, BatchOver
  <2>2. ASSUME NEW i \in Email PROVE InStage4(i)'
    BY <1>1, <1>4, <1>7, <2>1 DEF EndGreylist, InStage4
  <2> QED
    BY <1>1, <1>2, <1>7, <2>1, <2>2, InsideStage4 DEF EndGreylist
<1> QED
  BY <1>5, <1>6, <1>7

LEMMA CompleteLives ==
  ASSUME TypeOK, Lifecycle, Complete
  PROVE  Lifecycle'
<1>0. pc = "score" /\ status' = "complete" /\ pc' = "end" /\ retry = "done"
      /\ UNCHANGED <<raw, cursor, at, dom, verdict, fetch, retry>>
  BY DEF Complete
<1>1. JobAgrees'
  BY <1>0 DEF JobAgrees, Scoring
<1>2. ASSUME NEW d \in Domain PROVE DomainAgrees(d)'
  BY <1>0 DEF Complete, BatchOver, Batch, Lifecycle, DomainAgrees, Scoring, Early
<1>3. ASSUME NEW i \in Email PROVE EmailAgrees(i)'
  <2>1. InStage4(i)
    BY <1>0 DEF Lifecycle, EmailAgrees, Scoring
  <2>2. InStage4(i)'
    BY <1>0, <2>1 DEF InStage4, DomainOfEmail
  <2> QED
    BY <1>0, <2>2 DEF EmailAgrees, Scoring, Early
<1> QED
  BY <1>1, <1>2, <1>3 DEF Lifecycle

\* Where run_pipeline stands, where the task of each domain stands and where
\* each email is agree in every state of a job.
THEOREM LifecycleInvariant == Spec => []Lifecycle
<1>1. Init => Lifecycle
  BY DEF Init, Lifecycle, JobAgrees, DomainAgrees, EmailAgrees, Scoring, Early, Email
<1>2. TypeOK /\ Accounting /\ Lifecycle /\ [Next]_vars => Lifecycle'
  <2> SUFFICES ASSUME TypeOK, Accounting, Lifecycle, [Next]_vars PROVE Lifecycle'
    OBVIOUS
  <2>1. CASE UNCHANGED vars
    BY <2>1 DEF vars, Lifecycle, JobAgrees, DomainAgrees, EmailAgrees, InStage4, DomainOfEmail,
                Scoring, Early
  <2> QED
    BY <2>1, StageOneLives, DomainTasksLive, MailboxLives, BetweenStagesLive, SplitLives,
       ScoreLives, RetryLives, GreylistLives, CompleteLives DEF Next
<1> QED
  BY <1>1, <1>2, TypeInvariant, AccountingInvariant, PTL DEF Spec

\* A complete job has a verdict for every address, "processed" says so, what
\* is still reserved was scored, and what was greylisted was scored by the
\* batch that follows its second try (run_pipeline, Stage 4 to the end).
THEOREM NoEmailIsLost == Spec => []NoLostEmail
<1>1. TypeOK /\ Accounting /\ Lifecycle => NoLostEmail
  <2> SUFFICES ASSUME TypeOK, Accounting, Lifecycle, status = "complete"
               PROVE  /\ \A i \in Email : verdict[i].status # "none" /\ at[i] = "settled"
                      /\ counts["processed"] = BatchSize
                      /\ \A i \in Reserved : verdict[i].stage = 4
                      /\ \A i \in Greylisted : fetch["still"][DomainOfEmail(i)] = "done"
    BY DEF NoLostEmail
  <2>1. ASSUME NEW i \in Email PROVE at[i] = "settled" /\ InStage4(i)
    <3>1. DomainAgrees(DomainOfEmail(i)) /\ EmailAgrees(i) /\ retry = "done"
      BY EmailDomain DEF Lifecycle, JobAgrees
    <3> QED
      BY <3>1 DEF DomainAgrees, EmailAgrees, InStage4, Scoring
  <2>2. \A i \in Email : verdict[i].status # "none"
    BY <2>1 DEF Accounting, PlacesAgree, Unreported
  <2>3. counts["processed"] = BatchSize
    <3>1. Judged = Email
      BY <2>2 DEF Judged
    <3>2. Cardinality(Email) = BatchSize
      BY SizeAssumption, FS_Interval DEF Email
    <3>3. counts["processed"] = Cardinality(Judged)
      BY AccountingExact
    <3> QED
      BY <3>1, <3>2, <3>3
  <2>4. \A i \in Reserved : verdict[i].stage = 4
    BY <2>1 DEF Reserved, InStage4
  <2>5. \A i \in Greylisted : fetch["still"][DomainOfEmail(i)] = "done"
    BY <2>1 DEF Greylisted, Reserved, InStage4
  <2> QED
    BY <2>1, <2>2, <2>3, <2>4, <2>5
<1> QED
  BY <1>1, TypeInvariant, AccountingInvariant, LifecycleInvariant, PTL

-----------------------------------------------------------------------------
(* The pipeline implements BatchVerdicts.                                    *)

Ended == status \in {"complete", "failed"}

\* BatchVerdicts sees the same statuses and counts in the same way.
LEMMA SameCardinality ==
  ASSUME NEW S
  PROVE  Abstract!Cardinality(S) = Cardinality(S)
  BY DEF Abstract!Cardinality, Cardinality

LEMMA SameStatuses == Abstract!Statuses = Statuses
  BY DEF Abstract!Statuses, Statuses

\* The abstract tally is that of the abstract outcome.
LEMMA TallyAgrees ==
  ASSUME Accounting
  PROVE  [s \in Statuses |-> counts[s]] = Abstract!TallyOf([i \in Email |-> verdict[i].status])
<1>1. ASSUME NEW s \in Statuses
      PROVE  counts[s] = Cardinality({e \in Email : [i \in Email |-> verdict[i].status][e] = s})
  <2>1. With(s) = {e \in Email : [i \in Email |-> verdict[i].status][e] = s}
    BY DEF With
  <2> QED
    BY <2>1 DEF Accounting, CountsAgree
<1> QED
  BY <1>1, SameCardinality, SameStatuses DEF Abstract!TallyOf

LEMMA TallyAgreesNext ==
  Accounting' =>
    [s \in Statuses |-> counts'[s]] = Abstract!TallyOf([i \in Email |-> verdict'[i].status])
<1>1. Accounting =>
        [s \in Statuses |-> counts[s]] = Abstract!TallyOf([i \in Email |-> verdict[i].status])
  BY TallyAgrees
<1>2. (Accounting =>
        [s \in Statuses |-> counts[s]] = Abstract!TallyOf([i \in Email |-> verdict[i].status]))'
  BY <1>1, PTL
<1> QED
  BY <1>2 DEF Abstract!TallyOf

\* A step that keeps every status and the fate of the job is a stutter.
LEMMA StutterRefines ==
  ASSUME Accounting, Accounting',
         \A i \in Email : verdict'[i].status = verdict[i].status,
         {status, status'} \cap {"complete", "failed"} # {} => status' = status
  PROVE  [Abstract!Next]_Abstract!vars
<1>1. [i \in Email |-> verdict[i].status]' = [i \in Email |-> verdict[i].status]
  OBVIOUS
<1>2. [s \in Statuses |-> counts[s]]' = [s \in Statuses |-> counts[s]]
  <2>1. \A s \in Statuses : With(s)' = With(s)
    BY DEF With
  <2>2. \A s \in Statuses : counts'[s] = counts[s]
    BY <2>1 DEF Accounting, CountsAgree
  <2> QED
    BY <2>2
<1>3. (IF status \in {"complete", "failed"} THEN status ELSE "running")'
        = IF status \in {"complete", "failed"} THEN status ELSE "running"
  OBVIOUS
<1> QED
  BY <1>1, <1>2, <1>3 DEF Abstract!vars

\* Some entries, and no others, change status: an abstract Move.
LEMMA MoveRefines ==
  ASSUME TypeOK', Accounting', NEW from, NEW to,
         \A i \in Email : verdict'[i].status # verdict[i].status =>
           verdict[i].status = from /\ verdict'[i].status \in to,
         \E i \in Email : verdict'[i].status # verdict[i].status
  PROVE  Abstract!Move(from, to)
<1> DEFINE old == [i \in Email |-> verdict[i].status]
           new == [i \in Email |-> verdict'[i].status]
<1>1. new \in [Email -> Statuses \cup {"none"}]
  BY DEF TypeOK, Verdict
<1>2. new # old
  <2>1. PICK i \in Email : verdict'[i].status # verdict[i].status
    OBVIOUS
  <2>2. new[i] # old[i]
    BY <2>1
  <2> QED
    BY <2>2
<1>3. [s \in Statuses |-> counts'[s]] = Abstract!TallyOf(new)
  BY TallyAgreesNext
<1>4. \A i \in Email : new[i] # old[i] => old[i] = from /\ new[i] \in to
  OBVIOUS
<1> HIDE DEF new
<1> QED
  BY <1>1, <1>2, <1>3, <1>4, SameStatuses DEF Abstract!Move, new

\* Reporting the same verdict for some emails is an abstract Report.
LEMMA ReportRefines ==
  ASSUME TypeOK, TypeOK', Accounting, Accounting', ~Ended, status' = status,
         NEW S \in SUBSET Email, \A i \in S : at[i] \in Unreported,
         NEW s \in Statuses, NEW sub, NEW stage, Report(S, Result(s, sub, stage))
  PROVE  [Abstract!Next]_Abstract!vars
<1>1. CASE S = {}
  <2>1. \A i \in Email : verdict'[i].status = verdict[i].status
    BY <1>1 DEF Report
  <2> QED
    BY <2>1, StutterRefines
<1>2. CASE S # {}
  <2>1. \A i \in S : verdict[i].status = "none"
    BY DEF Accounting, PlacesAgree
  <2>2. \A i \in Email : verdict'[i].status = IF i \in S THEN s ELSE verdict[i].status
    BY DEF Report, Result
  <2>3. s # "none"
    BY DEF Statuses
  <2>4. Abstract!Move("none", {s})
    BY <1>2, <2>1, <2>2, <2>3, MoveRefines
  <2> QED
    BY <2>4, SameStatuses DEF Abstract!Next, Abstract!Report, Ended
<1> QED
  BY <1>1, <1>2

\* Once Stage 4 runs, every entry has a verdict.
LEMMA NonePending ==
  ASSUME Accounting, Lifecycle, Scoring
  PROVE  Abstract!Pending = {} /\ \A i \in Email : verdict[i].status # "none"
<1>1. \A i \in Email : InStage4(i)
  BY DEF Lifecycle, EmailAgrees
<1>2. \A i \in Email : verdict[i].status # "none"
  BY <1>1 DEF InStage4, Accounting, PlacesAgree, Unreported
<1> QED
  BY <1>2 DEF Abstract!Pending

\* Settling reserved results in Stage 4 is an abstract Resolve.
LEMMA ResolveRefines ==
  ASSUME TypeOK, TypeOK', Accounting, Accounting', Lifecycle, Scoring, ~Ended, status' = status,
         \A i \in Email : Final(i)
  PROVE  [Abstract!Next]_Abstract!vars
<1>1. CASE \A i \in Email : verdict'[i].status = verdict[i].status
  BY <1>1, StutterRefines
<1>2. CASE \E i \in Email : verdict'[i].status # verdict[i].status
  <2>1. Abstract!Move("reserved", {"valid", "invalid"})
    BY <1>2, NonePending, MoveRefines DEF Final
  <2> QED
    BY <2>1, NonePending DEF Abstract!Next, Abstract!Resolve, Ended
<1> QED
  BY <1>1, <1>2

LEMMA StageOneRefines ==
  ASSUME TypeOK, TypeOK', Accounting, Accounting', Lifecycle, StageOne
  PROVE  [Abstract!Next]_Abstract!vars
<1>1. CASE Begin \/ ReadQueued \/ ReadUnstorable \/ EndStage1
  <2>1. verdict' = verdict /\ {status, status'} \cap {"complete", "failed"} = {}
    BY <1>1 DEF Begin, ReadQueued, ReadUnstorable, Reading, EndStage1, Lifecycle, JobAgrees
  <2> QED
    BY <2>1, StutterRefines
<1>2. CASE Fail
  <2>1. ~Ended /\ cursor \in Email /\ verdict[cursor].status = "none"
    BY <1>2, SizeAssumption DEF Fail, Ended, Lifecycle, JobAgrees, TypeOK, Email, Accounting,
                                PlacesAgree, Unreported
  <2>2. Abstract!Pending # {}
    BY <2>1 DEF Abstract!Pending
  <2> QED
    BY <1>2, <2>1, <2>2 DEF Fail, Ended, Abstract!Next, Abstract!Abort
<1>3. CASE ReadMalformed \/ ReadDuplicate \/ ReadListed \/ ReadFaulty
  <2>1. Reading /\ ~Ended /\ status' = status
    BY <1>3 DEF ReadMalformed, ReadDuplicate, ReadListed, ReadFaulty, StageOneVerdict, Reading,
                Ended, Lifecycle, JobAgrees
  <2>2. {cursor} \in SUBSET Email /\ \A i \in {cursor} : at[i] \in Unreported
    BY <2>1, AtCursor DEF Unreported
  <2>3. \E s \in Statuses, sub \in SubStatus : Report({cursor}, Result(s, sub, 1))
    <3>1. CASE ReadMalformed
      BY <3>1 DEF ReadMalformed, StageOneVerdict, Statuses, SubStatus
    <3>2. CASE ReadDuplicate
      BY <3>2 DEF ReadDuplicate, StageOneVerdict, Statuses, SubStatus
    <3>3. CASE ReadListed
      BY <3>3, ListChecksType DEF ReadListed, StageOneVerdict
    <3>4. CASE ReadFaulty
      BY <3>4 DEF ReadFaulty, StageOneVerdict, Statuses, SubStatus
    <3> QED
      BY <1>3, <3>1, <3>2, <3>3, <3>4
  <2> QED
    BY <2>1, <2>2, <2>3, ReportRefines
<1> QED
  BY <1>1, <1>2, <1>3 DEF StageOne

LEMMA TasksRefine ==
  ASSUME TypeOK, TypeOK', Accounting, Accounting', Lifecycle,
         \/ \E d \in Domain : DnsStep(d)
         \/ \E d \in Domain : CatchAllStep(d)
         \/ \E i \in Email : MailboxStep(i)
         \/ EmitGreylisted
  PROVE  [Abstract!Next]_Abstract!vars
<1>1. ASSUME NEW d \in Domain, DnsStep(d) \/ CatchAllStep(d)
      PROVE  [Abstract!Next]_Abstract!vars
  <2>1. Group(d) \in SUBSET Email /\ \A i \in Group(d) : at[i] \in Unreported
    BY DEF Group, EmailsAt, Unreported
  <2>2. ~Ended /\ status' = status
    BY <1>1 DEF DnsStep, AcquireDns, DnsNoMail, DnsAddressOnly, DnsRaises, DnsSettles, DnsMailHosts,
                CatchAllStep, CatchAllYes, CatchAllNo, Lifecycle, DomainAgrees, JobAgrees, Ended
  <2>3. \/ verdict' = verdict
        \/ \E s \in Statuses, sub \in SubStatus, stage \in 2 .. 3 :
             Report(Group(d), Result(s, sub, stage))
    <3>1. CASE AcquireDns(d) \/ DnsMailHosts(d) \/ CatchAllNo(d)
      BY <3>1 DEF AcquireDns, DnsMailHosts, CatchAllNo
    <3>2. CASE DnsNoMail(d)
      BY <3>2 DEF DnsNoMail, DnsSettles, Statuses, SubStatus
    <3>3. CASE DnsAddressOnly(d)
      BY <3>3 DEF DnsAddressOnly, DnsSettles, Statuses, SubStatus
    <3>4. CASE DnsRaises(d)
      BY <3>4 DEF DnsRaises, DnsSettles, Statuses, SubStatus
    <3>5. CASE CatchAllYes(d)
      BY <3>5 DEF CatchAllYes, ReportStage3, Statuses, SubStatus
    <3> QED
      BY <1>1, <3>1, <3>2, <3>3, <3>4, <3>5 DEF DnsStep, CatchAllStep
  <2>4. CASE verdict' = verdict
    BY <2>2, <2>4, StutterRefines
  <2> QED
    BY <2>1, <2>2, <2>3, <2>4, ReportRefines
<1>2. ASSUME NEW i \in Email, MailboxStep(i) PROVE [Abstract!Next]_Abstract!vars
  <2>1. at[i] \in {"mailbox", "probing"} /\ status' = status
    BY <1>2 DEF MailboxStep, AcquireMailbox, ProbeNoHost, ProbeExists, ProbeRejected, ProbeUnknown,
                ProbeSettles, ProbeRetry
  <2>2. ~Ended
    BY <2>1 DEF Lifecycle, EmailAgrees, Early, Scoring, InStage4, Ended
  <2>3. {i} \in SUBSET Email /\ \A j \in {i} : at[j] \in Unreported
    BY <2>1 DEF Unreported
  <2>4. \/ verdict' = verdict
        \/ \E s \in Statuses, sub \in SubStatus : Report({i}, Result(s, sub, 3))
    <3>1. CASE AcquireMailbox(i) \/ ProbeRetry(i)
      BY <3>1 DEF AcquireMailbox, ProbeRetry
    <3>2. CASE ProbeNoHost(i)
      BY <3>2 DEF ProbeNoHost, ProbeSettles, ReportStage3, Statuses, SubStatus
    <3>3. CASE ProbeExists(i)
      BY <3>3 DEF ProbeExists, ProbeSettles, ReportStage3, Statuses, SubStatus
    <3>4. CASE ProbeRejected(i)
      BY <3>4 DEF ProbeRejected, ProbeSettles, ReportStage3, Statuses, SubStatus
    <3>5. CASE ProbeUnknown(i)
      BY <3>5 DEF ProbeUnknown, ProbeSettles, ReportStage3, Statuses, SubStatus
    <3> QED
      BY <1>2, <3>1, <3>2, <3>3, <3>4, <3>5 DEF MailboxStep
  <2>5. CASE verdict' = verdict
    BY <2>1, <2>2, <2>5, StutterRefines
  <2> QED
    BY <2>1, <2>2, <2>3, <2>4, <2>5, ReportRefines
<1>3. ASSUME EmitGreylisted PROVE [Abstract!Next]_Abstract!vars
  <2>1. EmailsAt("parked") \in SUBSET Email /\ \A i \in EmailsAt("parked") : at[i] \in Unreported
    BY DEF EmailsAt, Unreported
  <2>2. ~Ended /\ status' = status
    BY <1>3 DEF EmitGreylisted, Lifecycle, JobAgrees, Ended
  <2>3. Report(EmailsAt("parked"), Result("reserved", "greylisted", 3))
    BY <1>3 DEF EmitGreylisted, ReportStage3
  <2> QED
    BY <2>1, <2>2, <2>3, ReportRefines DEF Statuses
<1> QED
  BY <1>1, <1>2, <1>3

LEMMA Stage4Refines ==
  ASSUME TypeOK, TypeOK', Accounting, Accounting', Lifecycle, [Next]_vars,
         \/ \E b \in Batch, d \in Domain : ScoreStep(b, d)
         \/ \E i \in Email : RetryStep(i)
  PROVE  [Abstract!Next]_Abstract!vars
<1>1. ASSUME NEW b \in Batch, NEW d \in Domain, ScoreStep(b, d)
      PROVE  Scoring /\ ~Ended /\ status' = status
  <2>1. fetch[b][d] \in {"waiting", "fetching"} /\ status' = status
    BY <1>1 DEF ScoreStep, AcquireWebsite, ScoreDomain
  <2> QED
    BY <2>1 DEF Lifecycle, JobAgrees, DomainAgrees, Scoring, Batch, Ended
<1>2. ASSUME NEW i \in Email, RetryStep(i)
      PROVE  Scoring /\ ~Ended /\ status' = status
  <2>1. at[i] = "retrying" /\ status' = status
    BY <1>2 DEF RetryStep, RetryExists, RetryRejected, RetryInconclusive
  <2> QED
    BY <2>1 DEF Lifecycle, EmailAgrees, Early, InStage4, JobAgrees, TypeOK, Scoring, Ended
<1> QED
  BY <1>1, <1>2, StepFinal, ResolveRefines

\* Every step of the pipeline is a step of BatchVerdicts or leaves what it
\* speaks of alone.
LEMMA StepRefines ==
  ASSUME TypeOK, TypeOK', Accounting, Accounting', Lifecycle, [Next]_vars
  PROVE  [Abstract!Next]_Abstract!vars
<1>1. CASE UNCHANGED vars \/ WakeGreylist \/ EndRetries \/ EndGreylist
  BY <1>1, StutterRefines DEF vars, WakeGreylist, EndRetries, EndGreylist
<1>2. CASE StartStage3 \/ EmitProgress \/ PublishStage3 \/ EnterStage4
  <2>1. verdict' = verdict /\ {status, status'} \cap {"complete", "failed"} = {}
    BY <1>2 DEF StartStage3, EmitProgress, PublishStage3, EnterStage4, Lifecycle, JobAgrees
  <2> QED
    BY <2>1, StutterRefines
<1>3. CASE Complete
  <2>1. Abstract!Pending = {} /\ ~Ended
    BY <1>3, NonePending DEF Complete, Scoring, Lifecycle, JobAgrees, Ended
  <2> QED
    BY <1>3, <2>1 DEF Complete, Ended, Abstract!Next, Abstract!Finish
<1> QED
  BY <1>1, <1>2, <1>3, StageOneRefines, TasksRefine, Stage4Refines DEF Next

\* run_pipeline implements the abstract job: one verdict for each entry, only
\* "reserved" settled again, and only once every entry has a verdict; counts
\* that are those of the verdicts; failure only while a verdict is missing.
THEOREM PipelineImplementsBatchVerdicts == Spec => Abstract!Spec
<1>1. Init => Abstract!Init
  <2> SUFFICES ASSUME Init PROVE Abstract!Init
    OBVIOUS
  <2>1. [i \in Email |-> verdict[i].status] = [e \in Email |-> "none"]
    BY DEF Init, NoVerdict
  <2>2. [s \in Statuses |-> counts[s]] = Abstract!TallyOf([i \in Email |-> verdict[i].status])
    BY InitAccounts, TallyAgrees
  <2> QED
    BY <2>1, <2>2, SameStatuses DEF Init, Abstract!Init
<1>2. TypeOK /\ TypeOK' /\ Accounting /\ Accounting' /\ Lifecycle /\ [Next]_vars =>
        [Abstract!Next]_Abstract!vars
  BY StepRefines
<1> QED
  BY <1>1, <1>2, TypeInvariant, AccountingInvariant, LifecycleInvariant, PTL
     DEF Spec, Abstract!Spec

-----------------------------------------------------------------------------
(* The progress a job shows.  What a stage still owes is a set of emails, so *)
(* each total is what is done and what is owed.                              *)

SecondTry == {"asleep", "retrying", "still"}

Pending2 == {i \in EmailsAt("domain") : dom[DomainOfEmail(i)] \in {"queued", "resolving"}}
Pending3 ==
  {i \in Email : \/ at[i] \in {"mailbox", "probing", "parked"}
                 \/ at[i] = "domain" /\ dom[DomainOfEmail(i)] \in {"hosted", "catchall"}}
Pending4 == {i \in Email : at[i] \in {"rest", "asleep", "retrying"}}

\* Counted when retried, and again when scored.
CountedTwice == {i \in Email : verdict[i].sub = "greylisted" /\ verdict[i].stage = 4}

Owed ==
  /\ counters["stage2_total"] = counters["stage2_done"] + Cardinality(Pending2)
  /\ counters["stage3_total"] = counters["stage3_done"] + Cardinality(Pending3)
  /\ pc = "score" => counters["stage4_done"] + Cardinality(Pending4)
                       = counters["stage4_total"] + Cardinality(CountedTwice)

\* A stage that has not begun has counted nothing, and a job that is complete
\* everything.
Bounds ==
  /\ pc \in {"start", "read"} => counters["stage2_done"] = 0
  /\ ~Scoring => counters["stage4_done"] = 0 /\ counters["stage4_total"] = 0
  /\ status = "complete" => counters["stage4_done"] = counters["stage4_total"]

\* What the job record shows.
Announced == pc \in {"announce", "split"}
Shown == progress = IF Scoring \/ Announced THEN counters ELSE ZeroCounters

\* Only what was greylisted gets a second try, and before it is scored.
Marked(i) ==
  /\ ~Scoring => verdict[i].stage # 4 /\ at[i] \notin SecondTry
  /\ at[i] \in SecondTry => verdict[i].sub = "greylisted" /\ verdict[i].stage # 4

Counting == Owed /\ Bounds /\ Shown /\ \A i \in Email : Marked(i)

LEMMA OwedSets ==
  /\ Pending2 \subseteq Email /\ Pending3 \subseteq Email
  /\ Pending4 \subseteq Email /\ CountedTwice \subseteq Email
  BY DEF Pending2, Pending3, Pending4, CountedTwice, EmailsAt

LEMMA CounterTypes ==
  ASSUME TypeOK
  PROVE  \A c \in Counter : counters[c] \in Int
  BY DEF TypeOK

\* A step before the split: S2 has its DNS answer, A3 is expected in Stage 3,
\* and S3 has its result there.
LEMMA WorkCounts ==
  ASSUME TypeOK, Counting, ~Scoring, ~Announced,
         pc' \in {"dns", "smtp", "publish"}, status' # "complete",
         progress' = progress,
         counters'["stage4_done"] = counters["stage4_done"],
         counters'["stage4_total"] = counters["stage4_total"],
         NEW S2, S2 \subseteq Pending2, Pending2' = Pending2 \ S2,
         NEW S3, S3 \subseteq Pending3, NEW A3, A3 \subseteq Email, A3 \cap Pending3 = {},
         Pending3' = (Pending3 \ S3) \cup A3,
         counters'["stage2_total"] = counters["stage2_total"],
         counters'["stage2_done"] = counters["stage2_done"] + Cardinality(S2),
         counters'["stage3_total"] = counters["stage3_total"] + Cardinality(A3),
         counters'["stage3_done"] = counters["stage3_done"] + Cardinality(S3),
         \A i \in Email : verdict'[i].stage # 4 /\ at'[i] \notin SecondTry
  PROVE  Counting'
<1>1. /\ counters["stage2_total"] \in Int /\ counters["stage2_done"] \in Int
      /\ counters["stage3_total"] \in Int /\ counters["stage3_done"] \in Int
  BY CounterTypes DEF Counter
<1>2. Cardinality(Pending2 \ S2) = Cardinality(Pending2) - Cardinality(S2)
  BY OwedSets, Remainder
<1>3. Cardinality(Pending3 \ S3) = Cardinality(Pending3) - Cardinality(S3)
  BY OwedSets, Remainder
<1>4. Cardinality((Pending3 \ S3) \cup A3) = Cardinality(Pending3 \ S3) + Cardinality(A3)
  <2>1. Pending3 \ S3 \subseteq Email /\ (Pending3 \ S3) \cap A3 = {}
    BY OwedSets
  <2> QED
    BY <2>1, DisjointUnion
<1>5. /\ Cardinality(Pending2) \in Nat /\ Cardinality(S2) \in Nat
      /\ Cardinality(Pending3) \in Nat /\ Cardinality(S3) \in Nat /\ Cardinality(A3) \in Nat
  <2>1. S2 \subseteq Email /\ S3 \subseteq Email
    BY OwedSets
  <2> QED
    BY <2>1, OwedSets, EmailSets
<1>6. counters'["stage2_total"] = counters'["stage2_done"] + Cardinality(Pending2')
  BY <1>1, <1>2, <1>5 DEF Counting, Owed
<1>7. counters'["stage3_total"] = counters'["stage3_done"] + Cardinality(Pending3')
  BY <1>1, <1>3, <1>4, <1>5 DEF Counting, Owed
<1>8. Owed'
  BY <1>6, <1>7 DEF Owed, Scoring
<1>9. Bounds' /\ Shown'
  BY DEF Counting, Bounds, Shown, Announced, Scoring
<1> QED
  BY <1>8, <1>9 DEF Counting, Marked

\* In Stage 1 no stage owes anything.
LEMMA NothingOwed ==
  ASSUME TypeOK, Lifecycle, Early
  PROVE  Pending2 = {} /\ Pending3 = {}
<1>1. ASSUME NEW i \in Email
      PROVE  dom[DomainOfEmail(i)] = "idle" /\ at[i] \in {"input", "domain", "settled"}
  BY EmailDomain DEF Lifecycle, DomainAgrees, EmailAgrees
<1> QED
  BY <1>1 DEF Pending2, Pending3, EmailsAt

\* The steps of the Stage-1 loop.
LEMMA ReadingCounts ==
  ASSUME TypeOK, Lifecycle, Counting, pc \in {"start", "read", "raised"},
         UNCHANGED <<raw, dom, counters, progress>>,
         pc' \in {"read", "raised", "end"}, pc' = "read" => pc # "raised", status' # "complete",
         \A i \in Email : at'[i] \in {at[i], "domain", "settled"} /\ verdict'[i].stage # 4
  PROVE  Counting'
<1>1. ~Scoring /\ Early
  BY DEF Lifecycle, JobAgrees, Scoring, Early
<1>2. Pending2 = {} /\ Pending3 = {}
  BY <1>1, NothingOwed
<1>3. ASSUME NEW i \in Email
      PROVE  /\ dom'[DomainOfEmail(i)'] = "idle" /\ at'[i] \in {"input", "domain", "settled"}
  <2>1. dom[DomainOfEmail(i)] = "idle" /\ at[i] \in {"input", "domain", "settled"}
    BY <1>1, EmailDomain DEF Lifecycle, DomainAgrees, EmailAgrees
  <2> QED
    BY <2>1 DEF DomainOfEmail
<1>4. Pending2' = {} /\ Pending3' = {}
  BY <1>3 DEF Pending2, Pending3, EmailsAt
<1>5. Owed'
  BY <1>2, <1>4 DEF Counting, Owed
<1>6. Bounds' /\ Shown'
  BY <1>1 DEF Counting, Bounds, Shown, Announced, Scoring
<1>7. ASSUME NEW i \in Email PROVE Marked(i)'
  <2>1. at'[i] \notin SecondTry /\ verdict'[i].stage # 4
    BY <1>3 DEF SecondTry
  <2> QED
    BY <2>1 DEF Marked
<1> QED
  BY <1>5, <1>6, <1>7 DEF Counting

\* Before Stage 4 no verdict is of Stage 4 and nothing gets a second try.
LEMMA NotYetMarked ==
  ASSUME Counting, ~Scoring
  PROVE  \A i \in Email : verdict[i].stage # 4 /\ at[i] \notin SecondTry
  BY DEF Counting, Marked

LEMMA StageOneCounts ==
  ASSUME TypeOK, Lifecycle, Counting, StageOne
  PROVE  Counting'
<1>0. /\ pc \in {"start", "read", "raised"} /\ status \notin {"complete", "failed"} /\ ~Scoring /\ Early
  BY DEF StageOne, Begin, ReadMalformed, ReadDuplicate, ReadListed, ReadQueued, ReadFaulty,
         ReadUnstorable, Fail, EndStage1, Reading, Lifecycle, JobAgrees, Scoring, Early
<1>m. \A i \in Email : verdict[i].stage # 4 /\ at[i] \notin SecondTry
  BY <1>0, NotYetMarked
<1>1. CASE Begin \/ ReadUnstorable \/ Fail
  <2>1. /\ UNCHANGED <<raw, dom, counters, progress, at, verdict>>
        /\ pc' \in {"read", "raised", "end"} /\ (pc' = "read" => pc # "raised") /\ status' # "complete"
    BY <1>0, <1>1 DEF Begin, ReadUnstorable, Fail
  <2> QED
    BY <1>0, <1>m, <2>1, ReadingCounts
<1>2. CASE ReadMalformed \/ ReadDuplicate \/ ReadListed \/ ReadFaulty
  <2>1. \E v : v.stage = 1 /\ StageOneVerdict(v)
    <3>1. CASE ReadListed
      BY <3>1 DEF ReadListed, Result
    <3>2. CASE ReadMalformed \/ ReadDuplicate \/ ReadFaulty
      BY <3>2 DEF ReadMalformed, ReadDuplicate, ReadFaulty, Result
    <3> QED
      BY <1>2, <3>1, <3>2
  <2>2. PICK v : v.stage = 1 /\ StageOneVerdict(v)
    BY <2>1
  <2>3. ASSUME NEW i \in Email PROVE at'[i] \in {at[i], "settled"} /\ verdict'[i].stage # 4
    BY <1>m, <2>2 DEF StageOneVerdict, Report, Move
  <2>4. UNCHANGED <<raw, status, pc, dom, counters, progress>> /\ pc = "read"
    BY <1>2, <2>2 DEF StageOneVerdict, ReadMalformed, ReadDuplicate, ReadListed, ReadFaulty, Reading
  <2> QED
    BY <1>0, <2>3, <2>4, ReadingCounts
<1>3. CASE ReadQueued
  <2>1. \A i \in Email : at'[i] \in {at[i], "domain"}
    BY <1>3 DEF ReadQueued, Move
  <2>2. UNCHANGED <<raw, status, pc, dom, counters, progress, verdict>> /\ pc = "read"
    BY <1>3 DEF ReadQueued, Reading
  <2> QED
    BY <1>0, <1>m, <2>1, <2>2, ReadingCounts
<1>4. CASE EndStage1
  <2>1. /\ pc = "read" /\ pc' = "dns" /\ status' = "stage2"
        /\ UNCHANGED <<raw, at, verdict, progress>>
        /\ counters' = [counters EXCEPT !["stage2_total"] = Cardinality(EmailsAt("domain"))]
        /\ dom' = [d \in Domain |-> IF Group(d) # {} THEN "queued" ELSE dom[d]]
    BY <1>4 DEF EndStage1
  <2>2. /\ counters'["stage2_total"] = Cardinality(EmailsAt("domain"))
        /\ \A c \in Counter \ {"stage2_total"} : counters'[c] = counters[c]
    BY <2>1 DEF TypeOK, Counter
  <2>3. ASSUME NEW i \in Email
        PROVE  /\ DomainOfEmail(i)' = DomainOfEmail(i)
               /\ dom'[DomainOfEmail(i)] \in {"idle", "queued"}
               /\ at[i] = "domain" => dom'[DomainOfEmail(i)] = "queued"
               /\ at'[i] = at[i] /\ at[i] \in {"input", "domain", "settled"}
    <3>1. DomainOfEmail(i) \in Domain /\ dom[DomainOfEmail(i)] = "idle"
          /\ at[i] \in {"input", "domain", "settled"}
      BY <1>0, EmailDomain DEF Lifecycle, DomainAgrees, EmailAgrees
    <3>2. at[i] = "domain" => i \in Group(DomainOfEmail(i))
      BY DEF Group, EmailsAt
    <3> QED
      BY <2>1, <3>1, <3>2 DEF DomainOfEmail
  <2>4. Pending2' = EmailsAt("domain") /\ Pending3' = {}
    BY <2>3 DEF Pending2, Pending3, EmailsAt
  <2>5. Pending3 = {} /\ Cardinality(EmailsAt("domain")) \in Nat
    BY <1>0, NothingOwed, EmailSets DEF EmailsAt
  <2>6. Owed'
    BY <2>1, <2>2, <2>4, <2>5 DEF Counting, Owed, Bounds, Counter
  <2>7. Bounds' /\ Shown'
    BY <1>0, <2>1, <2>2 DEF Counting, Bounds, Shown, Announced, Scoring, Counter
  <2>8. \A i \in Email : Marked(i)'
    BY <1>m, <2>1 DEF Marked
  <2> QED
    BY <2>6, <2>7, <2>8 DEF Counting
<1> QED
  BY <1>1, <1>2, <1>3, <1>4 DEF StageOne

LEMMA DnsCounts ==
  ASSUME TypeOK, Lifecycle, Counting, NEW d \in Domain, DnsStep(d)
  PROVE  Counting'
<1>0. /\ dom[d] \in {"queued", "resolving"} /\ pc = "dns" /\ status # "complete" /\ ~Scoring
      /\ UNCHANGED <<raw, status, pc, progress>>
  BY DEF DnsStep, AcquireDns, DnsNoMail, DnsAddressOnly, DnsRaises, DnsSettles, DnsMailHosts,
         Lifecycle, DomainAgrees, JobAgrees, Scoring
<1>m. \A i \in Email : verdict[i].stage # 4 /\ at[i] \notin SecondTry
  BY <1>0, NotYetMarked
<1>d. \A i \in Email : DomainOfEmail(i) \in Domain /\ DomainOfEmail(i)' = DomainOfEmail(i)
  BY <1>0, EmailDomain DEF DomainOfEmail
<1>e. Cardinality({}) = 0
  BY FS_EmptySet
<1>c. \A c \in Counter : counters[c] \in Int
  BY CounterTypes
<1>1. CASE AcquireDns(d)
  <2>1. /\ dom[d] = "queued" /\ dom' = [dom EXCEPT ![d] = "resolving"]
        /\ UNCHANGED <<at, verdict, counters>>
    BY <1>1 DEF AcquireDns
  <2>2. \A e \in Domain : dom'[e] = IF e = d THEN "resolving" ELSE dom[e]
    BY <2>1 DEF TypeOK
  <2>3. Pending2' = Pending2 \ {} /\ Pending3' = (Pending3 \ {}) \cup {}
    BY <1>d, <2>1, <2>2 DEF Pending2, Pending3, EmailsAt
  <2> QED
    BY <1>0, <1>m, <1>e, <1>c, <2>1, <2>3, WorkCounts DEF Counter, Announced
<1>2. CASE DnsNoMail(d) \/ DnsAddressOnly(d) \/ DnsRaises(d)
  <2>1. \E v : v.stage = 2 /\ DnsSettles(d, v)
    BY <1>2 DEF DnsNoMail, DnsAddressOnly, DnsRaises, Result
  <2>2. PICK v : v.stage = 2 /\ DnsSettles(d, v)
    BY <2>1
  <2>3. /\ dom[d] = "resolving" /\ dom' = [dom EXCEPT ![d] = "closed"] /\ CountDns(d, FALSE)
        /\ Report(Group(d), v) /\ Move(Group(d), "settled")
    BY <2>2 DEF DnsSettles
  <2>4. \A e \in Domain : dom'[e] = IF e = d THEN "closed" ELSE dom[e]
    BY <2>3 DEF TypeOK
  <2>5. ASSUME NEW i \in Email
        PROVE  /\ at'[i] = IF i \in Group(d) THEN "settled" ELSE at[i]
               /\ verdict'[i].stage # 4 /\ at'[i] \notin SecondTry
    BY <1>m, <2>2, <2>3 DEF Move, Report, SecondTry
  <2>6. /\ Group(d) \subseteq Pending2 /\ Pending2' = Pending2 \ Group(d)
        /\ Pending3' = (Pending3 \ {}) \cup {}
    BY <1>d, <2>3, <2>4, <2>5 DEF Pending2, Pending3, Group, EmailsAt
  <2>7. /\ counters'["stage2_done"] = counters["stage2_done"] + Cardinality(Group(d))
        /\ counters'["stage3_total"] = counters["stage3_total"] + Cardinality({})
        /\ counters'["stage3_done"] = counters["stage3_done"] + Cardinality({})
        /\ \A c \in Counter \ {"stage2_done", "stage3_total"} : counters'[c] = counters[c]
    BY <1>e, <1>c, <2>3 DEF CountDns, TypeOK, Counter
  <2> QED
    BY <1>0, <2>5, <2>6, <2>7, WorkCounts DEF Counter, Announced
<1>3. CASE DnsMailHosts(d)
  <2>1. /\ dom[d] = "resolving" /\ dom' = [dom EXCEPT ![d] = "hosted"] /\ CountDns(d, TRUE)
        /\ UNCHANGED <<at, verdict>>
    BY <1>3 DEF DnsMailHosts
  <2>2. \A e \in Domain : dom'[e] = IF e = d THEN "hosted" ELSE dom[e]
    BY <2>1 DEF TypeOK
  <2>3. /\ Group(d) \subseteq Pending2 /\ Pending2' = Pending2 \ Group(d)
        /\ Group(d) \subseteq Email /\ Group(d) \cap Pending3 = {}
        /\ Pending3' = (Pending3 \ {}) \cup Group(d)
    BY <1>d, <2>1, <2>2 DEF Pending2, Pending3, Group, EmailsAt
  <2>4. /\ counters'["stage2_done"] = counters["stage2_done"] + Cardinality(Group(d))
        /\ counters'["stage3_total"] = counters["stage3_total"] + Cardinality(Group(d))
        /\ counters'["stage3_done"] = counters["stage3_done"] + Cardinality({})
        /\ \A c \in Counter \ {"stage2_done", "stage3_total"} : counters'[c] = counters[c]
    BY <1>e, <1>c, <2>1 DEF CountDns, TypeOK, Counter
  <2> QED
    BY <1>0, <1>m, <2>1, <2>3, <2>4, WorkCounts DEF Counter, Announced
<1> QED
  BY <1>1, <1>2, <1>3 DEF DnsStep

\* handle_stage3_result counts what it reports.
LEMMA ReportStage3Effect ==
  ASSUME TypeOK, NEW S, NEW s, NEW sub, ReportStage3(S, s, sub)
  PROVE  /\ counters'["stage3_done"] = counters["stage3_done"] + Cardinality(S)
         /\ \A c \in Counter \ {"stage3_done"} : counters'[c] = counters[c]
         /\ \A i \in Email : verdict'[i].stage \in {3, verdict[i].stage}
  BY DEF ReportStage3, Report, Result, TypeOK, Counter

\* What is reported in Stage 3 was owed there.
LEMMA Stage3Counts ==
  ASSUME TypeOK, Lifecycle, Counting, pc = "smtp", pc' \in {"smtp", "publish"},
         UNCHANGED <<raw, status, progress>>,
         NEW S, S \subseteq Pending3, NEW s, NEW sub, ReportStage3(S, s, sub), Move(S, "settled"),
         \A i \in Email \ S : at[i] = "domain" =>
           dom'[DomainOfEmail(i)] = dom[DomainOfEmail(i)]
  PROVE  Counting'
<1>0. ~Scoring /\ status # "complete"
  BY DEF Lifecycle, JobAgrees, Scoring
<1>m. \A i \in Email : verdict[i].stage # 4 /\ at[i] \notin SecondTry
  BY <1>0, NotYetMarked
<1>c. (\A c \in Counter : counters[c] \in Int) /\ Cardinality({}) = 0
  BY CounterTypes, FS_EmptySet
<1>1. ASSUME NEW i \in Email
      PROVE  /\ at'[i] = IF i \in S THEN "settled" ELSE at[i]
             /\ verdict'[i].stage # 4 /\ at'[i] \notin SecondTry
             /\ DomainOfEmail(i)' = DomainOfEmail(i)
  BY <1>m, ReportStage3Effect DEF Move, SecondTry, DomainOfEmail
<1>2. Pending3' = (Pending3 \ S) \cup {}
  BY <1>1 DEF Pending3
<1>3. Pending2' = Pending2 \ {}
  <2>1. S \cap Pending2 = {}
    BY DEF Pending2, Pending3, EmailsAt
  <2> QED
    BY <1>1, <2>1 DEF Pending2, EmailsAt
<1>4. /\ counters'["stage3_done"] = counters["stage3_done"] + Cardinality(S)
      /\ counters'["stage3_total"] = counters["stage3_total"] + Cardinality({})
      /\ counters'["stage2_done"] = counters["stage2_done"] + Cardinality({})
      /\ \A c \in Counter \ {"stage3_done"} : counters'[c] = counters[c]
  BY <1>c, ReportStage3Effect DEF Counter
<1> QED
  BY <1>0, <1>1, <1>2, <1>3, <1>4, WorkCounts DEF Counter, Announced

\* What moves inside Stage 3 is still owed.
LEMMA Stage3Moves ==
  ASSUME TypeOK, Lifecycle, Counting, pc \in {"dns", "smtp"}, pc' \in {"dns", "smtp"},
         UNCHANGED <<raw, status, progress, verdict, counters>>,
         Pending2' = Pending2, Pending3' = Pending3, \A i \in Email : at'[i] \notin SecondTry
  PROVE  Counting'
<1>0. ~Scoring /\ status # "complete"
  BY DEF Lifecycle, JobAgrees, Scoring
<1>m. \A i \in Email : verdict[i].stage # 4
  BY <1>0, NotYetMarked
<1>c. (\A c \in Counter : counters[c] \in Int) /\ Cardinality({}) = 0
  BY CounterTypes, FS_EmptySet
<1>1. Pending2' = Pending2 \ {} /\ Pending3' = (Pending3 \ {}) \cup {}
  OBVIOUS
<1> QED
  BY <1>0, <1>m, <1>c, <1>1, WorkCounts DEF Counter, Announced

LEMMA CatchAllCounts ==
  ASSUME TypeOK, Lifecycle, Counting, NEW d \in Domain, CatchAllStep(d)
  PROVE  Counting'
<1>0. /\ dom[d] = "catchall" /\ pc = "smtp" /\ ~Scoring /\ UNCHANGED <<raw, status, pc, progress>>
  BY DEF CatchAllStep, CatchAllYes, CatchAllNo, Lifecycle, JobAgrees, DomainAgrees, Scoring
<1>d. \A i \in Email : DomainOfEmail(i) \in Domain /\ DomainOfEmail(i)' = DomainOfEmail(i)
  BY <1>0, EmailDomain DEF DomainOfEmail
<1>1. CASE CatchAllYes(d)
  <2>1. /\ dom' = [dom EXCEPT ![d] = "closed"] /\ Move(Group(d), "settled")
        /\ ReportStage3(Group(d), "reserved", "accept_all")
    BY <1>1 DEF CatchAllYes
  <2>2. Group(d) \subseteq Pending3
    BY <1>0 DEF Group, Pending3, EmailsAt
  <2>3. \A i \in Email \ Group(d) : at[i] = "domain" =>
          dom'[DomainOfEmail(i)] = dom[DomainOfEmail(i)]
    BY <1>d, <2>1 DEF Group, EmailsAt, TypeOK
  <2> QED
    BY <1>0, <2>1, <2>2, <2>3, Stage3Counts
<1>2. CASE CatchAllNo(d)
  <2>1. /\ dom' = [dom EXCEPT ![d] = "open"] /\ Move(Group(d), "mailbox")
        /\ UNCHANGED <<verdict, counters>>
    BY <1>2 DEF CatchAllNo
  <2>2. /\ \A i \in Email : at'[i] = IF i \in Group(d) THEN "mailbox" ELSE at[i]
        /\ \A e \in Domain : dom'[e] = IF e = d THEN "open" ELSE dom[e]
    BY <2>1 DEF Move, TypeOK
  <2>3. Pending2' = Pending2 /\ Pending3' = Pending3
    BY <1>0, <1>d, <2>2 DEF Pending2, Pending3, Group, EmailsAt
  <2>4. \A i \in Email : at'[i] \notin SecondTry
    BY <1>0, <2>2, NotYetMarked DEF SecondTry
  <2> QED
    BY <1>0, <2>1, <2>3, <2>4, Stage3Moves
<1> QED
  BY <1>1, <1>2 DEF CatchAllStep

LEMMA MailboxCounts ==
  ASSUME TypeOK, Lifecycle, Counting, NEW j \in Email, MailboxStep(j)
  PROVE  Counting'
<1>0. /\ at[j] \in {"mailbox", "probing"} /\ UNCHANGED <<raw, status, pc, dom, progress>>
  BY DEF MailboxStep, AcquireMailbox, ProbeNoHost, ProbeExists, ProbeRejected, ProbeUnknown,
         ProbeSettles, ProbeRetry
<1>1. /\ pc \notin {"start", "read", "raised", "dns", "publish", "announce", "split"} /\ ~Early /\ ~Scoring
  BY <1>0 DEF Lifecycle, EmailAgrees, Early, InStage4
<1>2. pc = "smtp"
  BY <1>1 DEF Lifecycle, JobAgrees, Scoring, Early, TypeOK
<1>d. \A i \in Email : DomainOfEmail(i)' = DomainOfEmail(i)
  BY <1>0 DEF DomainOfEmail
<1>3. CASE AcquireMailbox(j) \/ ProbeRetry(j)
  <2>1. /\ UNCHANGED <<verdict, counters>>
        /\ \E place \in {"probing", "parked"} :
             \A i \in Email : at'[i] = IF i = j THEN place ELSE at[i]
    BY <1>3 DEF AcquireMailbox, ProbeRetry, Move
  <2>2. Pending2' = Pending2 /\ Pending3' = Pending3
    BY <1>0, <1>d, <2>1 DEF Pending2, Pending3, EmailsAt
  <2>3. \A i \in Email : at'[i] \notin SecondTry
    BY <1>1, <2>1, NotYetMarked DEF SecondTry
  <2> QED
    BY <1>0, <1>2, <2>1, <2>2, <2>3, Stage3Moves
<1>4. CASE ProbeNoHost(j) \/ ProbeExists(j) \/ ProbeRejected(j) \/ ProbeUnknown(j)
  <2>1. \E s, sub : ReportStage3({j}, s, sub)
    BY <1>4 DEF ProbeNoHost, ProbeExists, ProbeRejected, ProbeUnknown, ProbeSettles
  <2>2. Move({j}, "settled") /\ {j} \subseteq Pending3
    BY <1>0, <1>4 DEF ProbeNoHost, ProbeExists, ProbeRejected, ProbeUnknown, ProbeSettles, Pending3
  <2> QED
    BY <1>0, <1>2, <2>1, <2>2, Stage3Counts
<1> QED
  BY <1>3, <1>4 DEF MailboxStep

LEMMA BetweenStagesCount ==
  ASSUME TypeOK, Lifecycle, Counting, StartStage3 \/ EmitGreylisted \/ EmitProgress \/ PublishStage3
  PROVE  Counting'
<1>0. /\ pc \in {"dns", "smtp", "publish", "announce"} /\ status \notin {"complete", "failed"}
      /\ ~Scoring /\ UNCHANGED raw
  BY DEF StartStage3, EmitGreylisted, EmitProgress, PublishStage3, Lifecycle, JobAgrees, Scoring
<1>m. \A i \in Email : verdict[i].stage # 4 /\ at[i] \notin SecondTry
  BY <1>0, NotYetMarked
<1>d. \A i \in Email : DomainOfEmail(i) \in Domain /\ DomainOfEmail(i)' = DomainOfEmail(i)
  BY <1>0, EmailDomain DEF DomainOfEmail
<1>1. CASE StartStage3
  <2>1. /\ pc = "dns" /\ pc' = "smtp" /\ UNCHANGED <<status, at, verdict, counters, progress>>
        /\ \A d \in Domain : dom'[d] = IF dom[d] = "hosted" THEN "catchall" ELSE dom[d]
    BY <1>1 DEF StartStage3
  <2>2. Pending2' = Pending2 /\ Pending3' = Pending3
    BY <1>d, <2>1 DEF Pending2, Pending3, EmailsAt
  <2> QED
    BY <1>0, <1>m, <2>1, <2>2, Stage3Moves
<1>2. CASE EmitGreylisted
  <2>1. /\ pc = "smtp" /\ pc' = "publish" /\ UNCHANGED <<status, dom, progress>>
        /\ ReportStage3(EmailsAt("parked"), "reserved", "greylisted")
        /\ Move(EmailsAt("parked"), "settled") /\ EmailsAt("parked") \subseteq Pending3
    BY <1>2 DEF EmitGreylisted, EmailsAt, Pending3
  <2> QED
    BY <1>0, <2>1, Stage3Counts
<1>3. CASE EmitProgress \/ PublishStage3
  <2>1. /\ pc \in {"publish", "announce"} /\ pc' \in {"announce", "split"}
        /\ status' \in {status, "stage3"} /\ progress' = counters
        /\ UNCHANGED <<dom, at, verdict, counters>>
    BY <1>3 DEF EmitProgress, PublishStage3
  <2>2. Pending2' = Pending2 /\ Pending3' = Pending3
    BY <1>d, <2>1 DEF Pending2, Pending3, EmailsAt
  <2>3. Owed'
    BY <1>0, <2>1, <2>2 DEF Counting, Owed
  <2>4. Bounds' /\ Shown'
    BY <1>0, <2>1 DEF Counting, Bounds, Shown, Announced, Scoring
  <2> QED
    BY <1>m, <2>1, <2>3, <2>4 DEF Counting, Marked
<1> QED
  BY <1>1, <1>2, <1>3

\* In Stage 4 the earlier stages owe nothing.
LEMMA EarlierStagesOver ==
  ASSUME Lifecycle, Scoring \/ Announced
  PROVE  Pending2 = {} /\ Pending3 = {}
<1>1. ASSUME NEW i \in Email PROVE at[i] \in {"rest", "asleep", "retrying", "still", "settled"}
  BY DEF Lifecycle, EmailAgrees, InStage4, Announced
<1> QED
  BY <1>1 DEF Pending2, Pending3, EmailsAt

LEMMA SplitCounts ==
  ASSUME TypeOK, Lifecycle, Counting, EnterStage4
  PROVE  Counting'
<1>0. /\ pc = "split" /\ pc' = "score" /\ status' = "stage4" /\ ~Scoring /\ progress' = counters'
      /\ UNCHANGED <<raw, dom, verdict>>
      /\ at' = [i \in Email |-> IF i \in Greylisted THEN "asleep"
                               ELSE IF i \in Reserved THEN "rest" ELSE at[i]]
  BY DEF EnterStage4, Lifecycle, JobAgrees, Scoring
<1>m. \A i \in Email : verdict[i].stage # 4 /\ at[i] \notin SecondTry
  BY <1>0, NotYetMarked
<1>1. /\ counters'["stage4_total"] = Cardinality(Reserved) /\ counters'["stage4_done"] = 0
      /\ \A c \in Counter \ {"stage4_total", "stage4_done"} : counters'[c] = counters[c]
  BY DEF EnterStage4, TypeOK, Counter
<1>2. \A i \in Email : at[i] = "settled"
  BY <1>0 DEF Lifecycle, EmailAgrees
<1>3. Pending2 = {} /\ Pending3 = {}
  BY <1>0, EarlierStagesOver DEF Announced
<1>4. Pending2' = {} /\ Pending3' = {}
  BY <1>0, <1>2 DEF Pending2, Pending3, EmailsAt
<1>5. Pending4' = Reserved /\ CountedTwice' = {}
  BY <1>0, <1>2, <1>m DEF Pending4, CountedTwice, Reserved, Greylisted
<1>6. Cardinality({}) = 0 /\ Cardinality(Reserved) \in Nat
  BY FS_EmptySet, EmailSets DEF Reserved
<1>7. Owed'
  BY <1>1, <1>3, <1>4, <1>5, <1>6 DEF Counting, Owed, Counter
<1>8. Bounds' /\ Shown'
  BY <1>0 DEF Bounds, Shown, Announced, Scoring
<1>9. ASSUME NEW i \in Email PROVE Marked(i)'
  BY <1>0, <1>2, <1>m DEF Marked, Scoring, SecondTry, Greylisted
<1> QED
  BY <1>7, <1>8, <1>9 DEF Counting

\* A step of Stage 4 that has counted what it took from Pending4 or added to
\* CountedTwice.
LEMMA ScoringCounts ==
  ASSUME TypeOK, Lifecycle, Counting, pc = "score", UNCHANGED <<raw, pc, status>>,
         counters' = counters \/ \E n \in Int : counters' = [counters EXCEPT !["stage4_done"] = @ + n],
         progress' = counters',
         NEW S, S \subseteq Email,
         counters'["stage4_done"] = counters["stage4_done"] + Cardinality(S),
         \/ S \subseteq Pending4 /\ Pending4' = Pending4 \ S /\ CountedTwice' = CountedTwice
         \/ S \cap CountedTwice = {} /\ Pending4' = Pending4 /\ CountedTwice' = CountedTwice \cup S,
         \A i \in Email : at'[i] \in {at[i], "settled", "still", "retrying"} /\ Marked(i)'
  PROVE  Counting'
<1>0. status # "complete" /\ Scoring
  BY DEF Lifecycle, JobAgrees, Scoring
<1>1. \A c \in Counter \ {"stage4_done"} : counters'[c] = counters[c]
  BY DEF TypeOK
<1>2. Pending2 = {} /\ Pending3 = {}
  BY <1>0, EarlierStagesOver DEF Announced
<1>3. Pending2' = {} /\ Pending3' = {}
  <2>1. ASSUME NEW i \in Email
        PROVE  at'[i] \in {"rest", "asleep", "retrying", "still", "settled"}
    BY <1>0 DEF Lifecycle, EmailAgrees, InStage4
  <2> QED
    BY <2>1 DEF Pending2, Pending3, EmailsAt
<1>4. /\ counters["stage4_done"] \in Int /\ counters["stage4_total"] \in Int
      /\ Cardinality(S) \in Nat /\ Cardinality(Pending4) \in Nat /\ Cardinality(CountedTwice) \in Nat
  BY OwedSets, EmailSets, CounterTypes DEF Counter
<1>5. counters'["stage4_done"] + Cardinality(Pending4')
        = counters["stage4_total"] + Cardinality(CountedTwice')
  <2>0. counters["stage4_done"] + Cardinality(Pending4)
          = counters["stage4_total"] + Cardinality(CountedTwice)
    BY DEF Counting, Owed
  <2>1. CASE S \subseteq Pending4 /\ Pending4' = Pending4 \ S /\ CountedTwice' = CountedTwice
    <3>1. Cardinality(Pending4') = Cardinality(Pending4) - Cardinality(S)
      BY <2>1, OwedSets, Remainder
    <3> QED
      BY <1>4, <2>0, <2>1, <3>1
  <2>2. CASE S \cap CountedTwice = {} /\ Pending4' = Pending4 /\ CountedTwice' = CountedTwice \cup S
    <3>1. Cardinality(CountedTwice') = Cardinality(CountedTwice) + Cardinality(S)
      BY <2>2, OwedSets, DisjointUnion
    <3> QED
      BY <1>4, <2>0, <2>2, <3>1
  <2> QED
    BY <2>1, <2>2
<1>6. Owed'
  BY <1>1, <1>2, <1>3, <1>5 DEF Counting, Owed, Counter
<1>7. Bounds' /\ Shown'
  BY <1>0 DEF Bounds, Shown, Announced, Scoring
<1> QED
  BY <1>6, <1>7 DEF Counting

\* A step of Stage 4 that counts nothing.
LEMMA QuietScoring ==
  ASSUME TypeOK, Lifecycle, Counting, pc = "score",
         UNCHANGED <<raw, pc, status, verdict, counters>>, progress' = counters,
         \A i \in Email : at'[i] \in {at[i], "retrying"} /\ (at'[i] = at[i] \/ at[i] = "asleep")
  PROVE  Counting'
<1>1. Cardinality({}) = 0 /\ counters["stage4_done"] \in Int
  BY FS_EmptySet, CounterTypes DEF Counter
<1>2. Pending4' = Pending4 \ {} /\ CountedTwice' = CountedTwice
  BY DEF Pending4, CountedTwice
<1>3. ASSUME NEW i \in Email PROVE Marked(i)'
  BY DEF Counting, Marked, Scoring, SecondTry
<1>4. counters'["stage4_done"] = counters["stage4_done"] + Cardinality({})
  BY <1>1
<1> QED
  BY <1>2, <1>3, <1>4, ScoringCounts

\* Who is at work in Stage 4 is at work in it.
LEMMA AtWork ==
  ASSUME TypeOK, Lifecycle
  PROVE  /\ \A b \in Batch, d \in Domain : fetch[b][d] \in {"waiting", "fetching"} => pc = "score"
         /\ retry \in {"asleep", "retrying", "scoring"} => pc = "score"
         /\ \A i \in Email : at[i] \in {"rest", "asleep", "retrying", "still"} => pc = "score"
<1>1. ASSUME NEW b \in Batch, NEW d \in Domain, fetch[b][d] \in {"waiting", "fetching"}
      PROVE  pc = "score"
  <2>1. Scoring /\ status # "complete"
    BY <1>1 DEF Lifecycle, JobAgrees, DomainAgrees, Batch
  <2> QED
    BY <2>1 DEF Scoring
<1>2. retry \in {"asleep", "retrying", "scoring"} => pc = "score"
  BY DEF Lifecycle, JobAgrees, Scoring
<1>3. ASSUME NEW i \in Email, at[i] \in {"rest", "asleep", "retrying", "still"}
      PROVE  pc = "score"
  <2>1. EmailAgrees(i) /\ JobAgrees /\ DomainOfEmail(i) \in Domain
    BY EmailDomain DEF Lifecycle
  <2>2. Scoring
    BY <1>3, <2>1 DEF EmailAgrees, JobAgrees, TypeOK, Scoring, Early
  <2>3. InStage4(i)
    BY <2>1, <2>2 DEF EmailAgrees
  <2> QED
    BY <1>1, <1>2, <1>3, <2>1, <2>3 DEF InStage4, Batch
<1> QED
  BY <1>1, <1>2, <1>3

LEMMA ScoreCounts ==
  ASSUME TypeOK, Lifecycle, Counting, NEW b \in Batch, NEW d \in Domain, ScoreStep(b, d)
  PROVE  Counting'
<1>0. pc = "score" /\ UNCHANGED <<raw, pc, status>>
  BY AtWork DEF ScoreStep, AcquireWebsite, ScoreDomain
<1>1. CASE AcquireWebsite(b, d)
  <2>1. UNCHANGED <<at, verdict, counters, progress>> /\ progress = counters
    BY <1>0, <1>1 DEF AcquireWebsite, Counting, Shown, Announced, Scoring
  <2> QED
    BY <1>0, <2>1, QuietScoring
<1>2. CASE ScoreDomain(b, d)
  <2> DEFINE S == Refs(b, d)
  <2>1. /\ S \subseteq Email
        /\ \A i \in S : at[i] = b
        /\ \A i \in Email : at'[i] = IF i \in S THEN "settled" ELSE at[i]
    BY <1>2 DEF ScoreDomain, Refs, EmailsAt, Move
  <2>2. \A i \in Email : verdict'[i].sub = verdict[i].sub
                         /\ verdict'[i].stage = (IF i \in S THEN 4 ELSE verdict[i].stage)
    BY <1>2 DEF ScoreDomain, Scored, TypeOK, Verdict
  <2>3. CountStage4(Cardinality(S)) /\ Cardinality(S) \in Int
    BY <1>2, <2>1, EmailSets DEF ScoreDomain
  <2>4. counters'["stage4_done"] = counters["stage4_done"] + Cardinality(S) /\ progress' = counters'
    BY <2>3 DEF CountStage4, TypeOK, Counter
  <2>5. \E n \in Int : counters' = [counters EXCEPT !["stage4_done"] = @ + n]
    BY <2>3 DEF CountStage4
  <2> HIDE DEF S
  <2>6. ASSUME NEW i \in Email PROVE Marked(i)'
    BY <1>0, <2>1, <2>2 DEF Counting, Marked, Scoring, SecondTry
  <2>7. CASE b = "rest"
    <3>1. \A i \in S : verdict[i].sub # "greylisted"
      BY <1>0, <2>1, <2>7 DEF Lifecycle, EmailAgrees, InStage4, Scoring
    <3>2. S \subseteq Pending4 /\ Pending4' = Pending4 \ S
      BY <2>1, <2>7 DEF Pending4
    <3>3. CountedTwice' = CountedTwice
      BY <2>1, <2>2, <3>1 DEF CountedTwice
    <3> QED
      BY <1>0, <2>1, <2>4, <2>5, <2>6, <3>2, <3>3, ScoringCounts
  <2>8. CASE b = "still"
    <3>1. \A i \in S : verdict[i].sub = "greylisted" /\ verdict[i].stage # 4
      BY <2>1, <2>8 DEF Counting, Marked, SecondTry
    <3>2. Pending4' = Pending4
      BY <2>1, <2>8 DEF Pending4
    <3>3. S \cap CountedTwice = {} /\ CountedTwice' = CountedTwice \cup S
      BY <2>1, <2>2, <3>1 DEF CountedTwice
    <3> QED
      BY <1>0, <2>1, <2>4, <2>5, <2>6, <3>2, <3>3, ScoringCounts
  <2> QED
    BY <2>7, <2>8 DEF Batch
<1> QED
  BY <1>1, <1>2 DEF ScoreStep

LEMMA RetryCounts ==
  ASSUME TypeOK, Lifecycle, Counting, NEW j \in Email, RetryStep(j)
  PROVE  Counting'
<1>1. /\ at[j] = "retrying" /\ pc = "score" /\ UNCHANGED <<raw, pc, status>> /\ CountStage4(1)
  BY AtWork DEF RetryStep, RetryExists, RetryRejected, RetryInconclusive
<1>2. Cardinality({j}) = 1
  BY FS_Singleton
<1>3. counters'["stage4_done"] = counters["stage4_done"] + Cardinality({j}) /\ progress' = counters'
  BY <1>1, <1>2 DEF CountStage4, TypeOK, Counter
<1>4. \E n \in Int : counters' = [counters EXCEPT !["stage4_done"] = @ + n]
  <2>1. 1 \in Int /\ counters' = [counters EXCEPT !["stage4_done"] = @ + 1]
    BY <1>1 DEF CountStage4
  <2> QED
    BY <2>1, Zenon
<1>5. \A i \in Email : at'[i] \in (IF i = j THEN {"settled", "still"} ELSE {at[i]})
  BY DEF RetryStep, RetryExists, RetryRejected, RetryInconclusive, Move
<1>6. /\ \A i \in Email : i # j => verdict'[i] = verdict[i]
      /\ verdict'[j].stage = verdict[j].stage
      /\ at'[j] = "still" => verdict'[j] = verdict[j]
  BY DEF RetryStep, RetryExists, RetryRejected, RetryInconclusive, Move, Retried, TypeOK
<1>7. verdict[j].sub = "greylisted" /\ verdict[j].stage # 4
  BY <1>1 DEF Counting, Marked, SecondTry
<1>8. CountedTwice' = CountedTwice
  BY <1>6, <1>7 DEF CountedTwice
<1>9. {j} \subseteq Pending4 /\ Pending4' = Pending4 \ {j}
  BY <1>1, <1>5 DEF Pending4
<1>10. ASSUME NEW i \in Email PROVE at'[i] \in {at[i], "settled", "still", "retrying"} /\ Marked(i)'
  BY <1>1, <1>5, <1>6, <1>7 DEF Counting, Marked, Scoring, SecondTry
<1> QED
  BY <1>1, <1>3, <1>4, <1>8, <1>9, <1>10, ScoringCounts

LEMMA GreylistCounts ==
  ASSUME TypeOK, Lifecycle, Counting, WakeGreylist \/ EndRetries \/ EndGreylist
  PROVE  Counting'
<1>1. /\ pc = "score" /\ UNCHANGED <<raw, pc, status, verdict, counters>>
      /\ progress' \in {progress, counters} /\ progress = counters
  BY AtWork DEF WakeGreylist, EndRetries, EndGreylist, Counting, Shown, Announced, Scoring
<1>2. \A i \in Email : at'[i] \in {at[i], "retrying"} /\ (at'[i] = at[i] \/ at[i] = "asleep")
  BY DEF WakeGreylist, EndRetries, EndGreylist, Move, EmailsAt
<1> QED
  BY <1>1, <1>2, QuietScoring

LEMMA CompleteCounts ==
  ASSUME TypeOK, Lifecycle, Counting, Complete
  PROVE  Counting'
<1>1. /\ pc = "score" /\ pc' = "end" /\ status' = "complete" /\ progress' = counters'
      /\ UNCHANGED <<raw, at, dom, verdict>>
  BY DEF Complete
<1>2. /\ counters'["stage4_done"] = counters["stage4_total"]
      /\ \A c \in Counter \ {"stage4_done"} : counters'[c] = counters[c]
  BY DEF Complete, TypeOK, Counter
<1>3. Pending2' = Pending2 /\ Pending3' = Pending3
  BY <1>1 DEF Pending2, Pending3, EmailsAt, DomainOfEmail
<1>4. Owed'
  BY <1>1, <1>2, <1>3 DEF Counting, Owed, Counter
<1>5. Bounds' /\ Shown'
  BY <1>1, <1>2 DEF Bounds, Shown, Announced, Scoring, Counter
<1>6. ASSUME NEW i \in Email PROVE Marked(i)'
  BY <1>1 DEF Counting, Marked, Scoring
<1> QED
  BY <1>4, <1>5, <1>6 DEF Counting

\* At every step a stage's total is what it has done and what it still owes
\* (the counters of run_pipeline, which tasks of all stages write).
THEOREM CountingInvariant == Spec => []Counting
<1>1. Init => Counting
  <2> SUFFICES ASSUME Init PROVE Counting
    OBVIOUS
  <2>1. /\ pc = "start" /\ status = "pending" /\ counters = ZeroCounters /\ progress = ZeroCounters
        /\ \A i \in Email : at[i] = "input" /\ verdict[i].stage = 0
    BY DEF Init, NoVerdict
  <2>2. Pending2 = {} /\ Pending3 = {} /\ Cardinality({}) = 0
    BY <2>1, FS_EmptySet DEF Pending2, Pending3, EmailsAt
  <2> QED
    BY <2>1, <2>2 DEF Counting, Owed, Bounds, Shown, Announced, Marked, Scoring, SecondTry,
                      ZeroCounters, Counter
<1>2. TypeOK /\ Lifecycle /\ Counting /\ [Next]_vars => Counting'
  <2> SUFFICES ASSUME TypeOK, Lifecycle, Counting, [Next]_vars PROVE Counting'
    OBVIOUS
  <2>1. CASE UNCHANGED vars
    <3>1. Pending2' = Pending2 /\ Pending3' = Pending3 /\ Pending4' = Pending4
          /\ CountedTwice' = CountedTwice
      BY <2>1 DEF vars, Pending2, Pending3, Pending4, CountedTwice, EmailsAt, DomainOfEmail
    <3> QED
      BY <2>1, <3>1 DEF vars, Counting, Owed, Bounds, Shown, Announced, Marked, Scoring
  <2> QED
    BY <2>1, StageOneCounts, DnsCounts, CatchAllCounts, MailboxCounts, BetweenStagesCount,
       SplitCounts, ScoreCounts, RetryCounts, GreylistCounts, CompleteCounts DEF Next
<1> QED
  BY <1>1, <1>2, TypeInvariant, LifecycleInvariant, PTL DEF Spec

\* A finished job shows every stage with done = total.  Before, Stages 2 and
\* 3 never show more than their total, and Stage 4 exceeds its own by at most
\* the emails that are counted when retried and again when scored
\* (stage4_done of score_reserved_batch and of greylist_retry, runner.py).
THEOREM ProgressIsHonest == Spec => []ProgressHonest
<1>1. TypeOK /\ Lifecycle /\ Counting => ProgressHonest
  <2> SUFFICES ASSUME TypeOK, Lifecycle, Counting PROVE ProgressHonest
    OBVIOUS
  <2>0. /\ \A c \in Counter : counters[c] \in Int
        /\ Cardinality(Pending4) \in Nat /\ Cardinality(CountedTwice) \in Nat
    BY CounterTypes, OwedSets, EmailSets
  <2>1. CASE Scoring \/ Announced
    <3>1. Pending2 = {} /\ Pending3 = {} /\ Cardinality({}) = 0 /\ progress = counters
      BY <2>1, EarlierStagesOver, FS_EmptySet DEF Counting, Shown, Announced
    <3>2. /\ progress["stage2_done"] = progress["stage2_total"]
          /\ progress["stage3_done"] = progress["stage3_total"]
      BY <2>0, <3>1 DEF Counting, Owed, Counter
    <3>3. status = "complete" => progress["stage4_done"] = progress["stage4_total"]
      BY <3>1 DEF Counting, Bounds
    <3>4. progress["stage4_done"] <= progress["stage4_total"] + Cardinality(CountedTwice)
      <4>1. pc = "score" \/ status = "complete" \/ ~Scoring
        BY DEF Scoring
      <4> QED
        BY <2>0, <3>1, <3>3, <4>1 DEF Counting, Owed, Bounds, Counter
    <3> QED
      BY <3>2, <3>3, <3>4 DEF ProgressHonest, CountedTwice
  <2>2. CASE ~(Scoring \/ Announced)
    <3>1. progress = ZeroCounters /\ status # "complete"
      BY <2>2 DEF Counting, Shown, Announced, Scoring
    <3>2. progress["stage4_done"] <= progress["stage4_total"] + Cardinality(CountedTwice)
      BY <2>0, <3>1 DEF ZeroCounters, Counter
    <3> QED
      BY <3>1, <3>2 DEF ProgressHonest, CountedTwice, ZeroCounters, Counter
  <2> QED
    BY <2>1, <2>2
<1> QED
  BY <1>1, TypeInvariant, LifecycleInvariant, CountingInvariant, PTL

-----------------------------------------------------------------------------
(* "valid" needs proof.                                                      *)

\* What ValidNeedsProof asks of one result, and that a greylisted one has been
\* through Stage 3: a second try leaves it there.
Proved(v) ==
  /\ v.sub = "smtp_confirmed" => v.status = "valid" /\ v.stage = 3
  /\ v.status = "valid" /\ v.sub # "smtp_confirmed" =>
       AllowReputation /\ v.promoted /\ v.stage = 4 /\ v.sub \notin NeverPromote
  /\ v.sub = "greylisted" => v.stage \in {3, 4}

AllProved == \A i \in Email : Proved(verdict[i])

\* Only the confirmed probe reports "valid".
LEMMA ReportProved ==
  ASSUME AllProved, NEW S, NEW s, NEW sub, NEW stage, Report(S, Result(s, sub, stage)),
         s = "valid" <=> sub = "smtp_confirmed", sub \in {"smtp_confirmed", "greylisted"} => stage = 3,
         NEW i \in Email
  PROVE  Proved(verdict'[i])
<1>1. Proved(Result(s, sub, stage))
  BY DEF Proved, Result
<1>2. Proved(verdict[i])
  BY DEF AllProved
<1> QED
  BY <1>1, <1>2 DEF Report

LEMMA StageOneProved ==
  ASSUME AllProved, StageOne, NEW i \in Email
  PROVE  Proved(verdict'[i])
<1>1. CASE Begin \/ ReadQueued \/ ReadUnstorable \/ Fail \/ EndStage1
  BY <1>1 DEF AllProved, Begin, ReadQueued, ReadUnstorable, Fail, EndStage1
<1>2. CASE ReadMalformed
  BY <1>2, ReportProved DEF ReadMalformed, StageOneVerdict
<1>3. CASE ReadDuplicate
  BY <1>3, ReportProved DEF ReadDuplicate, StageOneVerdict
<1>4. CASE ReadListed
  <2>1. PICK k \in 1 .. 3 : StageOneVerdict(Result(ListChecks[k].status, ListChecks[k].sub, 1))
    BY <1>4 DEF ReadListed
  <2>2. /\ ListChecks[k].status # "valid"
        /\ ListChecks[k].sub \notin {"smtp_confirmed", "greylisted"}
    <3>1. k = 1 \/ k = 2 \/ k = 3
      OBVIOUS
    <3> QED
      BY <3>1 DEF ListChecks
  <2> QED
    BY <2>1, <2>2, ReportProved DEF StageOneVerdict
<1>5. CASE ReadFaulty
  BY <1>5, ReportProved DEF ReadFaulty, StageOneVerdict
<1> QED
  BY <1>1, <1>2, <1>3, <1>4, <1>5 DEF StageOne

LEMMA TasksProved ==
  ASSUME AllProved, NEW i \in Email,
         \/ \E d \in Domain : DnsStep(d)
         \/ \E d \in Domain : CatchAllStep(d)
         \/ \E j \in Email : MailboxStep(j)
         \/ EmitGreylisted
  PROVE  Proved(verdict'[i])
<1>1. ASSUME NEW d \in Domain, DnsStep(d) PROVE Proved(verdict'[i])
  <2>1. CASE AcquireDns(d) \/ DnsMailHosts(d)
    BY <2>1 DEF AllProved, AcquireDns, DnsMailHosts
  <2>2. CASE DnsNoMail(d)
    BY <2>2, ReportProved DEF DnsNoMail, DnsSettles
  <2>3. CASE DnsAddressOnly(d)
    BY <2>3, ReportProved DEF DnsAddressOnly, DnsSettles
  <2>4. CASE DnsRaises(d)
    BY <2>4, ReportProved DEF DnsRaises, DnsSettles
  <2> QED
    BY <1>1, <2>1, <2>2, <2>3, <2>4 DEF DnsStep
<1>2. ASSUME NEW d \in Domain, CatchAllStep(d) PROVE Proved(verdict'[i])
  <2>1. CASE CatchAllYes(d)
    BY <2>1, ReportProved DEF CatchAllYes, ReportStage3
  <2>2. CASE CatchAllNo(d)
    BY <2>2 DEF AllProved, CatchAllNo
  <2> QED
    BY <1>2, <2>1, <2>2 DEF CatchAllStep
<1>3. ASSUME NEW j \in Email, MailboxStep(j) PROVE Proved(verdict'[i])
  <2>1. CASE AcquireMailbox(j) \/ ProbeRetry(j)
    BY <2>1 DEF AllProved, AcquireMailbox, ProbeRetry
  <2>2. CASE ProbeNoHost(j)
    BY <2>2, ReportProved DEF ProbeNoHost, ProbeSettles, ReportStage3
  <2>3. CASE ProbeExists(j)
    BY <2>3, ReportProved DEF ProbeExists, ProbeSettles, ReportStage3
  <2>4. CASE ProbeRejected(j)
    BY <2>4, ReportProved DEF ProbeRejected, ProbeSettles, ReportStage3
  <2>5. CASE ProbeUnknown(j)
    BY <2>5, ReportProved DEF ProbeUnknown, ProbeSettles, ReportStage3
  <2> QED
    BY <1>3, <2>1, <2>2, <2>3, <2>4, <2>5 DEF MailboxStep
<1>4. ASSUME EmitGreylisted PROVE Proved(verdict'[i])
  BY <1>4, ReportProved DEF EmitGreylisted, ReportStage3
<1> QED
  BY <1>1, <1>2, <1>3, <1>4

\* Scoring promotes only under the switch and outside NEVER_PROMOTE.
LEMMA ScoreProved ==
  ASSUME TypeOK, Accounting, Counting, AllProved, NEW i \in Email,
         \/ \E b \in Batch, d \in Domain : ScoreStep(b, d)
         \/ \E j \in Email : RetryStep(j)
  PROVE  Proved(verdict'[i])
<1>0. /\ Proved(verdict[i])
      /\ at[i] \in Provisional => verdict[i].status = "reserved"
      /\ at[i] \in SecondTry => verdict[i].sub = "greylisted" /\ verdict[i].stage # 4
  BY DEF AllProved, Accounting, PlacesAgree, Counting, Marked
<1>1. ASSUME NEW b \in Batch, NEW d \in Domain, ScoreStep(b, d) PROVE Proved(verdict'[i])
  <2>1. CASE AcquireWebsite(b, d)
    BY <1>0, <2>1 DEF AcquireWebsite
  <2>2. CASE ScoreDomain(b, d)
    <3>1. \/ MayPromote(i) /\ verdict'[i] = Scored(verdict[i], "valid", TRUE, FALSE)
          \/ verdict'[i] = Scored(verdict[i], "invalid", FALSE, TRUE)
          \/ verdict'[i] = Scored(verdict[i], "invalid", FALSE, FALSE)
          \/ verdict'[i] = Scored(verdict[i], verdict[i].status, FALSE, FALSE)
          \/ verdict'[i] = verdict[i]
      BY <2>2 DEF ScoreDomain
    <3>2. i \in Refs(b, d) => verdict[i].status = "reserved"
      BY <1>0 DEF Refs, EmailsAt, Batch, Provisional
    <3>3. i \notin Refs(b, d) => verdict'[i] = verdict[i]
      BY <2>2 DEF ScoreDomain
    <3>4. i \in Refs(b, d) => Proved(verdict'[i])
      BY <1>0, <3>1, <3>2 DEF Scored, Proved, MayPromote
    <3> QED
      BY <1>0, <3>3, <3>4
  <2> QED
    BY <1>1, <2>1, <2>2 DEF ScoreStep
<1>2. ASSUME NEW j \in Email, RetryStep(j) PROVE Proved(verdict'[i])
  <2>1. CASE RetryInconclusive(j)
    BY <1>0, <2>1 DEF RetryInconclusive
  <2>2. CASE RetryExists(j)
    <3>1. \/ i = j /\ verdict'[i] = Retried(verdict[i], "valid", "smtp_confirmed", TRUE)
          \/ verdict'[i] = verdict[i]
      BY <2>2 DEF RetryExists, TypeOK
    <3>2. i = j => verdict[i].stage = 3
      BY <1>0, <2>2 DEF RetryExists, SecondTry, Proved
    <3> QED
      BY <1>0, <3>1, <3>2 DEF Retried, Proved
  <2>3. CASE RetryRejected(j)
    <3>1. \/ verdict'[i] = Retried(verdict[j], "invalid", "mailbox_not_found", FALSE)
          \/ verdict'[i] = verdict[i]
      BY <2>3 DEF RetryRejected, TypeOK
    <3> QED
      BY <1>0, <3>1 DEF Retried, Proved
  <2> QED
    BY <1>2, <2>1, <2>2, <2>3 DEF RetryStep
<1> QED
  BY <1>1, <1>2

\* What a server confirmed is valid and stays so; a result is valid without
\* only by reputation, where the configuration allows it and outside
\* NEVER_PROMOTE, and is marked as promoted in Stage 4
\* (scoring_core.py:111-134, runner.py:251-270 and 578-606).
THEOREM ValidIsProved == Spec => []ValidNeedsProof
<1>1. Init => AllProved
  BY DEF Init, AllProved, Proved, NoVerdict
<1>2. TypeOK /\ Accounting /\ Counting /\ AllProved /\ [Next]_vars => AllProved'
  <2> SUFFICES ASSUME TypeOK, Accounting, Counting, AllProved, [Next]_vars, NEW i \in Email
               PROVE  Proved(verdict'[i])
    BY SeenGrows DEF AllProved, Proved, AllowReputation
  <2>1. CASE UNCHANGED vars
    BY <2>1 DEF vars, AllProved
  <2>2. CASE StartStage3 \/ EmitProgress \/ PublishStage3 \/ EnterStage4 \/ WakeGreylist \/ EndRetries
             \/ EndGreylist \/ Complete
    BY <2>2 DEF AllProved, StartStage3, EmitProgress, PublishStage3, EnterStage4, WakeGreylist,
                EndRetries, EndGreylist, Complete
  <2> QED
    BY <2>1, <2>2, StageOneProved, TasksProved, ScoreProved DEF Next
<1>3. AllProved => ValidNeedsProof
  BY DEF AllProved, Proved, ValidNeedsProof
<1> QED
  BY <1>1, <1>2, <1>3, TypeInvariant, AccountingInvariant, CountingInvariant, PTL DEF Spec
===============================================================================
