------------------------------ MODULE Pipeline ------------------------------
(* One job of run_pipeline (app/pipeline/runner.py): the Stage-1 loop, the   *)
(* DNS and SMTP stages of _run_dns_smtp_shard, and Stage 4 with its two      *)
(* concurrent coroutines (scoring; greylist retry followed by scoring).      *)
(*                                                                           *)
(* asyncio runs one coroutine at a time and switches only at an await, so an *)
(* action is the code between two awaits of one task.  The code after the    *)
(* shard's last gather has no await, but a Streamlit thread reads the job    *)
(* record while it runs: its writes of status and progress stay actions of   *)
(* their own.                                                                *)
EXTENDS JobCounts

CONSTANTS
  Address,          \* normalised addresses
  Domain,           \* the domains they are at
  DomainOf,         \* [Address -> Domain]
  Traits,           \* [Address -> SUBSET Trait]: what Stage 1 finds in one
  BatchSize,        \* len(emails), the job's "total"
  Batches,          \* the lists of addresses a job may be created with
  DnsLimit,         \* CONFIG.pipeline.dnsConcurrency
  MailboxLimit,     \* [Domain -> Nat \ {0}]: _domain_limit
  WebsiteLimit,     \* the 10 of website_sem
  Promoting         \* the batches that are run with allowReputationPromotion on

\* "faulty": some check of Stage 1 raises on the address; "unstorable": no
\* ValidationResult can hold its text, so that the handler raises as well.
Trait == {"malformed", "unstorable", "faulty", "spam_trap", "disposable", "role_rejected"}

Email == 1 .. BatchSize

ASSUME SizeAssumption == BatchSize \in Nat
ASSUME AddressAssumption == /\ DomainOf \in [Address -> Domain]
                            /\ Traits \in [Address -> SUBSET Trait]
                            /\ Batches \subseteq [Email -> Address]
                            /\ Promoting \subseteq Batches
ASSUME DomainAssumption == IsFiniteSet(Domain)
ASSUME LimitAssumption == /\ DnsLimit \in Nat \ {0}
                          /\ MailboxLimit \in [Domain -> Nat \ {0}]
                          /\ WebsiteLimit \in Nat \ {0}

\* The sub-statuses the control flow or a property tells apart: here
\* "mailbox_not_found" stands for every definite rejection and
\* "ambiguous_rejection" for every inconclusive answer to RCPT.
SubStatus == {"none", "syntax_error", "spam_trap_keyword", "disposable", "role_rejected",
              "temp_error", "no_mx_record", "domain_not_found", "accept_all",
              "smtp_connection_failed", "smtp_confirmed", "mailbox_not_found",
              "ambiguous_rejection", "greylisted"}

\* NEVER_PROMOTE of scoring_core.py.
NeverPromote == {"domain_not_found", "accept_all"}

\* The two calls of score_reserved_batch: other_reserved and still_reserved.
Batch == {"rest", "still"}

Counter == {"stage2_done", "stage2_total", "stage3_done", "stage3_total",
            "stage4_done", "stage4_total"}

VARIABLES
  raw,        \* the addresses of this job, in input order
  status,     \* job["status"]
  pc,         \* where run_pipeline is
  cursor,     \* the Stage-1 loop's position
  seen,       \* normalised addresses met so far
  at,         \* where each email is
  dom,        \* where each domain is in Stages 2 and 3
  verdict,    \* each email's entry of job["results"]
  counts,     \* job["counts"]
  counters,   \* the runner's counters and stage2_total
  progress,   \* the counters as last written to job["progress"]
  fetch,      \* per scoring batch: where each domain's domain_task is
  retry       \* where the greylist_retry coroutine is

vars == <<raw, status, pc, cursor, seen, at, dom, verdict, counts, counters,
          progress, fetch, retry>>

Verdict == [status : Statuses \cup {"none"}, sub : SubStatus, stage : 0 .. 4,
            promoted : BOOLEAN, demoted : BOOLEAN]

Place == {"input", "domain", "mailbox", "probing", "parked", "rest", "asleep",
          "retrying", "still", "settled"}

TypeOK ==
  /\ raw \in [Email -> Address]
  /\ status \in {"pending", "stage1", "stage2", "stage3", "stage4", "complete", "failed"}
  /\ pc \in {"start", "read", "dns", "smtp", "publish", "announce", "split", "score", "raised", "end"}
  /\ cursor \in 1 .. BatchSize + 1
  /\ seen \subseteq Address
  /\ at \in [Email -> Place]
  /\ dom \in [Domain -> {"idle", "queued", "resolving", "hosted", "catchall", "open", "closed"}]
  /\ verdict \in [Email -> Verdict]
  /\ counts \in [CountFields -> Int]
  /\ counters \in [Counter -> Int]
  /\ progress \in [Counter -> Int]
  /\ fetch \in [Batch -> [Domain -> {"idle", "waiting", "fetching", "done"}]]
  /\ retry \in {"idle", "asleep", "retrying", "scoring", "done"}

-----------------------------------------------------------------------------
NoVerdict == [status |-> "none", sub |-> "none", stage |-> 0,
              promoted |-> FALSE, demoted |-> FALSE]

Result(s, sub, stage) == [status |-> s, sub |-> sub, stage |-> stage,
                          promoted |-> FALSE, demoted |-> FALSE]

\* A job record whose "progress" is None shows as zero everywhere.
ZeroCounters == [c \in Counter |-> 0]

EmailsAt(place) == {i \in Email : at[i] = place}
DomainOfEmail(i) == DomainOf[raw[i]]
Group(d) == {i \in EmailsAt("domain") : DomainOfEmail(i) = d}
Move(S, place) == at' = [i \in Email |-> IF i \in S THEN place ELSE at[i]]

\* A defect: the verdict is appended and increment_count is forgotten for all but one.
ReportOneCounted(S, v) ==
  /\ verdict' = [i \in Email |-> IF i \in S THEN v ELSE verdict[i]]
  /\ counts' = IncrementCount(BatchSize, counts, v.status, IF S = {} THEN 0 ELSE 1)

\* add_result and increment_count for every email of S, all with the same verdict.
Report(S, v) ==
  /\ verdict' = [i \in Email |-> IF i \in S THEN v ELSE verdict[i]]
  /\ counts' = IncrementCount(BatchSize, counts, v.status, Cardinality(S))

\* A defect: the set of seen addresses outlives a job.
InitSeenKept ==
  /\ raw \in Batches
  /\ status = "pending"
  /\ pc = "start"
  /\ cursor = 1
  /\ seen \in {{}, Address}
  /\ at = [i \in Email |-> "input"]
  /\ dom = [d \in Domain |-> "idle"]
  /\ verdict = [i \in Email |-> NoVerdict]
  /\ counts = NewCounts
  /\ counters = ZeroCounters
  /\ progress = ZeroCounters
  /\ fetch = [b \in Batch |-> [d \in Domain |-> "idle"]]
  /\ retry = "idle"

Init ==
  /\ raw \in Batches
  /\ status = "pending"
  /\ pc = "start"
  /\ cursor = 1
  /\ seen = {}
  /\ at = [i \in Email |-> "input"]
  /\ dom = [d \in Domain |-> "idle"]
  /\ verdict = [i \in Email |-> NoVerdict]
  /\ counts = NewCounts
  /\ counters = ZeroCounters
  /\ progress = ZeroCounters
  /\ fetch = [b \in Batch |-> [d \in Domain |-> "idle"]]
  /\ retry = "idle"

-----------------------------------------------------------------------------
(* Stage 1: syntax, duplicates, lists.                                       *)

Begin ==
  /\ pc = "start"
  /\ pc' = "read"
  /\ status' = "stage1"
  /\ UNCHANGED <<raw, cursor, seen, at, dom, verdict, counts, counters, progress, fetch, retry>>

Reading == pc = "read" /\ cursor <= BatchSize
Current == raw[cursor]
Has(t) == t \in Traits[Current]
Sound == ~Has("malformed") /\ ~Has("unstorable")

StageOneVerdict(v) ==
  /\ Report({cursor}, v)
  /\ Move({cursor}, "settled")
  /\ cursor' = cursor + 1
  /\ UNCHANGED <<raw, status, pc, dom, counters, progress, fetch, retry>>

ReadMalformed ==
  /\ Reading /\ Has("malformed") /\ ~Has("unstorable")
  /\ StageOneVerdict(Result("invalid", "syntax_error", 1))
  /\ UNCHANGED seen

\* is_duplicate hits: the address was seen before, whatever became of it.
ReadDuplicate ==
  /\ Reading /\ Sound
  /\ Current \in seen
  /\ StageOneVerdict(Result("duplicate", "syntax_error", 1))
  /\ UNCHANGED seen

\* The three list checks that settle an address, in the order of the code.
ListChecks == << [trait |-> "spam_trap",     status |-> "do_not_use", sub |-> "spam_trap_keyword"],
                 [trait |-> "disposable",    status |-> "invalid",    sub |-> "disposable"],
                 [trait |-> "role_rejected", status |-> "do_not_use", sub |-> "role_rejected"] >>

Listed == \E k \in 1 .. 3 : Has(ListChecks[k].trait)

ReadListed ==
  /\ Reading /\ Sound /\ ~Has("faulty")
  /\ Current \notin seen
  /\ \E k \in 1 .. 3 :
       /\ Has(ListChecks[k].trait)
       /\ \A j \in 1 .. k - 1 : ~Has(ListChecks[j].trait)
       /\ StageOneVerdict(Result(ListChecks[k].status, ListChecks[k].sub, 1))
  /\ seen' = seen \cup {Current}

\* A defect: an address that passes is queued without entering `seen`.
ReadQueuedUnseen ==
  /\ Reading /\ Sound /\ ~Has("faulty") /\ ~Listed
  /\ Current \notin seen
  /\ Move({cursor}, "domain")
  /\ cursor' = cursor + 1
  /\ UNCHANGED <<raw, status, pc, seen, dom, verdict, counts, counters, progress, fetch, retry>>

ReadQueued ==
  /\ Reading /\ Sound /\ ~Has("faulty") /\ ~Listed
  /\ Current \notin seen
  /\ seen' = seen \cup {Current}
  /\ Move({cursor}, "domain")
  /\ cursor' = cursor + 1
  /\ UNCHANGED <<raw, status, pc, dom, verdict, counts, counters, progress, fetch, retry>>

\* A check raised, before or after is_duplicate added the address to `seen`.
\* Its text has an "@": without one Stage 4 would raise as well (runner.py:532).
ReadFaulty ==
  /\ Reading /\ Sound /\ Has("faulty")
  /\ StageOneVerdict(Result("reserved", "temp_error", 1))
  /\ seen' \in {seen, seen \cup {Current}}

\* The handler builds the same ValidationResult and raises again, out of
\* run_pipeline: the caller marks the job failed (main.py, streamlit_app.py).
ReadUnstorable ==
  /\ Reading /\ Has("unstorable")
  /\ pc' = "raised"
  /\ UNCHANGED <<raw, status, cursor, seen, at, dom, verdict, counts, counters, progress, fetch, retry>>

Fail ==
  /\ pc = "raised"
  /\ pc' = "end"
  /\ status' = "failed"
  /\ UNCHANGED <<raw, cursor, seen, at, dom, verdict, counts, counters, progress, fetch, retry>>

\* The queue is grouped by domain and every dns_task is created.
EndStage1 ==
  /\ pc = "read" /\ cursor = BatchSize + 1
  /\ pc' = "dns"
  /\ status' = "stage2"
  /\ dom' = [d \in Domain |-> IF Group(d) # {} THEN "queued" ELSE dom[d]]
  /\ counters' = [counters EXCEPT !["stage2_total"] = Cardinality(EmailsAt("domain"))]
  /\ UNCHANGED <<raw, cursor, seen, at, verdict, counts, progress, fetch, retry>>

-----------------------------------------------------------------------------
(* Stage 2: one dns_task per domain, under dns_sem.                          *)

DomainsAt(place) == {d \in Domain : dom[d] = place}

\* A defect: a task that returns early keeps its slot of dns_sem.
AcquireDnsLeaky(d) ==
  /\ pc = "dns" /\ dom[d] = "queued"
  /\ Cardinality(DomainsAt("resolving") \cup DomainsAt("closed")) < DnsLimit
  /\ dom' = [dom EXCEPT ![d] = "resolving"]
  /\ UNCHANGED <<raw, status, pc, cursor, seen, at, verdict, counts, counters, progress, fetch, retry>>

AcquireDns(d) ==
  /\ pc = "dns" /\ dom[d] = "queued"
  /\ Cardinality(DomainsAt("resolving")) < DnsLimit
  /\ dom' = [dom EXCEPT ![d] = "resolving"]
  /\ UNCHANGED <<raw, status, pc, cursor, seen, at, verdict, counts, counters, progress, fetch, retry>>

\* A defect: handle_dns counts domains where it should count their emails.
CountDnsDomains(d, hosted) ==
  counters' = [counters EXCEPT !["stage2_done"] = @ + 1,
                               !["stage3_total"] = @ + (IF hosted THEN 1 ELSE 0)]

\* handle_dns: every email of the domain has its DNS answer, and is expected
\* in Stage 3 when the domain has an MX host.
CountDns(d, hosted) ==
  LET n == Cardinality(Group(d))
  IN  counters' = [counters EXCEPT !["stage2_done"] = @ + n,
                                   !["stage3_total"] = @ + (IF hosted THEN n ELSE 0)]

\* The task settles its whole domain with one verdict.
DnsSettles(d, v) ==
  /\ dom[d] = "resolving"
  /\ CountDns(d, FALSE)
  /\ Report(Group(d), v)
  /\ Move(Group(d), "settled")
  /\ dom' = [dom EXCEPT ![d] = "closed"]
  /\ UNCHANGED <<raw, status, pc, cursor, seen, progress, fetch, retry>>

DnsNoMail(d)      == DnsSettles(d, Result("invalid", "no_mx_record", 2))
DnsAddressOnly(d) == DnsSettles(d, Result("reserved", "no_mx_record", 2))
DnsRaises(d)      == DnsSettles(d, Result("reserved", "domain_not_found", 2))

DnsMailHosts(d) ==
  /\ dom[d] = "resolving"
  /\ CountDns(d, TRUE)
  /\ dom' = [dom EXCEPT ![d] = "hosted"]
  /\ UNCHANGED <<raw, status, pc, cursor, seen, at, verdict, counts, progress, fetch, retry>>

\* gather(dns_task...) returns; one smtp_domain_task per domain with an MX
\* host starts, and begins with its catch-all probe.
StartStage3 ==
  /\ pc = "dns"
  /\ DomainsAt("queued") = {} /\ DomainsAt("resolving") = {}
  /\ pc' = "smtp"
  /\ dom' = [d \in Domain |-> IF dom[d] = "hosted" THEN "catchall" ELSE dom[d]]
  /\ UNCHANGED <<raw, status, cursor, seen, at, verdict, counts, counters, progress, fetch, retry>>

-----------------------------------------------------------------------------
(* Stage 3: catch-all probe, then one email_task per email of the domain     *)
(* under the domain's semaphore.                                             *)

\* handle_stage3_result: the result, its count and the stage's counter.
ReportStage3(S, s, sub) ==
  /\ Report(S, Result(s, sub, 3))
  /\ counters' = [counters EXCEPT !["stage3_done"] = @ + Cardinality(S)]

CatchAllYes(d) ==
  /\ dom[d] = "catchall"
  /\ ReportStage3(Group(d), "reserved", "accept_all")
  /\ Move(Group(d), "settled")
  /\ dom' = [dom EXCEPT ![d] = "closed"]
  /\ UNCHANGED <<raw, status, pc, cursor, seen, progress, fetch, retry>>

\* A probe that fails counts as "not a catch-all".
CatchAllNo(d) ==
  /\ dom[d] = "catchall"
  /\ Move(Group(d), "mailbox")
  /\ dom' = [dom EXCEPT ![d] = "open"]
  /\ UNCHANGED <<raw, status, pc, cursor, seen, verdict, counts, counters, progress, fetch, retry>>

Probing(d) == {i \in EmailsAt("probing") : DomainOfEmail(i) = d}

AcquireMailbox(i) ==
  /\ at[i] = "mailbox"
  /\ Cardinality(Probing(DomainOfEmail(i))) < MailboxLimit[DomainOfEmail(i)]
  /\ Move({i}, "probing")
  /\ UNCHANGED <<raw, status, pc, cursor, seen, dom, verdict, counts, counters, progress, fetch, retry>>

ProbeSettles(i, s, sub) ==
  /\ at[i] = "probing"
  /\ ReportStage3({i}, s, sub)
  /\ Move({i}, "settled")
  /\ UNCHANGED <<raw, status, pc, cursor, seen, dom, progress, fetch, retry>>

ProbeNoHost(i)   == ProbeSettles(i, "reserved", "smtp_connection_failed")
ProbeExists(i)   == ProbeSettles(i, "valid", "smtp_confirmed")
ProbeRejected(i) == ProbeSettles(i, "invalid", "mailbox_not_found")
ProbeUnknown(i)  == ProbeSettles(i, "reserved", "ambiguous_rejection")

\* should_retry: the email joins retry_queue and is reported at the end.
ProbeRetry(i) ==
  /\ at[i] = "probing"
  /\ Move({i}, "parked")
  /\ UNCHANGED <<raw, status, pc, cursor, seen, dom, verdict, counts, counters, progress, fetch, retry>>

\* A defect: the loop over retry_queue is dropped.
ForgetGreylisted ==
  /\ pc = "smtp"
  /\ DomainsAt("catchall") = {}
  /\ EmailsAt("mailbox") = {} /\ EmailsAt("probing") = {}
  /\ pc' = "publish"
  /\ UNCHANGED <<raw, status, cursor, seen, at, dom, verdict, counts, counters, progress, fetch, retry>>

\* gather(smtp_domain_task...) returns and the parked emails are reported.
EmitGreylisted ==
  /\ pc = "smtp"
  /\ DomainsAt("catchall") = {}
  /\ EmailsAt("mailbox") = {} /\ EmailsAt("probing") = {}
  /\ pc' = "publish"
  /\ ReportStage3(EmailsAt("parked"), "reserved", "greylisted")
  /\ Move(EmailsAt("parked"), "settled")
  /\ UNCHANGED <<raw, status, cursor, seen, dom, progress, fetch, retry>>

\* The progress of Stages 2 and 3 appears while the status is still stage2.
EmitProgress ==
  /\ pc = "publish"
  /\ pc' = "announce"
  /\ progress' = counters
  /\ UNCHANGED <<raw, status, cursor, seen, at, dom, verdict, counts, counters, fetch, retry>>

PublishStage3 ==
  /\ pc = "announce"
  /\ pc' = "split"
  /\ status' = "stage3"
  /\ progress' = counters
  /\ UNCHANGED <<raw, cursor, seen, at, dom, verdict, counts, counters, fetch, retry>>

-----------------------------------------------------------------------------
(* Stage 4: score_reserved_batch(other_reserved) beside greylist_retry.      *)

Reserved == {i \in Email : verdict[i].status = "reserved"}
Greylisted == {i \in Reserved : verdict[i].sub = "greylisted"}

\* The place of an email says which batch scores it.
Refs(b, d) == {i \in EmailsAt(b) : DomainOfEmail(i) = d}

\* score_reserved_batch creates one domain_task per domain of its refs.
OpenBatch(b, S) ==
  fetch' = [fetch EXCEPT ![b] = [d \in Domain |->
              IF \E i \in S : DomainOfEmail(i) = d THEN "waiting" ELSE "idle"]]

BatchOver(b) == \A d \in Domain : fetch[b][d] \in {"idle", "done"}

EnterStage4 ==
  /\ pc = "split"
  /\ pc' = "score"
  /\ status' = "stage4"
  /\ at' = [i \in Email |-> IF i \in Greylisted THEN "asleep"
                            ELSE IF i \in Reserved THEN "rest" ELSE at[i]]
  /\ OpenBatch("rest", Reserved \ Greylisted)
  /\ retry' = IF Greylisted = {} THEN "done" ELSE "asleep"
  /\ counters' = [counters EXCEPT !["stage4_total"] = Cardinality(Reserved),
                                  !["stage4_done"] = 0]
  /\ progress' = counters'
  /\ UNCHANGED <<raw, cursor, seen, dom, verdict, counts>>

AcquireWebsite(b, d) ==
  /\ fetch[b][d] = "waiting"
  /\ Cardinality({e \in Domain : fetch[b][e] = "fetching"}) < WebsiteLimit
  /\ fetch' = [fetch EXCEPT ![b][d] = "fetching"]
  /\ UNCHANGED <<raw, status, pc, cursor, seen, at, dom, verdict, counts, counters, progress, retry>>

\* CONFIG.scoringEngine.allowReputationPromotion, one value for the whole job.
AllowReputation == raw \in Promoting

\* A defect: the reputation switch is not consulted.
MayPromoteAlways(i) == verdict[i].sub \notin NeverPromote

\* can_promote of score_reserved_shard.  A reserved result never has the
\* sub-status smtp_confirmed, so only reputation can promote here.
MayPromote(i) == AllowReputation /\ verdict[i].sub \notin NeverPromote

\* Stage 4 has counted n more emails and emits the progress.
CountStage4(n) ==
  /\ counters' = [counters EXCEPT !["stage4_done"] = @ + n]
  /\ progress' = counters'

\* A scored result keeps its sub-status and enters Stage 4.
Scored(v, s, promoted, demoted) ==
  [status |-> s, sub |-> v.sub, stage |-> 4, promoted |-> promoted, demoted |-> demoted]

\* Website and whois have answered: every ref of the domain is scored in one
\* go.  A score (abstracted) promotes P, demotes D and keeps the others; a
\* domain without a mail server makes its refs invalid with neither flag.
ScoreDomain(b, d) ==
  LET refs == Refs(b, d)
      dropped == {i \in refs : verdict[i].sub = "no_mx_record"}
  IN  /\ fetch[b][d] = "fetching"
      /\ \E P \in SUBSET {i \in refs \ dropped : MayPromote(i)} :
         \E D \in SUBSET ((refs \ dropped) \ P) :
           /\ verdict' = [i \in Email |->
                IF i \in P THEN Scored(verdict[i], "valid", TRUE, FALSE)
                ELSE IF i \in D THEN Scored(verdict[i], "invalid", FALSE, TRUE)
                ELSE IF i \in dropped THEN Scored(verdict[i], "invalid", FALSE, FALSE)
                ELSE IF i \in refs THEN Scored(verdict[i], verdict[i].status, FALSE, FALSE)
                ELSE verdict[i]]
           /\ counts' = ApplyScoreCounts(BatchSize, counts, Cardinality(P),
                                         Cardinality(D), Cardinality(dropped))
      /\ Move(refs, "settled")
      /\ fetch' = [fetch EXCEPT ![b][d] = "done"]
      /\ CountStage4(Cardinality(refs))
      /\ UNCHANGED <<raw, status, pc, cursor, seen, dom, retry>>

WakeGreylist ==
  /\ retry = "asleep"
  /\ retry' = "retrying"
  /\ Move(EmailsAt("asleep"), "retrying")
  /\ UNCHANGED <<raw, status, pc, cursor, seen, dom, verdict, counts, counters, progress, fetch>>

\* A result settled by its second try keeps its stage.
Retried(v, s, sub, promoted) ==
  [status |-> s, sub |-> sub, stage |-> v.stage, promoted |-> promoted, demoted |-> FALSE]

\* A defect: a confirmed email stays in still_reserved and is scored.
RetryExistsStill(i) ==
  /\ at[i] = "retrying"
  /\ verdict' = [verdict EXCEPT ![i] = Retried(@, "valid", "smtp_confirmed", TRUE)]
  /\ counts' = ApplyScoreCounts(BatchSize, counts, 1, 0, 0)
  /\ Move({i}, "still")
  /\ CountStage4(1)
  /\ UNCHANGED <<raw, status, pc, cursor, seen, dom, fetch, retry>>

\* retry_one on an email whose mailbox now answers.  Its `if not mx_host`
\* branch has no action: every greylisted result carries the host that
\* answered.
RetryExists(i) ==
  /\ at[i] = "retrying"
  /\ verdict' = [verdict EXCEPT ![i] = Retried(@, "valid", "smtp_confirmed", TRUE)]
  /\ counts' = ApplyScoreCounts(BatchSize, counts, 1, 0, 0)
  /\ Move({i}, "settled")
  /\ CountStage4(1)
  /\ UNCHANGED <<raw, status, pc, cursor, seen, dom, fetch, retry>>

RetryRejected(i) ==
  /\ at[i] = "retrying"
  /\ verdict' = [verdict EXCEPT ![i] = Retried(@, "invalid", "mailbox_not_found", FALSE)]
  /\ counts' = ApplyScoreCounts(BatchSize, counts, 0, 0, 1)
  /\ Move({i}, "settled")
  /\ CountStage4(1)
  /\ UNCHANGED <<raw, status, pc, cursor, seen, dom, fetch, retry>>

RetryInconclusive(i) ==
  /\ at[i] = "retrying"
  /\ Move({i}, "still")
  /\ CountStage4(1)
  /\ UNCHANGED <<raw, status, pc, cursor, seen, dom, verdict, counts, fetch, retry>>

\* gather(retry_one...) returns; what is still reserved is scored.
EndRetries ==
  /\ retry = "retrying"
  /\ EmailsAt("retrying") = {}
  /\ retry' = IF EmailsAt("still") = {} THEN "done" ELSE "scoring"
  /\ OpenBatch("still", EmailsAt("still"))
  /\ UNCHANGED <<raw, status, pc, cursor, seen, at, dom, verdict, counts, counters, progress>>

EndGreylist ==
  /\ retry = "scoring" /\ BatchOver("still")
  /\ retry' = "done"
  /\ progress' = counters
  /\ UNCHANGED <<raw, status, pc, cursor, seen, at, dom, verdict, counts, counters, fetch>>

\* A defect: a status that is not in JobStatus.
CompleteAsDone ==
  /\ pc = "score"
  /\ BatchOver("rest") /\ retry = "done"
  /\ pc' = "end"
  /\ status' = "done"
  /\ UNCHANGED <<raw, cursor, seen, at, dom, verdict, counts, counters, progress, fetch, retry>>

\* Both coroutines have returned.
Complete ==
  /\ pc = "score"
  /\ BatchOver("rest") /\ retry = "done"
  /\ pc' = "end"
  /\ status' = "complete"
  /\ counters' = [counters EXCEPT !["stage4_done"] = counters["stage4_total"]]
  /\ progress' = counters'
  /\ UNCHANGED <<raw, cursor, seen, at, dom, verdict, counts, fetch, retry>>

-----------------------------------------------------------------------------
StageOne == \/ Begin \/ ReadMalformed \/ ReadDuplicate \/ ReadListed \/ ReadQueued
            \/ ReadFaulty \/ ReadUnstorable \/ Fail \/ EndStage1

DnsStep(d) == AcquireDns(d) \/ DnsNoMail(d) \/ DnsAddressOnly(d) \/ DnsRaises(d) \/ DnsMailHosts(d)

CatchAllStep(d) == CatchAllYes(d) \/ CatchAllNo(d)

MailboxStep(i) == \/ AcquireMailbox(i) \/ ProbeNoHost(i) \/ ProbeExists(i) \/ ProbeRejected(i)
                  \/ ProbeUnknown(i) \/ ProbeRetry(i)

ScoreStep(b, d) == AcquireWebsite(b, d) \/ ScoreDomain(b, d)

RetryStep(i) == RetryExists(i) \/ RetryRejected(i) \/ RetryInconclusive(i)

Next == \/ StageOne
        \/ \E d \in Domain : DnsStep(d)
        \/ StartStage3
        \/ \E d \in Domain : CatchAllStep(d)
        \/ \E i \in Email : MailboxStep(i)
        \/ EmitGreylisted \/ EmitProgress \/ PublishStage3 \/ EnterStage4
        \/ \E b \in Batch, d \in Domain : ScoreStep(b, d)
        \/ WakeGreylist
        \/ \E i \in Email : RetryStep(i)
        \/ EndRetries \/ EndGreylist \/ Complete

Spec == Init /\ [][Next]_vars

\* Every await of the pipeline is bounded: DNS lifetimes, the port budget of
\* check_mailbox, HTTP and whois timeouts, one sleep.  So some task can
\* always go on, and the event loop lets it.
FairSpec == Spec /\ WF_vars(Next)

-----------------------------------------------------------------------------
(* Properties.                                                               *)

With(s) == {i \in Email : verdict[i].status = s}

\* Each count of the record is the number of results it claims to count, at
\* every step, although results are added, promoted and demoted at many
\* places by several coroutines and counted by separate calls.
CountsAgree ==
  /\ \A s \in Statuses : counts[s] = Cardinality(With(s))
  /\ counts["promoted_to_valid"] = Cardinality({i \in Email : verdict[i].promoted})
  /\ counts["demoted_to_invalid"] = Cardinality({i \in Email : verdict[i].demoted})

\* "processed" is the number of emails with a verdict: the clamp to total in
\* increment_count never hides a result counted twice.
ProcessedExact ==
  counts["processed"] = Cardinality({i \in Email : verdict[i].status # "none"})

\* Where an email is and what its result says agree: it has a result exactly
\* when Stage 1, 2 or 3 is done with it, what Stage 4 works on is reserved,
\* only a settled verdict carries a flag, and the cursor has not passed what
\* Stage 1 has not read.
Unreported == {"input", "domain", "mailbox", "probing", "parked"}
Provisional == {"rest", "asleep", "retrying", "still"}

PlacesAgree ==
  \A i \in Email :
    /\ verdict[i].status = "none" <=> at[i] \in Unreported
    /\ at[i] \in Provisional => verdict[i].status = "reserved"
    /\ verdict[i].status \in {"none", "reserved"} => ~verdict[i].promoted /\ ~verdict[i].demoted
    /\ i >= cursor => at[i] = "input"

\* The inductive invariant behind the counts (PipelineProofs): "processed" is
\* never staler than the tally it is derived from.
Accounting ==
  /\ PlacesAgree
  /\ CountsAgree
  /\ counts["processed"] = Processed(BatchSize, counts)

\* A complete job has a verdict for every address it was given, whatever way
\* each took through the stages, and says so in "processed"; what is still
\* reserved has been through scoring, and what was greylisted was scored by
\* the batch that follows the second try.
NoLostEmail ==
  status = "complete" =>
    /\ \A i \in Email : verdict[i].status # "none" /\ at[i] = "settled"
    /\ counts["processed"] = BatchSize
    /\ \A i \in Reserved : verdict[i].stage = 4
    /\ \A i \in Greylisted : fetch["still"][DomainOfEmail(i)] = "done"

\* An address is marked duplicate only when an earlier entry of the batch
\* holds the verdict for it or is still on its way to one.
FirstWins ==
  \A i \in Email : verdict[i].status = "duplicate" =>
    \E j \in 1 .. i - 1 : raw[j] = raw[i] /\ verdict[j].status # "duplicate"

\* Two entries with one address are never both on their way to a mail server,
\* nor both waiting for a second try.
InFlight == {"domain", "mailbox", "probing", "parked", "asleep", "retrying", "still"}

ProbedOnce ==
  \A i, j \in Email : i # j /\ raw[i] = raw[j] => at[i] \notin InFlight \/ at[j] \notin InFlight

\* "valid" is a claim with proof.  What a server has confirmed, at the first
\* probe or at the second try, is valid, and no scoring batch rescores or
\* demotes it; a valid result that no server has confirmed says so, as
\* promoted in Stage 4, needs the reputation switch, and is never one of a
\* domain that accepts every address or could not be resolved.
ValidNeedsProof ==
  \A i \in Email :
    /\ verdict[i].sub = "smtp_confirmed" => verdict[i].status = "valid" /\ verdict[i].stage = 3
    /\ verdict[i].status = "valid" /\ verdict[i].sub # "smtp_confirmed" =>
         /\ AllowReputation /\ verdict[i].promoted /\ verdict[i].stage = 4
         /\ verdict[i].sub \notin NeverPromote

\* A finished job shows every stage with done = total.  In between, Stages 2
\* and 3 never show more than their total, and Stage 4 exceeds its own by at
\* most the emails that are counted when retried and again when scored.
ProgressHonest ==
  /\ progress["stage2_done"] = progress["stage2_total"]
  /\ progress["stage3_done"] = progress["stage3_total"]
  /\ progress["stage4_done"] <= progress["stage4_total"] +
       Cardinality({i \in Email : verdict[i].sub = "greylisted" /\ verdict[i].stage = 4})
  /\ status = "complete" => progress["stage4_done"] = progress["stage4_total"]

\* A result that has left "reserved" is final, and a reserved one becomes
\* only valid or invalid: no later coroutine overwrites a verdict.
VerdictsFinal ==
  [][\A i \in Email : verdict'[i].status # verdict[i].status =>
       \/ verdict[i].status = "none"
       \/ verdict[i].status = "reserved" /\ verdict'[i].status \in {"valid", "invalid"}]_vars

\* The progress bar never moves back: promotions and demotions move counts
\* between statuses and leave "processed" alone.
ProcessedNeverFalls == [][counts'["processed"] >= counts["processed"]]_vars

-----------------------------------------------------------------------------
(* Claims of the documentation that the code does not keep.                  *)

\* README.md:11: the per-domain limits are honoured by the mailbox checks.
MailboxLimitHonoured ==
  \A d \in Domain :
    Cardinality({i \in Email : at[i] \in {"probing", "retrying"} /\ DomainOfEmail(i) = d})
      <= MailboxLimit[d]

\* streamlit_app.py:36: stage3 is the mailbox verification.
ProbingIsStage3 == (\E i \in Email : at[i] = "probing") => status = "stage3"
=============================================================================
