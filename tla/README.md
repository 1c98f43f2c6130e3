# Verification of the email validator

TLA+ models of the email validation service in this repository, TLC
configurations that check them on small instances, and TLAPS proofs of what
matters most for every instance. Paths below are relative to the repository.

To check everything: `tlc -config <cfg> <module>` for each row of "Runs", and
`tlapm <module>` for `PipelineProofs`, `SmtpSessionProofs`, `MxFailoverProofs`,
`DomainCacheProofs`, `PatternStoreProofs`, `ScoringProofs`, `UiPollingProofs` and
`AddressProofs`. The first and the last take about two minutes, the others less.

## 1. The system

| Part | Code | State it keeps | Operations | What makes it correct |
|---|---|---|---|---|
| Pipeline | `app/pipeline/runner.py`, `scoring_core.py` | queue, domain map, counters, retry queue, references into the job's results | four stages: list checks; DNS per domain; SMTP per email; scoring beside greylist retry | one verdict per address, none lost or overwritten; "valid" only with proof; it ends |
| Job store | `app/store/jobs.py` | one record per job: status, results, counts, progress | `create`, `update`, `add_result`, `increment_count`, queries | counts are those of the results |
| SMTP check | `app/checks/smtp.py` | per conversation: step, mode, buffer, flags | the per-port dialogue; port ladder; catch-all probe; classification | the verdict is the server's answer to `RCPT`; a call ends by its own timeouts, or at the latest by its budget |
| DNS, website, whois checks | `app/checks/dns.py`, `website.py`, `whois.py` | 24-hour caches | lookups with time limits | a cached answer is one that was given |
| Scoring | `app/checks/scoring.py` | none | `compute_score` | a bounded sum of signals |
| Syntax and lists | `app/checks/syntax.py`, `lists.py` | the job's `seen` set | `check_syntax`, `is_duplicate`, list tests | two spellings of one mailbox are one address |
| Pattern store | `app/store/patterns.py` | one object for all jobs | `record_valid`, `record_reserved`, `snapshot_for` | rates and formats of what was confirmed |
| HTTP API | `app/main.py` | none of its own | `POST /validate` starts a background task; polling, export | a crash shows as a failed job |
| Streamlit page | `streamlit_app.py` | session state; the job runs in a thread of its own | start, poll once a second, render | a complete job's results reach the user |

Who talks to whom: the API (an asyncio task) or the page (a daemon thread with
its own event loop) starts `run_pipeline`. That calls the checks, awaits them
and writes results, counts, status and progress to the job record, which API
and page read without a lock. Within one job everything is one event loop:
coroutines interleave only at `await`. Between the job and the page there are
real threads.

What is hard here: the order in which DNS, SMTP, scoring and retry tasks finish;
the two coroutines of Stage 4 that share one list of results and one set of
counts; counts kept by separate calls beside the results they count; an email
that leaves its task without a result and is reported later, retried later and
scored later still; an SMTP server that answers late, in several lines, or not at
all; an answer of one host taken for a failure and overruled by another; caches
filled from caches by lookups that overlap; one pattern store for the threads of
all jobs; two dozen weights tuned to two thresholds; semaphores with several ways
out of the block; a page that reads a record that is being written. `PROJECT.json` lists these as hazards, each at its line.

## 2. Modules

| Module | Models | Instance |
|---|---|---|
| `JobCounts` | the count fields of a job record and the operations on them, as pure operators | |
| `Pipeline` | one job of `run_pipeline` | `MCPipeline` |
| `BatchVerdicts` | what a job promises: verdicts, counts and end, without stages or coroutines | |
| `PipelineRefinement` | `Pipeline` implements `BatchVerdicts` | `MCPipeline` |
| `SmtpClassify` | `classify_smtp_response` | |
| `PortAttempt` | what an attempt at one port may return: the interface between the next two | |
| `SmtpSession` | one conversation of `_do_smtp_check` under the budget of `guarded` | `MCSmtpSession` |
| `MxFailover` | catch-all probe, failover over MX hosts, port ladder and greylist retry, for one address | `MCMxFailover` |
| `DomainCache` | `check_domain` and `check_whois` with their caches | `MCDomainCache` |
| `WebsiteCheck` | `check_website` with its cache | |
| `PatternStore` | the shared store under several job threads | `MCPatternStore` |
| `Scoring` | `compute_score` and the verdict of `score_reserved_shard` | `MCScoring` |
| `Syntax` | `check_syntax`: format, normalisation, suggestions | `MCSyntax` |
| `UiPolling` | the page and the job thread around one job record | |
| `ResultFile` | the rows of an uploaded file, the results, the two filters and the download | `MCResultFile` |
| `PipelineProofs` | theorems about `Pipeline`, and that it implements `BatchVerdicts` | |
| `SmtpSessionProofs` | theorems about `SmtpClassify` and `SmtpSession` | |
| `MxFailoverProofs` | theorems about `MxFailover` | |
| `DomainCacheProofs` | theorems about `DomainCache` and `WebsiteCheck` | |
| `PatternStoreProofs`, `ScoringProofs`, `UiPollingProofs` | theorems about the module of that name | |
| `AddressProofs` | theorems about `ResultFile` and `Syntax`: addresses as texts | |

How they compose. `Pipeline` takes the outcome of a probe, of a DNS check and of
scoring as a free choice; `MxFailover`, `DomainCache`, `WebsiteCheck`, `PatternStore`
and `Scoring` say which outcome it is and why. `MxFailover` in turn takes the
result of one attempt from `PortAttempt`, and the run of `SmtpSession` checks that
a conversation returns nothing else (`ResultIsAttempt`). Both use `SmtpClassify`.
So each free choice of one module covers what another shows to happen.

Operators whose comment begins "A defect" take no part in any specification.
Each is a plausible mistake in the definition below it, named in `PROJECT.json`
under `mutants`, and shows that a property would notice it.

### Pipeline

An action is the code between two awaits of one task. `at[i]` says where email
`i` is (unread, waiting for its domain, waiting for the domain's semaphore, being
probed, parked in `retry_queue`, held by one of the two scoring batches, asleep
or being retried, settled), `dom[d]` where domain `d` is in Stages 2 and 3,
`fetch[b][d]` where its `domain_task` is in scoring batch `b`, `retry` where
`greylist_retry` is. `verdict`, `counts`, `status` and `progress` are the job
record; `counters` the runner's own dictionary.

- Stage 1: `Begin`, one action per way an address leaves the loop (`ReadMalformed`,
  `ReadDuplicate`, `ReadListed`, `ReadQueued`, `ReadFaulty`, `ReadUnstorable`), `EndStage1`.
  What the checks find in an address is its `Traits`. "faulty" is an address on
  which some check raises and the handler records it as reserved; the code has
  that path, although we know no input that takes it (nor one without an "@", at
  which Stage 4 would raise: `runner.py:532`). "unstorable" is a text no
  `ValidationResult` can hold (a lone surrogate, which a JSON body of
  `POST /validate` can contain): the handler raises as well and the job fails.
- Stage 2: `AcquireDns`, then `DnsNoMail`, `DnsAddressOnly`, `DnsRaises` or
  `DnsMailHosts`.
- Stage 3: `CatchAllYes`/`CatchAllNo`, `AcquireMailbox`, the outcomes of a probe,
  `EmitGreylisted`. Any probe may have any outcome. `ProbeNoHost` also stands for
  the handler at `runner.py:271-276`, which reports the same verdict.
- Between: `EmitProgress`, which shows the progress of Stages 2 and 3 while the
  status is still stage2, `PublishStage3`, `EnterStage4`. There is no await there, but
  a Streamlit thread may read between the writes.
- Stage 4: `AcquireWebsite`, `ScoreDomain` for both batches; `WakeGreylist`, the
  outcomes of a second try, `EndRetries`, `EndGreylist`; `Complete`.

The score is abstracted: `ScoreDomain` may promote any result `can_promote`
allows (whatever its provider), demote any, keep any. A domain's results are
scored without an await, so that is one action. `retry_one`'s `if not mx_host`
is left out: a greylisted result always carries the host that answered. Address
spellings are abstracted to the normalised address.

### SmtpSession

The client is `_do_smtp_check`: `step`, the mode, `smtp_accessible`, the commands
sent and the lines received and not yet handled. Each line carries, for the
properties only, the number of the command it answers. The server is external:
it answers commands in order, one reply each, in as many lines as it likes, may
drip bytes that complete no line (`Noise`), and may stay silent, close or reset at any
time; a connection may fail or hang. After
`start_tls` the rest of the chunk is dropped, while lines the reader has not
handed out yet stay (`TlsReady`). A `send` on a connection known to be reset
raises, so the RCPT answer may be lost when QUIT cannot be sent, as in the code.
An exception of `open_connection` other than `OSError` is left to `MxFailover`
(`Raised`). The client's own steps are `Bounded`: each of its waits has a timeout.
`TlsReady` and `TlsFails` end the handshake, which has none, and `BudgetExpires` is
`guarded`. `Returns` says that a call ends without that timer unless the handshake
stalls (`Stalled`) or the server sends forever without ending a reply (`Drips`): those
are the cases the budget is for (`smtp.py:404-408`).

### MxFailover

One step is one attempt at one port (`Attempt`), with what the code does on its
result before the next one: the next port or, after the last, the bare domain
(`NextPort`); the end of the catch-all probe (`CatchAllYes`, `CatchAllNo`); the next
host, no host left, a retry, or a verdict (`NextHost`, `NoHost`, `AskedToRetry`,
`Decided`); the end of the retry (`RetryDecides`, `RetryInconclusive`). `Init` chooses
the servers: the MX list, which machines accept every address, and what is behind
the address. A machine that answers tells what it knows or gives one of
`SoftReplies`; any attempt may instead stall, be refused or break, on any machine, at
any time. The bare domain is a machine of its own and may also be on the MX list.
The label of the inferred provider is left out. `NoHost` reports the server as not
accessible even when one greeted, as the code does.

### DomainCache, WebsiteCheck

`DomainCache` has a clock. A call is a chain of awaited queries (`Query`, in the
order of `After`), each of which may fail and leave its default; `Store` writes the
entry. A hit changes nothing and is no action: `Answers` is what a call may return
in a state. `seenAt` and `whoisAt` are history, the time of the oldest query an
answer rests on. Calls of `check_whois` alone are those of Stage 4. The blocklists
and the TXT records only add a flag each and do not depend on one another: they
are one step. `dnsbl.py` is called by nothing. `WebsiteCheck` is the ladder over
HTTPS and HTTP, apex and `www`; what each address serves is chosen in `Init`, and a
probe may fail where a server answers. `missed` and `spoiled` are history: whether a
probe of this lookup, or of the lookup that stored the entry, failed so. A lookup
that failed may store its answer over the good one of another; the code does that,
and the properties allow it, but it is all the harm a failed probe does. The cache
has no clock: an entry may expire at any time. Its names (`site`, `probing`,
`SiteNext`, ...) are distinct from those of `DomainCache` because `DomainCacheProofs` extends both.

### PatternStore

A step is what CPython runs without giving up the interpreter lock. We assume that
`+=` on an attribute, one `set.add` and `list(set)` are such steps: CPython does
not switch threads inside them in practice, though the language does not promise
it for `+=`. The race that remains is in `_get_or_create`, between the lookup and
the store (`Lookup`, `Create`). `entries` keeps the entries that lost it. A job's
plan follows the order of `run_pipeline`. `record_bounce`, `matches_confirmed_format`
and `differs_from_domain_pattern` are called by nothing, so the bounce rate is 0.

`since` is history: what was recorded of a domain when a job's snapshot of it began.
`snapshot_for` reads the formats, the count and (in an entry looked up anew) the rate
in three steps, so they need not be of one moment: with one format read, another job
may confirm a second one, and the count then read has both. `SnapshotGrounded`
bounds each value by what was recorded when the snapshot began and what has begun
by now; it does not say that they fit together.

### Scoring, Syntax

`Scoring` computes the points of every signal, the clamp and the verdict from a
state that is the evidence; a step changes one piece of it. A name is what the
name tests tell apart (separators, digits, vowels, length). An `smtp_confirmed`
result never reaches Stage 4 as reserved, so it is not among the sub-statuses of
the instance. `Syntax` has the tests of `check_syntax` in their order, the
normalisation of Gmail names, the edit distance as a recursive function and the
suggestion; a step types one character or makes one typing error. Letter case,
blanks and the characters of domains are left out. Its specification is called
`SyntaxSpec`, because `AddressProofs` extends `ResultFile` as well.

### ResultFile

The rows of a file pass Stage 1 in order (`Skip`, `Reject`, `Repeat`, `Accept`); the
verdicts come in any order (`Settle`, `Rescore`); then the user turns the filter on
the status (`Select`) or on the sub-status (`SelectSub`). A result's sub-status is left out: which
results share the selected one is any choice of some of them (`ofSub`).
`StatusByEmail` and `Download` are what the code derives from results and rows. The
reading of CSV files and the choice of the column are left out.

### UiPolling

`AddResult`, `Settle`, `CountField`/`CountProcessed` (the two writes of
`increment_count`), `Finish` and `Crash` are the job thread; the pipeline is reduced
to what the page can see. `ViewStatus`, `ViewCounts`, `ViewResults`, `Recheck` and
`Wake` are one run of the page script, split where the thread may write in
between. `UserActs` is a user touching a widget, which runs the script again;
Streamlit may interrupt a script at other points too, and then it starts over as
well. Three of the five statuses are enough: the page treats all alike.

## 3. Properties and runs

The times are for two workers; a run without a time ends within some 20 seconds.

| Run (cfg) | Bounds | Shows |
|---|---|---|
| `pipeline` (`MCPipeline`), 80 s | 4 addresses, 2 domains, one DNS slot, one website slot, SMTP limits 2 and 1, `allowReputationPromotion` on and off | `CountsAgree`, `NoLostEmail`, `FirstWins`, `ProbedOnce`, `ValidNeedsProof`, `ProgressHonest`, `VerdictsFinal`; `Pipeline` implements `BatchVerdicts`, liveness included (`ImplementsBatchVerdicts`) |
| `smtp_session` (`MCSmtpSession`) | three modes, ten RCPT replies, two unread lines, one-line greeting | client and server stay in step (`LockStep`); verdicts come from the RCPT reply of a complete dialogue (`VerdictNeedsDialogue`); flags and answers never mix; a call returns by its own timeouts but for a stalled handshake and an endless reply (`Returns`) |
| `smtp_banner` (violation, `MCSmtpBanner`) | a greeting of any length | another command's reply is classified as the mailbox's |
| `mx_failover` (`MCMxFailover`) | two MX hosts, or one and the bare domain; any set of accept-all machines; three soft replies | the first definite answer decides (`AnswerDecides`); a verdict rests on an answer of the host it names; the retry asks the greylister; honest servers are believed and the catch-all probe guards against the machine it asked (`HonestServersHonestVerdict`); every address is decided |
| `domain_cache` (`MCDomainCache`) | 2 callers, 1 domain, lifetime 2, lookup 1, clock to 5; MX, A and whois queries may fail | an answer is at most a lifetime and a lookup old, its whois part twice that; nothing is found that is not there, nothing is missing without a cause |
| `website_check` (`MCWebsiteCheck`) | 2 callers, every domain | an answer follows the rule of the comments unless its own lookup's probes failed; a site seen counts |
| `pattern_store` (`MCPatternStore`) | 2 threads, 2 domains, 2 formats, 4 plans | no record is undone; one is lost only in a race of creation; a snapshot invents nothing and misses nothing that was recorded when it began |
| `scoring` (`MCScoring`), 100 s | 5 names, 3 mailers, 3 sub-statuses, 2 confirmed and 2 reserved addresses | no signal decides alone; better evidence never hurts; the name alone never flips a verdict |
| `syntax` (`MCSyntax`), 45 s | two letters, 4 providers, local parts up to 4 characters against a limit of 3, 3 typing errors | a typing error is flagged and the right provider suggested; normalisation is stable; aliases collapse at Gmail and nowhere else |
| `ui_polling` (`MCUiPolling`) | 3 results | rendered results are final; progress is off by at most one; polling stops; a user who acts gets the results |
| `ui_stale` (violation, `MCUiStale`) | 3 results, no user | the results may never be shown |
| `result_file` (`MCResultFile`) | 4 rows; two spellings of one mailbox, another mailbox, a malformed text, an empty cell | every row is answered; a duplicate has an original; the download covers the table |

Why the bounds are enough.

- `pipeline`: two domains meet every pair of places in the domain-level tasks, and
  one slot each makes them wait. Three emails of one domain under a limit of 2
  make its semaphore full while another domain goes on. The batches of `MCBatches`
  put each Stage-1 outcome before, between and after emails that go on, with a
  repeated address and a repeated faulty one. In Stage 4 two or three emails of one
  domain and one of another are split in every way between the two scoring
  batches, retried and dropped. The reputation switch is one value
  for a job: `Promoting` are the batches run with it on, where scoring may do everything
  it may do when off, and two more are run with it off, as `config.py` ships it. That
  an address is then valid only on a server's word is part of `ValidNeedsProof`.
- `smtp_session`: two unread lines are enough to have a line answered too early
  behind another one. The replies have one of each class and one of each conflict.
- `mx_failover`: two hosts have a first, a next and a last one; both ladders end
  at the bare domain or, where the host is the bare domain, before it.
- `domain_cache`: a lifetime longer than a lookup, and a clock that lets an entry
  of each cache be filled at the end of the other's life; a third call adds no age.
  The callers are interchangeable and no property names one, so the run uses
  symmetry; it checks invariants only.
- `syntax`: the scaled names are as close to each other as `mail.com`, `gmail.com`
  and `email.com`. The distance cut-off is 2, so three errors lead beyond it.
- `scoring`: an entry of each list and weight, both ends of every threshold and of
  the clamp. The names are one of each shape the name tests tell apart.
- `pattern_store`: two creators are what the race takes; `MCPlans` has the four
  ways in which a job's calls on a domain can follow each other.
- `ui_polling`: a settled result among unsettled ones and a promotion between any
  two reads. `result_file`: a mailbox's second spelling before, between and after
  other rows, and a text three times.

Deadlock checking is off where the system stops: at the end of a job, of a call,
of a thread's plan, of the clock, of a conversation, when a typist has reached
the bounds, or when nobody calls or touches a filter. `ImplementsBatchVerdicts`, `Returns` and `Decides` cover what it would
find there. It is on for `UiPolling` and `Scoring`. Each module has its own `TypeOK`
(`SyntaxTypeOK` in `Syntax`); only that of `Pipeline` is worth a place in its run.

### Fairness

- `Pipeline`: weak fairness of `Next` as a whole. Every await is bounded (DNS
  lifetimes, the SMTP port budget, HTTP and whois limits, one sleep), so as long as
  some task has something left to do, some task does something. No task is
  assumed to be served before another.
- `SmtpSession`: weak fairness of `Bounded`, the client's steps outside the TLS
  handshake. Each read and the connect has its own timeout (`smtp.py:195-205`, `228-242`),
  and a line that has been read is handled without an await. Neither the server nor
  the handshake nor the budget is fair.
- `MxFailover`: weak fairness of `Next`. An attempt ends: by its own timeouts, which is
  `Returns` of `SmtpSession`, or, in the two cases that leaves open, by the timer of
  `asyncio.wait_for` (`smtp.py:412-435`), which we take from the event loop. The retry
  waits for one sleep.
- `UiPolling`: weak fairness of the job thread and of the page script. A user is
  assumed fair only in the hypothesis of `ResultsShownIfAttended`; the difference to
  `ui_stale` is exactly that hypothesis.
- The other modules state safety only and assume no fairness.

### Disagreements between code and documentation

Two have a run:

1. `smtp.py:55` classifies "an SMTP RCPT TO response"; with a greeting of several
   lines `_do_smtp_check` runs ahead (`smtp.py:256-268`) and classifies the reply
   to an earlier command. Run `smtp_banner`.
2. `streamlit_app.py:479-480` says polling stops "the moment results are ready";
   the second read of the status (`482-483`) may stop it before they have been
   rendered. Run `ui_stale`.

The others are stated as definitions that no cfg names. TLC refutes each when it is
added to the cfg of its module (an action formula under PROPERTIES):

| Definition | Text | Code |
|---|---|---|
| `Pipeline!MailboxLimitHonoured` | `README.md:9-11`, the per-domain limits | `greylist_retry` probes outside every semaphore (`runner.py:584`, `608`); set a limit of 1 |
| `Pipeline!ProbingIsStage3` | `streamlit_app.py:36`, stage3 is "Mailbox verification" | mailboxes are probed under stage2, and stage3 is left without an await (`runner.py:440`, `481-488`) |
| `MxFailover!FailoverOnlyOnTcpFailure` | `runner.py:107`, "only on TCP-level failure" | any result with `smtp_connection_failed`, a refused EHLO or MAIL too (`runner.py:111`) |
| `MxFailover!ConfirmationProves` | `scoring_core.py:23-26`, an accept-all server "proves nothing" | the probe asks one host once and a failure means "no catch-all" (`smtp.py:469-471`); the failover and the retry then believe any host |
| `PatternStore!OwnFormatsLearnt` | `patterns.py:3-4`, the store learns formats "across a batch" | a lost race of creation drops what was recorded (`patterns.py:46-49`) |
| `PatternStore!LearnsFromItsBatch` | the same | one store for the process, never reset (`patterns.py:133`) |
| `DomainCache!CondemnedHasNoServer` | `scoring_core.py:64`, "domain has no mail server" | a failed query is an empty answer, for 24 hours (`dns.py:129-138`, `214`) |
| `WebsiteCheck!HttpIsLastResort` | `website.py:80`, "Both HTTPS probes returned None" | when the apex has not answered and `www` has answered 404 or 410, that answer is dropped and HTTP is tried as well (`website.py:76-82`); `LadderFollowsRule`, whose rule is that of the comments, leaves the case out (`Disputed`) |
| `Scoring!WhoisNeverAffectsScore` | `whois.py:4`, "never affects score or status" | the creation date becomes the domain's age, a signal (`dns.py:183-191`, `scoring.py:111-115`) |
| `ResultFile!DownloadMatchesView` | `streamlit_app.py:284`, "match the on-screen view" | rows are chosen by text, so a repeated row comes with both its results (`285-293`) |

Two more need no model: `+x@gmail.com` passes the test for an empty local part and is
then normalised to `@gmail.com` (`syntax.py:115`, `128`; `NormalisedIsStable` names the
exception), and the semaphores belong to a job, so that two jobs together exceed
the limits of `README.md:7-11` (`runner.py:192`).

## 4. Proofs

There is a module of theorems per group of components. TLC had found every
inductive invariant below to hold on the instance of its run before it was proved.
What each theorem is for is said in `PROJECT.json`; here is from which assumptions
and along which argument it follows. A theorem named for an invariant states an
inductive one; the others state properties of "Runs".

### The pipeline (`PipelineProofs`)

For every batch, every set of domains and addresses, and all limits. Of the
named assumptions of `Pipeline` the proofs use `SizeAssumption` and
`AddressAssumption`: no limit need be positive and no set of domains finite.

| Theorem | Says | Rests on |
|---|---|---|
| `TypeInvariant` | `Spec => []TypeOK` | |
| `AccountingInvariant` | `Spec => []Accounting` | types |
| `CountsAlwaysAgree` | `Spec => []CountsAgree` | `Accounting` |
| `ProcessedAlwaysExact` | `Spec => []ProcessedExact` | `Accounting` |
| `VerdictsAreFinal` | `Spec => VerdictsFinal` | `Accounting` |
| `ProcessedIsMonotone` | `Spec => ProcessedNeverFalls` | the two before |
| `FirstAlwaysWins` | `Spec => []FirstWins` | `SeenFirst` |
| `EachAddressProbedOnce` | `Spec => []ProbedOnce` | `ClaimedOnce` |
| `LifecycleInvariant` | `Spec => []Lifecycle` | types |
| `NoEmailIsLost` | `Spec => []NoLostEmail` | `Lifecycle`, `Accounting` |
| `PipelineImplementsBatchVerdicts` | `Spec => Abstract!Spec` | `Lifecycle`, `Accounting` |
| `CountingInvariant` | `Spec => []Counting` | `Lifecycle` |
| `ProgressIsHonest` | `Spec => []ProgressHonest` | `Counting`, `Lifecycle` |
| `ValidIsProved` | `Spec => []ValidNeedsProof` | `Accounting`, `Counting` |

*Counts.* `CountsAgree` alone is not inductive: `Report` keeps it only if the emails
it reports had no result, and a promotion only if the result it takes from
"reserved" was there. Both follow from where the email is, so `Accounting` adds
`PlacesAgree`: an email has a result exactly when Stages 1 to 3 are done with it,
what Stage 4 holds is reserved, only a settled verdict is flagged, and nothing has
passed the cursor. `Accounting` also keeps "processed" as fresh as the tally it
is derived from. `IncrementEffect` and `ApplyScoreEffect` say what the two count operators
add, `ReportCounts` and `SettleCounts` that reporting and settling keep counts and
results together (on sizes of disjoint sets); then every action is a quiet, a
moving, a reporting or a settling step. The five statuses split the emails with
a result, so the tally is at most the batch and the clamp cuts nothing.

*Equal addresses.* `FirstWins` needs `SeenFirst` (what the job's `seen` remembers has an
entry behind the cursor that is no duplicate), `ProbedOnce` needs `ClaimedOnce` (two
entries on their way to a server, or to a second try, have two addresses, and
`seen` has both).

*Where everything is.* `Lifecycle` ties the job's status, the tasks of each domain and
the place of each email to the stage: `JobAgrees`, `DomainAgrees`, `EmailAgrees`. Its
hard part is `InStage4`: some coroutine still answers for an email (its scoring
batch, the sleep, the retry), or its verdict stands. When both coroutines are done,
only the last is left, and that is `NoLostEmail`.

*Refinement.* Every step of a job maps to a step of `BatchVerdicts` or to a stutter:
a report of one status to `Report`, a score to `Resolve`, the failure of Stage 1 to
`Abort`, `Complete` to `Finish`, all others to a stutter (`StutterRefines`). `Accounting`
gives the tally; `Lifecycle` says that nobody is without a verdict when Stage 4
resolves or the job ends. The theorem is about `Abstract!Spec`; the fairness that
`ImplementsBatchVerdicts` adds to it is only model-checked.

*Progress.* `Owed` says of each stage that its total is what is done plus the number
of emails the stage still owes, as sets: `Pending2`, `Pending3`, `Pending4`. In Stage 4 an
email that is retried and then scored is counted twice, so `CountedTwice` stands on
the other side. `Bounds` and `Shown` are the ends and the published copy.

*Proof of validity.* `Proved` says of one result what `ValidNeedsProof` does, and that
a greylisted one has been through Stage 3, where a second try leaves it. That scoring leaves a confirmed
result alone follows from `Accounting`: what Stage 4 holds is reserved.

### Mail servers (`SmtpSessionProofs`, `MxFailoverProofs`)

For every reply code and every set of keyword classes in the text, about
`SmtpClassify` without any assumption:

| Theorem | Says |
|---|---|
| `SubStatusTellsExistence` | replies with the same sub-status say the same about the mailbox: Stage 4 and the failover, which look at nothing else, lose nothing |
| `SenderWordsNeverDecide` | a keyword about the sender added to a reply never makes an open verdict definite |
| `MailboxWordsNeverClear` | a keyword about the mailbox added to a reply never clears a condemned mailbox |
| `RetryRepliesStayOpen` | a reply with a retry code decides nothing but a full mailbox, and the failover never passes over it |

The chain of tests is unfolded once, into one equation per field (`FieldsAgree`),
and chains on sets of keywords that differ by one are compared.

About a conversation, for every set of replies, every length of the inbox and
every behaviour of the server, from `ModesAssumption` and `RepliesAssumption`:

| Theorem | Says | Greeting |
|---|---|---|
| `ProgressInvariant` | `Spec => []Progress` | any |
| `FallThroughHasNoAnswer` | `Spec => []FallThroughIsNoAnswer` | any |
| `WireInvariant` | `Spec => []Wire` | one line |
| `DialogueInStep` | `Spec => []LockStep` | one line |
| `VerdictAfterDialogue` | `Spec => []VerdictNeedsDialogue` | one line |
| `ConversationIsAttempt` | `Spec => []ResultIsAttempt` | one line |

`Progress` is what the client knows of itself: which commands its step says it has
sent. `Wire` is about the lines on their way: a line that waits answers the last
command, and after the last line of a reply the server owes nothing. That needs
the hypothesis `MultiLineBanner = FALSE`, written into the four theorems, because
with a longer greeting it is false, as `smtp_banner` shows. `ConversationIsAttempt`
is the interface on which `MxFailover` builds.

About the failover, for every set of MX lists and of accept-all machines, from
`MxListsAssumption` (a list is not empty and names no host twice) and
`SoftRepliesAssumption` (a soft reply decides nothing):

| Theorem | Says |
|---|---|
| `TypeInvariant` | `Spec => [](TypeOK /\ VerdictRecord)` |
| `FirstAnswerDecides` | `Spec => []AnswerDecides` |
| `VerdictsHaveAnswers` | `Spec => []VerdictHasAnswer` |
| `RetryGoesBack` | `Spec => []RetryAsksTheGreylister` |
| `HonestVerdicts` | `Spec => []HonestServersHonestVerdict` |

The last one rests on two facts about everything said so far: a definite answer
is what its machine does (`AnswersAreTrue`), and a confirmed probe of the made-up
address ends the search without a verdict (`ProbeProtects`).

### Lookups (`DomainCacheProofs`)

For every set of callers and domains, every lifetime, lookup time and clock, every
zone and every set of queries that may fail, from `ZonesAssumption` and
`TimesAssumption`; the website check for every number of callers and every site:

| Theorem | Says |
|---|---|
| `TypeInvariant`, `AgesInvariant` | `Spec => []TypeOK`, `Spec => []Ages` |
| `AnswersAreFresh` | `Spec => []AnswerAgeBounded` |
| `WhoisAnswersAreFresh` | `Spec => []WhoisAgeBounded` |
| `AnswersHaveCause` | `Spec => []AnswerHasCause`, from `Causes` |
| `LadderInvariant` | `SiteSpec => []Ladder` |
| `AnswersFollowRule` | `SiteSpec => []LadderFollowsRule` |
| `SeenSitesCount` | `SiteSpec => []SeenSiteCounts` |

The bounds on answers are not inductive, because an answer is a sum of waits: in a
call, in the whois cache, in a second call, in the DNS cache. `Ages` bounds each
wait: a call lasts at most one lookup and dates from its beginning, a whois entry
was stored at most one lookup after its query, and a draft's whois part was
younger than a lifetime and a lookup when the call began. `AgesStep` adds the waits
up. `Causes` says of drafts and of the entries of both caches that what is found is
there, and that what is there was found or its query failed, as soon as the code
has asked for it. `Ladder` says how far a call of `check_website` has come, what it has
then seen and kept (`Rung`), what it knows of the servers as long as none of its own
probes has failed (`Ruled`), and that the entry is what some call kept (`SiteKnown`).

### The shared store and the score (`PatternStoreProofs`, `ScoringProofs`)

For any finite set of threads with any plans, from `JobsAssumption` and
`PlansAssumption`; and for any names, mail hosts, sub-statuses and numbers of
addresses, from `InputsAssumption` of `Scoring`:

| Theorem | Says |
|---|---|
| `PatternStoreProofs!TypeInvariant`, `StoreInvariant` | types and `Filed`; `Single`, `Recorded` and `Grounded` |
| `RecordsAreKept` | `Spec => []EveryRecordKept` |
| `OnlyCreationLoses` | `Spec => []LostOnlyInCreation` |
| `PatternStoreProofs!WindowInvariant` | `Spec => [](Learned /\ Windows)` |
| `SnapshotsAreGrounded` | `Spec => []SnapshotGrounded` |
| `ScoringProofs!TypeInvariant` | `Spec => []TypeOK` |
| `NoSignalIsDecisive` | `Spec => []NoSignalDecidesAlone` |
| `GoodNewsNeverHurts` | `Spec => BetterEvidenceNeverHurts` |
| `SpellingNeverFlips` | `Spec => NameAloneNeverFlips` |

In the store an entry is filed under its domain and a call writes to an entry of
its own (`Filed`); a domain without a race has one entry and nobody about to replace
it (`Single`); each completed call is in one entry, whose counts are the numbers of
its calls (`Recorded`); entries and snapshots claim only what was confirmed
(`Grounded`). A call learns its format before it counts (`Learned`), so the entry a
snapshot reads has the formats of all that was recorded when it began, and what a
snapshot has read it keeps (`Windows`); the entry looked up anew for the rate is the
same one, because the domain's creation was not raced. `EveryRecordKept` says of
each entry that its counts are the number of the calls recorded in it, rather
than adding up all entries: that is what the code
promises, and it needs no sum.

The scores are bounds on sums. Every signal has a range (`PointBounds`). With less
than two adverse ones the total is at least 25, with less than three favourable ones
below 85 (`OneAdverseSignal`, `TwoFavourableSignals`), and clamping to 0..100 changes
neither side of a threshold. The signals of the name range over 51 points and the
thresholds are 60 apart.

### The page and the file (`UiPollingProofs`, `AddressProofs`)

For a job of any size (`TotalAssumption`), and for a file of any length with any texts
and any way of spelling a mailbox (`InputsAssumption` of `ResultFile`):

| Theorem | Says |
|---|---|
| `LedgerInvariant` | `Spec => []Ledger` |
| `RenderedAreFinal` | `Spec => []RenderedIsFinal` |
| `ProgressDipsAtMostOne` | `Spec => ProgressDipsByOne` |
| `BooksInvariant` | `Spec => []Books` |
| `RowsAreAnswered` | `Spec => []EveryRowAnswered` |
| `DuplicatesHaveOriginals` | `Spec => []DuplicateHasOriginal` |
| `DownloadsCoverViews` | `Spec => []DownloadCoversView` |

`Ledger` books what the outstanding calls of `increment_count` still owe to each count
(`Form`, `Booked`, `Lag`); a job that has ended owes nothing (`Ended`), and what the page
holds is of such a job (`Watched`). `Books` has a one-to-one map from the results to
the rows reported so far, under which a result says "duplicate" exactly when an
earlier row has the same mailbox (`Matched`). The existence of a first row of a
mailbox and of a last result of an address comes from `WFMin` of the library: a
non-empty set of natural numbers has a least element.

### Addresses (`AddressProofs`)

For any alphabet of domain names, any list of providers, any set of Gmail names
among them, and all limits, from `WordsAssumption` of `Syntax`:

| Theorem | Says |
|---|---|
| `AddressesAreTyped` | `SyntaxSpec => []SyntaxTypeOK` |
| `NormalisedAddressesAreStable` | `SyntaxSpec => []NormalisedIsStable` |
| `AliasesAreOneMailbox` | `SyntaxSpec => AliasesCollapse` |
| `DistanceCountsChanges` | the distance is the least number of single changes, for any two words |
| `TyposAreCaught` | `SyntaxSpec => []TypoCaught` |

The state is simple (a text and a name), and its types are all the invariant it takes.
The work is in what the two recursive functions compute for every word. The
library's induction theorems have a parameter that the provers here cannot
instantiate, so induction is stated about sets: a set of numbers with 0 and every
successor has all numbers (`AllNumbers`, from `WFMin`), a set with the empty word and
every word one letter longer has all words (`AllWords`), and the same for pairs of
words (`AllPairs`).

*Normalisation.* `KeptExists` shows that the recursion of `Undotted` has a solution and
`KeptSame` that it looks at nothing to the right; so a character more appends itself
unless it is a dot (`UndottedGrows`). Everything else is by `AllWords`: a dot more
changes nothing (`UndottedInsert`), a word without dots stays (`UndottedIdle`),
something is left of a word that begins with another character (`UndottedKeeps`).
`NormaliseStem` cuts the suffix off, wherever its "+" is.

*Distance.* The table of `Levenshtein` is filled diagonal by diagonal
(`DistancesExist`), and a cell depends on the letters before it only
(`DistancesAgree`). That gives the distance of two words with a letter more each
(`DistanceGrows`), the only fact used from there on. By induction over pairs it is a
number, zero for equal words only, symmetric, and changed by at most one by a letter
at the end (`AlwaysNear`). A change anywhere is a change of the last letter or a change
of what is before it (`EditsOfAppend`), so no change gains more than one
(`OneChangeCostsOne`), and some change gains one unless the words are equal
(`OneChangeNearer`). Within two changes, then, means at a distance of at most two, and
the first of the nearest providers exists (`FirstOfNearest`).

### Only model-checked

Liveness: `Returns`, `Decides`, `PollingStops`, `ResultsShownIfAttended` and the end of a
job in `ImplementsBatchVerdicts`. It needs fairness and ENABLED, which are out of the
prover's reach.

All other properties of the passing runs are proved. That a run cannot show: they hold
without its bounds. That a proof cannot show: the mutants in `PROJECT.json`, which
say that each property notices a plausible mistake.

## 5. What is not modelled, and what could be proved next

Not modelled:

- Parsing of uploads, JSON export, logging, the log view, the self-test button and
  the wake lock: input and output without state of their own.
- Configuration loading. `smtpDomainConcurrency`, `maxRetries`, `workers` and the
  result cache are read by nothing. The website check is modelled as enabled.
- `dnsbl.py`, `record_bounce`, and `delete`, `list` and `get_filtered_results` of the job
  store: called by nothing.
- The preliminary score, the confidence and the provider label: no decision reads
  them.
- HTTP requests: each is answered between two awaits and returns the record of one
  state of `Pipeline`.
- Several jobs in one model: they share only what `PatternStore`, `DomainCache` and
  `WebsiteCheck` model.

Worth proving next: nothing that a run checks is left but liveness. `BatchVerdicts`
could be given several jobs at once over one `PatternStore` and one pair of caches,
and the interference between jobs proved harmless to each job's counts.
