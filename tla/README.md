# Formal models of the text provenance engine

TLA+ models of this repository - its jobs, quotas, billing, database, detectors,
text transformations and reports - checked with TLC and, for the properties that
matter most, proved with TLAPS. The reference is always the
Python source under `src/provenance` (shortened below to file names); a document
is quoted only where the code is compared with what it says.

`PROJECT.json` lists the components, the runs, the line-by-line map from
definitions to source, the hazards and the mutants (a small bug per property,
which the property must detect).

## 1. Inventory

The product is a FastAPI process (`api/`) around a pure analysis engine, with a
SQLite or Postgres repository, one thread pool for background work, and caches
for models. The image starts one uvicorn worker (`Dockerfile:43`), so the
process below is one process with many threads.

| Component | State it keeps | Operations | What is hard |
|---|---|---|---|
| Analysis jobs (`api/jobs.py`, `routes.py`, `db.py`) | `jobs`, `usage_records` rows; executor queue; worker threads | submit, execute, cancel, retry, record usage, recover at start, clean up, drain | each handler is several repository calls, and what it read may be stale at its next write; a crash between two commits |
| Benchmark runs (`api/benchmarks.py`, `robustness/orchestration.py`) | `benchmark_runs` rows, `manifest.json`, a semaphore | create, execute, cancel, retry in place, recover | same races, plus files that are not written atomically and workers that block on the semaphore |
| Model cache (`loading.py`) | an LRU `OrderedDict`, counters, a lock per model | get or load, clear, infer | loads run outside the lock |
| Public quota and identity (`api/public.py`, `identity.py`, `supabase_auth.py`, `entitlements.py`) | `usage_events`, visitors, users | consume, claim at sign-in, count | count-then-insert, locks by identity scope, several processes |
| Billing (`api/billing.py`, `billing_routes.py`) | `subscriptions`, `billing_webhook_events` | checkout, cancel, webhook | redelivered and reordered events, a ledger written before the effect |
| Daily limits, rate limiter (`routes.py`, `middleware.py`) | usage counts; an in-memory window | check, record | check-then-act without a lock |
| Executor and process life (`jobs.py`, `app.py`) | a lazily created pool, a shutdown flag | start, drain, stop | unlocked creation, a flag nobody reads |
| Database (`db.py`) | one connection per repository, two implementations of 42 methods | every method under an instance lock | the two must agree; an aborted Postgres transaction, an open SQLite one |
| API keys (`auth.py`, `keys.py`) | key rows | create, revoke, verify | none beyond a single row |
| KGW and SynthID detectors (`detectors/`), generation (`generation/`) | none | score a text, write one | windows, histories and keys must be those of the other side |
| Unicode detection, tokenization (`preprocessing/`, `detectors/unicode.py`) | none | findings, tokens | classes of characters |
| Robustness (`robustness/`) | result files in a directory | transform, evaluate, store, aggregate, compare | texts of odd characters; counts that lose their pairing; files read while they are written |
| Benchmark statistics (`benchmark/`) | records | rates, intervals, ROC, report | empty groups, ties, seeds |
| Python client (`provenance_client`) | a polling loop | `wait_for_job` | time-outs against a job that never ends |
| Engine and service (`engine.py`, `service.py`) | none | dispatch to detectors | one call that returns or raises |
| CLI, dashboard, serverless entry, scripts | the files the CLI writes | wrap the above | see robustness |

How they interact: a request thread inserts a row and submits a work item to
the executor; worker threads read and write the same rows; cancellation and retry
are writes of other request threads to those rows; start-up recovery rewrites what
a previous process left. Every repository method holds the repository's instance
lock and commits before it returns (`db.py:46-73`), so **one repository call is
one atomic step** of the models, and a handler is as many steps as it makes
calls. A call that raises may have executed its statement without committing it, and nothing
rolls back: on SQLite the write stays in the connection's open transaction. Files have no such
lock: opening and writing one are two steps.

What makes each component correct, in a sentence: an accepted job is worked on by
one thread, at most once, billed at most once per outcome, and ends; a run that says
"completed" has complete artifacts, and a retry resumes it; the cache
is bounded and never gives out what was loaded for something else; a quota is never
exceeded nor reset by signing in; a paid subscription is what its last event said;
both databases do the same, and what was answered is committed; a detector reads a
mark where the generator left it; a transformation changes what it is named for; a
report counts each sample as often as it was asked for and its rates are rates.

## 2. Modules

| Module | Role |
|---|---|
| `JobLifecycle` | the job component: rows, executor, workers, requests, process |
| `JobLedger` | abstract: what is on disk of a job is started once, booked once per code, and never taken back |
| `DocumentedJobs` | abstract: the transitions `docs/architecture.md` lists |
| `JobClaims` | the two refinements, and the documented claims the code does not keep |
| `JobLifecycleProofs` | theorems about `JobLifecycle`: the work done, and the rows |
| `BenchmarkRuns` | benchmark runs: rows, manifest file, semaphore, requests, process |
| `BenchmarkRunsProofs` | theorems about `BenchmarkRuns` |
| `ModelCache` | the model and tokenizer cache and its users |
| `ModelCacheProofs` | theorems about `ModelCache` |
| `PublicQuota` | visitors, users, daily uses over SQLite or several Postgres processes |
| `PublicQuotaProofs` | theorems about `PublicQuota` |
| `Billing` | checkout, cancellation, webhook, the plan the rows grant; the provider |
| `BillingProofs` | theorems about `Billing`: the ledger, and the subscription rows |
| `Repository`, `RepositoryPair` | `SqliteRepository`, `PostgresRepository`, and both side by side |
| `RepositoryPairProofs` | theorems about `RepositoryPair` |
| `KGW`, `SynthID` | operators: the reference and simulated detectors and their generators |
| `Detection` | a text that a generator extends, read by its detectors after each token |
| `DetectionProofs` | theorems about `Detection`: the scorers' loops, and what the generators leave for them |
| `Transforms` | operators: every text transformation, the simple tokenizer, Unicode findings |
| `RobustnessTexts` | `benchmark robustness --text`: any short text, detector, profile and seed |
| `BenchmarkStatistics`, `RobustnessResults` | operators: statistics and report; experiments, stored lines, aggregates |
| `RobustnessReports` | the result directory: who writes its files, who reads them, who is killed |
| `RobustnessReportsProofs` | theorems about `RobustnessReports`: what a completed run has on disk, what rates are of, samples counted as often as asked for, groupings that add up |
| `MC...` | instances for TLC |

### JobLifecycle

The table is modelled twice. `status`, `completedAt`, `result`, `retryCount`, `parent` and
`usage` are the rows as the process's one SQLite connection shows them to every thread;
`saved` is the same as last committed. A method that returns makes them equal (`Commit`); one
that raises at its commit leaves its write in the open transaction, which the next commit of any
method publishes and the end of the process loses (`RollBack`). Only `saved` survives a crash;
the process variables (`queue`, `pc`, `task`, `inExcept`, `rpc`, `rjob`) do not. `pc[w]` is the next statement of `run_job_background`, one label per
repository call: `picked` (pre-check) → `starting` (write *running*) →
`analyzing` → `checking` (post-check) → `completing` / `failing` →
`recording`, or the three writes `cancel1..3`. `inExcept` says whether the thread
is in the `except` block, which repeats the post-check. `rpc[r]` does the same
for `POST /v1/analyze/async`, `DELETE /v1/jobs/{id}` and `POST .../retry`. A step
that answers a request without a write, and before any other thread could notice,
is folded into the read that decided it.

`RepoRaises(w)` is a repository call that raises, before its write or after it (`Uncommitted`):
in the try block it is handled as a failed analysis, elsewhere it leaves the function and
ends in a `Future` nobody reads. `RequestRaises` and `InsertRaises` are the same for the
handlers, and `CommitElsewhere` stands for every other call of the process that commits (each
authenticated request updates its key's `last_used_at`). So the 200 record whose commit raised is
published by `fail_job`'s commit in the except block, and `record_usage(500)` puts a second one beside it;
`unsure` is history, the jobs this can have happened to. `Startup(recovering)` is `lifespan` with its recovery
and clean-up, both of which swallow exceptions: the two updates of a recovery that raises may be executed
in part and published later; the age of a row is abstracted, so
clean-up deletes any set of terminal rows that have a `completed_at`.

`JobLedger` says of the committed records: nothing is taken back, an analysis starts only for a
committed row and once, a status code is booked once and only after that, and both codes only when the first booking
was answered by an exception. One commit may publish several records, so its step is a conjunction.

Left out: authentication, ownership and limits (they answer before anything is
written), the text and the report, `started_at`, the client's polling, serverless
mode (which refuses durable work), and an `executor.submit` that raises. On Postgres a raising call
leaves an aborted transaction instead of an open one; `RepositoryPair` models both.

### BenchmarkRuns

The same shape, with `manifest[r]` for `manifest.json`: `absent`, `unreadable`
(truncated by `open("w")` and not yet written), or the status of its one experiment
(an API run has one spec). `OpenManifest` and `WriteManifest` are the two halves
of `RunManifest.save`, which `BenchmarkRunner.run` calls three times. The semaphore is
`slots`; `Release` is the `finally` block. Cancellation is conditional here
(`cancel_benchmark_run_if_status`), the retry's `queued` and the worker's `running`
are not. Left out: progress, dates and `retry_count`, which nothing reads back,
and the plan-id check, since a run's configuration never changes.

### ModelCache

`entries` is the order of the `OrderedDict`, `cached` its values, and `madeFor`
records for which key each loaded instance was made. `Hit` and `Miss` are the
first locked block of `get_or_load`, `LoadReturns` the second with its eviction
loop; between them the lock is free. `gone` counts entries replaced by a second
load of their key or cleared, which the code does not count.

### PublicQuota

`events` is `usage_events`; `mutex[p]` is the instance lock of a process, `scopeLock`
the advisory lock that `try_consume_public_use` takes on Postgres, and `conn` says
whether a process's connection is in an aborted transaction (which has lost its advisory
lock: Postgres releases it at the abort). A request is served in
as many steps as it makes repository calls; the calls that another process can get
into the middle of (the insert of a user, the count and insert of a use) are split
at their statements. A cookie names a visitor or, absent or forged, none; a session is
none, expired or a user. `madeBy` and `everPro` are history.

### Billing

`provider` and `sent` are Razorpay: its subscriptions and the events it has made, in
order. It is modelled from what the code sends it and expects of it. `unacked` are the
events that have not been answered with 200: any of them may be delivered at any time, by
several handlers at once. `ledger` is `billing_webhook_events`, `rows` the subscriptions
in the order of `updated_at`. The handler of a new event is three steps after the ledger's:
`LookUpOwner`, `ApplyEvent`, and `AnswerEvent`, whose 200 may be lost. The checkout names no customer
(`create_customer` returns `None`); the provider tells one from some event on, and nothing says that two
users are two customers. An event may also come without its customer (`pending`). `disturbed` is history: the subscriptions of which an
event was lost, dropped by a failure after its ledger entry, or overtaken.

### Repository and RepositoryPair

A method is a list of writing statements, the end of its transaction (`commit`,
`rollback`, or `open` for a method that only reads) and its answer; `LiteX` and `PgX`
are the two texts of `db.py` for the method X. A call executes both on the same
arguments. A statement or the commit may raise: SQLite keeps what was executed in its
open transaction, Postgres discards it and refuses everything until a rollback.
A behaviour works on one family of tables, since no method joins two.

### KGW, SynthID and Detection

Hashes, permutations and the model's logits are constants or `\E`: a text is extended by
any token the generator may choose, and the detectors are applied to every prefix. A
z-score is compared as an exact fraction; SynthID's accumulated hash keeps the width
of its word (`WordSize`, a power of two as 2^64 is) and the arithmetic shift. The two KGW scorer classes
repeat each other's arithmetic line by line over two generators of permutations, Python's `random.shuffle` and
`torch.randperm`: the oracle has both, and the operators take the one of their class. Their lists
differ on the same context, as `docs/kgw-upstream-crosscheck.md` says, so
nothing here compares their colours: a text is generated and read with one of them.

### Transforms and RobustnessTexts

A character is a member of `Chars`, one for each class the code tells apart, the sharp s included, whose
capital is two letters that do not go back to it (`Upper`, `Title`); regular expressions
are modelled by what they match and replace. The command's
outcome is a function of text, detector, profile and seed; `all_safe` is a profile like the others.

### BenchmarkStatistics, RobustnessResults and RobustnessReports

Verdicts and scores are chosen with `\E`, everything made of them is computed: rates are
pairs of integers, `rate_estimate` gives `ValueError` outside 0..n, as the interval's root
would; the area under the ROC curve is counted in halves of pairs. A file is `absent`,
`open` (truncated, some lines flushed), `whole` or `torn` (a kill or an exception left half a line).
`FailStamp` is the `except Exception` of `_stamp_run_metadata`: a read that fails leaves the file without its
id, a write that fails leaves a part of it, and the run goes on. What a command prints is
`render_robustness_report`, with its ratio per transformation, which pairs nothing. The
run of the dashboard is seen here from its files; its row, slot and cancellation are
in `BenchmarkRuns`, of which a retry is here one step.

## 3. Runs

| Run | Instance | Shows |
|---|---|---|
| `jobs_safety` | 2 jobs, 2 workers, 2 submitting and 2 cancelling requests, 1 fault before or after the write, 1 crash | types, at-most-once work and billing, no orphan, clean shutdown, dated rows, no request overrun, refinement of `JobLedger` |
| `jobs_live` | 2 jobs, 2 workers, 1 + 1 requests, 1 crash | jobs leave *queued* and *running*; a cancel during the analysis ends in *cancelled* |
| `bench_safety` | 2 runs, 1 slot, 2 workers, 2 submitting requests, 1 cancelling, 2 retries, 1 fault, 1 crash | no slot lost, completed means complete, no abandoned run, finished work kept |
| `bench_live` | 2 runs, 1 retry, 1 crash | runs end; a cancel during the experiment is honoured |
| `cache_safety` | 3 threads, 3 keys, size 2, 4 loads | bound, identity, counters, eviction |
| `quota` | 1 browser, 1 user, 2 visitors, 2 requests, 2 processes, limits 1, 1 and 2, 4 arrivals, 2 days, 1 fault, 1 crash, both databases | quotas hold across processes, no request stalls, also beside an aborted connection, signing in resets nothing |
| `billing` | 2 users, 2 customers, 2 subscriptions, 2 handlers, 3 events, 3 requests, 2 periods, 1 failure (crash, lost event or lost answer) | an event is applied once, rows have their owner or one who pays as the same customer, Pro is paid for, undisturbed rows follow the provider |
| `stores` | every method, 2 keys, 5 calls over 2 dates, 1 failing statement, restarts | the two repositories agree; what was answered is durable |
| `detection` | 3 tokens, texts of 6, windows of 1 and 2, every seeding scheme, two pairs of permutations, n-grams of 2 and 3, histories of 0, 1 and 3 | both scorers count the text; marks are read; repetitions do not count |
| `texts` | every text of 5 characters of seven families, every profile, detector and seed | verdicts survive layout, and case unless a letter is spelled anew; no artefact is made; normal forms are stable |
| `reports` | 2 commands or executions in any mixture, of one configuration, the command's length listed twice, 2 kills or exceptions, 1 report; apart from these every scoring of 8 samples by 3 scores | rates are paired, tables add up, samples count as often as they were asked for, completed runs are reported |
| `claim_report_reads` | the same without faults | *violated*: see below |

Two jobs are what a retry needs (a parent and its child), two workers what a
double execution needs, two requests of a kind what a race between retries or
cancels needs; a third of any kind repeats the second. One crash and one
fault reach every label, because each is possible at every label; retries are
bounded because each makes new work. Three keys on two places force evictions, and the third
thread lets a load overlap with a load and a `clear`. A limit of one for visitors and
two for Pro is where the count meets the limit within four requests; two processes are
what an advisory lock is for. Three events of one subscription can be delivered in each
order, and two users can be mistaken for each other. Five calls are two that prepare a
row, two that differ and one that reads, and a date change falls among them. Six tokens
hold a context of two, a repetition of it, and one position more than the longest
history; a text of five characters holds a mark with white space on both sides and a
break. Two works are what a rewrite, a retry, or a reader between two writers needs,
and a second kill or exception can meet the retry.

`PublicQuota`, the jobs and the runs check deadlock. The other configurations turn it off
since a bound ends their behaviours: loads, events, calls, characters, tokens, works.

`NoOrphans`, `CleanShutdown`, `TerminalRowsDated` and `NoAbandonedRun` are
conditional on `faults = 0` (and `TerminalRowsDated` on no crash): a repository that
raises before the try block, or at the commit of an insert, does orphan the row until the next
start. `AtMostOnce` and `BilledWork` are not conditional: they say that a job has two usage
records, or a 200 record beside *failed*, only if the call that inserted the 200 record raised
(`unsure`), which is what the code does then. `RowsFollowProvider` leaves out the subscriptions in
`disturbed`, `CompletedIsReported` the runs whose stamping failed or was killed. `VerdictKept` says of the letters in
`Respelled` that their tokens do change.

### Fairness

Weak fairness on every worker step and on every step of a request that has begun
(the operating system schedules threads, the analysis ends), on
`Startup(TRUE)` (the container is restarted and its recovery eventually works) and
on `EndShutdown` (`shutdown(wait=True)` returns once the pool is idle). None on
clients, faults, crashes or shutdown requests. The semaphore is not first come first
served, so acquiring it gets weak fairness only; that suffices as runs and
retries are finitely many, and the last one waiting finds the slot free.

### What the code does not keep

`claim_report_reads`: the README (471 to 484) saves results with `--out-dir
data/robustness/kgw` and then aggregates `data/robustness/`. The first command also leaves
a `records.jsonl` of evaluation records there, the second reads every `*.jsonl` as
results (`robustness/benchmark.py:268`) and ends with a `TypeError`. The dashboard
turns the same file into a warning.

The modules state more of what documents and docstrings say. Each of the following has a
configuration in which TLC finds the behaviour: `tlc -config X.cfg MC...`.

| Property, configuration | What happens |
|---|---|
| `CancelledNeverRuns`, `JobClaims_cancelled_runs` | a job whose DELETE answered "cancelled" is executed: the worker writes *running* after a stale pre-check (`jobs.py:88`; `docs/architecture.md:566`) |
| `CompletedStays`, `JobClaims_completed_stays` | a completed job becomes *cancellation_requested* through a stale read (`routes.py:1079`; `docs/architecture.md:608`), or *failed* when `record_usage` raises (`jobs.py:155`) |
| `RestartUnsticks`, `JobClaims_restart` | recovery skips *cancellation_requested* jobs (`db.py:979`; `docs/architecture.md:595`) |
| `ReportedCancelled`, `BenchmarkRuns_reported` | the benchmark cancel answers "cancelled" whatever the conditional update did (`routes.py:605`; `README.md:660`), and the worker overwrites the status |
| `ResumeReads`, `BenchmarkRuns_resume` | a crash inside `RunManifest.save` leaves a file on which every retry fails (`orchestration.py:464`; `app.py:80`) |
| `SingleFlight`, `ModelCache_single_flight` | two threads load the same model (`loading.py:132`; its docstring at 120) |
| `LostWhenStamped`, `RobustnessReports_stamp` | a kill or a swallowed exception while `_stamp_run_metadata` rewrites the results loses them or their id for good: the row becomes completed, or the retry resumes a manifest that says so (`benchmarks.py:485`; its docstring at 466) |
| `PrintedIsPaired`, `RobustnessReports_profile` | with `--profile`, or `--transforms` without `identity`, the printed report finds no baseline and its robustness is zero (`experiments.py:300` to 309), whatever the stored lines say (`docs/architecture.md:932`; `README.md:508`) |
| `BiasFavours`, `Detection_bias` | the SynthID processor replaces the logits of the top tokens by scores, which may lie below those it leaves (`generation/synthid.py:82`; its docstring at 53) |
| `HyphensJoinTwoLines`, `RobustnessTexts_hyphens` | a line that ends in a hyphen is joined to the line before it without a space as well: "the quick", "brown-", "fox" gives "the quickbrownfox" (`advanced_transforms.py:143`) |

In the other direction `JobLifecycle_documented.cfg` shows that without cancellation and
faults the jobs make exactly the transitions of `docs/architecture.md` (3 jobs, 1 crash).

Defined without a configuration: `JobClaims.UsageOnce` (`jobs.py:123`, "exactly once per job": two records
are left as told above; the instance of `JobClaims_restart` with one fault shows it),
`PublicQuota.AnonymousDailyLimit` (the description of
`public_analyze` counts anonymous analyses; a claim at sign-in frees the visitor's
count) and `Billing.ActiveGrantsPro`, `Billing.ScheduledEnds` (`docs/architecture.md:1359` and 1409;
an older row of a user with two subscriptions is not looked at, and an event clears
the cancellation flag).

Seen while modelling: a job being cancelled is *failed*
for one step and can be retried there (`jobs.py:107`); a crash between
`complete_job` and `record_usage` leaves a job unbilled (`jobs.py:123`); a crash
after the first write of a cancellation leaves a row without `completed_at`, which
clean-up never matches (`db.py:966`); a benchmark retry on a stale read
re-queues a run that is executing (`routes.py:656`); `records.jsonl` stores the verdict and
score of the original text under the name of a transformation (`cli.py:581`);
`build_comparison_report` calls a ratio of two totals a "paired conditional rate"
(`orchestration.py:757`); the manifest names `results.jsonl` where `benchmark_results.jsonl`
is written; a matrix cell shows the last configuration of several; line wrapping can merge
two words, and the synonym map garbles words with leading marks; the SynthID benchmark scores too little
text as 0; SynthID weights given in a configuration are not normalized, so a score may
exceed 1; `get_registry` publishes the registry before it is filled
(`detectors/registry.py:115`).

## 4. Proofs

All theorems hold for any sets of jobs, runs, workers, requests, threads, processes and
keys and any bounds, from the named assumptions on constants only (`ConstantsAssumption`,
`BenchmarkAssumption`, `CacheAssumption`, `QuotaAssumption`, `BillingAssumption`, `RepositoryAssumption`, `ReportsAssumption`, `StatisticsAssumption`,
`KGWAssumption`, `SynthIDAssumption`, `DetectionAssumption`); two theorems
about benchmark runs add `MaxSlots = 1`, and one about detectors two properties of hash and weights. Every inductive invariant below was checked by
TLC on the instance of its component's run before it was proved.

**Jobs: the work.** `TypeCorrect`, `OneOwnerAlways`, `AtMostOnceAlways` and `RefinesLedger`.
`AtMostOnce` is not inductive: nothing in it stops a worker about to write
*running* for a job that has run. `OwnershipInv` adds what does: a job is in one
place only (`OneOwner`), and `WorkInv` says for each place how much work has been
done - none for a job that is being submitted, queued or before *running* (`Pending`), one
analysis for a job whose worker is past it, and no record except the one of a call that raised
(`Started`). Most steps move no job and count
nothing; the lemma `StepCases` reduces a step to those that do or to `Quiet`, and the
invariant is preserved by each. The refinement is of what is on disk: `Booked` holds of the open and
of the committed usage, nothing committed is missing from the connection (`Kept`), a job on its way has a
committed row, and a step leaves what is on disk or replaces it by what the connection shows (`DiskSteps`).

**Jobs: the rows.** `NobodyLeftBehind`, `ShutdownLeavesNone`,
`BilledForResults`, `EndedRowsDated` and `CancelNotUndone`. The invariant `RowInv` adds to
`OwnershipInv` what links a row to the place of its job: as long as no call raised nothing is uncommitted
(`SyncInv`), a job on its way to its analysis waits or was cancelled, open and on disk, and no
start is open over a committed request to cancel (`WayInv`), a worker past the analysis has ended its job (`EndedInv`),
a record has its result, in the rows of the connection and in those on disk (`BillingInv`), and a terminal row is
dated or its worker still has the date to write (`DatedInv`). Single ownership carries most of it:
only the thread that has a job writes its row, except for the cancelling requests, whose
writes each part allows for (`StatusMove`). `CancelNotUndone` is an action property of the committed rows: a late
start, or its publication by somebody else's commit, could break it, and `WayInv` gives the statuses either may find.

**Benchmark runs.** `SlotsAddUp`, `AtMostMaxSlots` and `NobodyAbandoned` hold for every number
of slots. The free slots are counted against the set of workers that hold one
(`SlotInv`; the assumption that `Workers` is finite is for its cardinality), and each step
of a worker leaves that set alone, adds the worker or removes it. `CompletedRunsComplete` and
`FinishedWorkStays` assume one slot, the default (`PROVENANCE_MAX_BENCHMARK_RUNS`,
`README.md:879`): a run can be queued twice by racing retries, and the semaphore is
what makes the manifest the file of one worker. `OneSlotInv` says of the worker that
holds the slot how row, manifest and saved work are related at each of its statements,
and of all other runs how row and file agree (`RowFileInv`, `SavedInv`). With more slots
two workers can write the manifest of one run; that is the hazard at `benchmarks.py:374`.

**Cache.** `CacheTypeCorrect`, `BoundedAlways`, `RightArtifactAlways`, `ConservedAlways`,
`StoredStaysAlways`, from `CacheInv`, their conjunction with `Loaded` (no instance
number in use is one still to be given out). `StoreCases` shows that under the bound a
store evicts nothing or exactly the oldest entry, `MoveToEndFacts` what a hit
does to the order.

**Public quota.** `QuotasHold`, `SignInResetsNothing` and `TypeCorrect`. The bound on the counts is
not inductive by itself: between the count and the insert of `try_consume_public_use` a request
has decided that there is room, and other processes go on. `RoomOk` says that the
room it found is still there until its insert, and the locks are why: `LockOk` gives each
process's instance lock to one request and the scope's advisory lock to one process, so
nobody else inserts for the scope in between; an insert that raises loses the advisory lock and its room with it. A claim at sign-in moves a visitor's rows to
a user meanwhile; it only takes rows from the visitor, and those it gives the user are
not of the user's making, which is why `QuotaBounded` speaks of the rows a user has *made*. The limit is that of the best plan the
user has had (`BestLimit`), so nothing is assumed of how the two limits compare.

**Billing: the ledger.** `EventsAppliedOnce`: for any number of handlers, events, redeliveries, failures and
lost answers, `AppliedOnce`. The invariant `LedgerInv` adds to it `OneAttempt` (an event being
applied is in the ledger, is not applied yet, and is in one handler's hands; what has been
applied is in the ledger, answered or not), which is what makes `RecordEvent`'s look at the ledger enough,
`EventsAgree` (the history, the ledger and the provider speak of the same events) and the
shapes of the provider's data and of the handlers' records, which give a new event its
number. A step of a request touches no event (`RequestSteps`); a change at the provider, a
delivery and an application have a lemma each.

**Billing: the rows.** `RowsNameTheirOwner`, `ProIsPaidFor` and `RowsFollow`. The row a lookup finds
is defined by the largest index of a set, so the lemmas about lookup and upsert come
first: a nonempty bounded set of numbers has a maximum (from the library's well-founded order
on the naturals), what `upsert_subscription` returns has one row per subscription, and the
other rows are those it had. `RowInv` then says that every row, and every record in a
handler's or a request's hands, is one the provider could have given (`Genuine`), that an
event carries its subscription's owner (`EventsInv`), and, for `RowsFollow`, that the last
event of an undisturbed subscription is in its row or still to be delivered (`DeliveryInv`). Nothing
is assumed of who pays as which customer: a row, and the user a handler has looked up
for one, is that of the subscription's owner or of a user with a paid subscription of the same
customer (`NamesPayer`), because a row gets to know its customer only from what the provider tells of a paid
subscription.

**Repositories.** `RepositoriesAgree`, `AnswersAreDurable` and `OneRowPerUser`, for any keys and any
number of calls and failures. One lemma per family of tables (`AnalysisMethods`, `KeyMethods`, ...)
shows that the two texts of a method are equal on equal tables and end their
transactions. Three methods are not equal texts: a refused `try_consume_public_use` and a
`set_user_plan` that finds no row are rolled back by Postgres only, and SQLite updates the rows of a
user where Postgres updates the one it has read. These agree because the first two have
written nothing and because a user has one row, which `Tidy` keeps: a row is inserted only when
none was found, an update keeps the identity. `PairInv` adds to the two properties that the
connections of a faultless run are equal and usable. `RepositoryAssumption` says that
`None` is not itself a user's row.

**Results on disk.** `CompletedReported`. The invariant `FileInv` follows the lines of a run: its worker has
all of them until the file is open, from then on they are in the file, which nobody else
writes, under the run's id once it was stamped, and only a stamping that fails or is killed loses them; a manifest
that says completed is what a retry trusts, so it is part of the invariant. That there is
a line for every transformation and length (`ResultsComplete`), whatever the verdicts, is a fact about the
flattening of samples and records and the sorting of lines. `FlattenSeq` is recursive; what
it returns is proved by taking the set of indices for which a fact holds and showing that
it is all of them (`AllIndices`, from the well-founded order of the naturals), which needs no theorem with
an operator as a parameter. `ReportsAssumption` says what the validation of a specification makes sure
of (`orchestration.py:239` to 284, `benchmarks.py:198` to 220): positive samples, lengths that are numbers, known names.

**Rates.** `StoredRates` and `PairedRates`. A line is made of the records of one transformation and length; what
it says is a fact about two subsets of a finite set, the samples detected before and those
detected after (`PairCounts`), and `BuiltLineIsPaired` reads it off the code. Reports have only the sums.
The library's sum is a choice of a recursive function on sets, as the loops above:
`SumOfParts` proves that a sum of sizes of disjoint sets is the size of their union, hence that a
sum of natural numbers grows with each of them (`SumGrows`), so that counts ordered in every line are ordered
in every group: no rate of a report leaves 0..n, and the clamped one bounds the paired one (`GroupRates`). The
matrix drops the configuration from its key and shows one of the aggregates all the same (`MatrixShows`).
The invariant `RatesInv` says where such lines are: in the hands of command and worker, in
the files, whole or cut off by a kill, stamped or not, and in whatever a reader has joined.

The report printed with an experiment is made of records, not of lines: it finds each sample's baseline
again, by its seed and length (`PrintedCounts`), and `StoredCounts` adds the lines of all
groups up to the same two numbers. With `identity` among the names, as by default, the printed rate is that of the
stored lines, and the ratio printed for a transformation, its rate over that of identity, is at least
the paired rate of its lines (`RatioBoundsPaired`) and may exceed one. No profile has
`identity`: then both are 0 beside stored lines that have it right. `PairedRates` states both
cases (`PrintedFollowsStored`); what the documents let expect of a profile is `PrintedIsPaired`, which
`RobustnessReports_profile` refutes. `StatisticsAssumption` says that an exception is not a rate.

**Counts.** `SamplesCountAsAsked` and `AnswersAddUp`. Nothing is assumed of the lists or of the configurations: a
specification asks for its samples of a length under a transformation once for every time its lists name
them (`Asked`; `--lengths 50,50` is accepted), command and run may name one configuration, and then a report has the
samples of both. The invariant `OnceInv` says that a file, and whoever is about to write it, has the lines of
its own specification, one of a key, with no more samples than that asks for (`Listed`), torn and stamped as it may
be, and that a reader takes the lines of each file at most once (`ReadsOnce`); what it joins is then at most the sum
of the two (`SamplesAsked`). The samples of a line are counted by the places of its records: sample first, transformation
within it (`RecordPlaces`), so a key selects at most one for each sample and place of the name. The
seeds of scored samples are a stride apart per length; that they tell samples apart needs at most as many
samples as the stride, which `SeedsAreApart` therefore has as a premise (the command does not check it), and a
length that is not listed again. `SumOverKeys` adds a sum up key by key, over the partition of the
places by whatever a line is grouped by; so each of the four groupings of a comparison (`ViewOf`) has
exactly the samples and detections of its rows, in every answer a reader makes (`AnswersAddUp`, from `RatesInv`).
`ReportsAssumption` says that samples and the stride are numbers and lengths integers, as the command parses them.

**Detectors.** `TextIsTokens`, `KgwCountsText`, `MarkReadsBack`, `ChoiceIsScored`,
`RepeatsLeftOut` and `RepeatsCountOnce`, for every vocabulary, configuration, oracle, assignment of logits
and length of the text. The scorers are loops, so folds here, and `FoldLeft` is defined by a choice of a
recursive function on sets of positions. `FoldExists` shows that there is one when every round
takes states of the loop to states of the loop, and `LoopStates` that whatever was chosen goes through those
states; both are inductions over the number of rounds, by the set of rounds after which
a fact holds (`AllSteps`). Each loop then has its own invariant: `ScoreCounts` says which positions
the KGW scorer has scored, ignored and masked after k rounds, `MaskTells` that SynthID's history holds
the hashes of the last contexts and no others. Both hold for
any permutations, so for either scorer class.

The behaviour of the generators is the other half. `ChosenByWindow` and `MarkedByWindow` say of each token
after the prompt what its choice was by the window before it; both are inductive because a token that is appended
changes no window before it (`WindowsKept`), and `BiasWins` is why the bias decides: the highest
logit exists (`HighestFirst`), a green list has a token (`SomeGreen`), and a delta above the spread lifts that
token over every red one. `DetectionAssumption` says what makes `SomeGreen` true: the code raises on
an empty green list (`reference/kgw.py:160`). `RepeatsCountOnce` assumes `NoCollisions` (the 64-bit hash tells
contexts apart, which nothing guarantees) and `NonNegativeWeights` (`validate` does not look at the sign of
configured weights); `RepeatsLeftOut` is what holds without either. On the instance of the run both are true.

Only model-checked: liveness and ENABLED, which are outside the prover's reach (and so
`JobsSettle`, `RunsSettle`, the two `CancelHonoured` and `NoStall`), the texts, and
the statistics of scored samples (the `StatisticsAddUp` of `TablesAddUp`; its other half is `AnswersAddUp`): the
transformations of texts and the statistics select from sequences (`SelectSeq`), of which the prover
has no definition, and the ROC curve is a recursion over sorted scores.

## 5. Plan

Done, in this order: `JobLifecycle` with its abstract specifications and proofs,
`ModelCache` with proofs, `BenchmarkRuns`, `PublicQuota`, `Billing`, the pair of
repositories, detectors and generators, texts, statistics and reports; then the proofs of
the safety and action properties of jobs, benchmark runs, quota, billing, the repositories,
the files of a run, the rates and counts of lines and reports, and detectors and generators.

Left: `DailyLimits` (limits and rate limiter that check, work and record), `ExecutorPool` (creation of
the shared pool), the client's polling composed with `JobLedger`.

Proofs still to write: what two slots leave true of benchmark runs.

## 6. Not modelled, and why

Daily limits and the rate limiter are approximate under concurrency by design, and left for
the plan. Floating-point means, deviations and p-values are data: no decision is made from
them that is not made from an exact fraction here. The Hugging Face tokenizers and models are
external: any tokens, any logits. The engine and service dispatch to
detectors in one call that returns or raises. The dashboard, scripts, the serverless entry point and
the rendering of reports keep no state of their own. The client's polling is in the plan.
Authentication checks answer before a handler writes. Model loading, inference and experiments
are one step that returns or raises. A
rolling deployment, in which a starting process recovers rows that the old process
still works on, is not modelled: the image runs one process.
