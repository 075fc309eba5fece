# TLA+ verification of Evalyx

Evalyx evaluates AI applications: an organization registers applications and
datasets, submits an evaluation run through an HTTP API, a Celery worker
executes every test case of a pinned dataset version, guardrails judge the
answers, a scoring pass classifies each case, and completed runs are compared
for regressions. This directory holds TLA+ models of that code (`src/` is the
repository), the TLC configurations that check them on small instances, and the
theorems about them that the TLA+ proof system checks for every value of the
constants. `PROJECT.json` maps every definition to the lines it models and
lists the runs, the mutants, the hazards, the findings and the theorems.

All paths below are relative to `src/src/evalyx/` unless they start with `src/`.

    tlasany EvalRun.tla                                      # parse
    tlc -config EvalRunSequential.cfg MCEvalRun.tla          # model-check
    tlapm EvalRunProofs.tla                                  # prove

## 1. The system: components, state, operations

| component | code | state it keeps | operations | modelled in |
|---|---|---|---|---|
| Evaluation submission | `api/services.py`, `api/routers/evaluations.py` | a pending `EvaluationRun` | check references, admit, commit, audit, publish, mark failed when publishing raises | `EvalRun`, `QuotaAdmission`, `ApiServer` |
| Background worker | `worker/tasks.py`, `worker/execution.py`, `worker/celery_app.py` | the task message, its retry count | eligibility, race guard, retry, failure marking, time limits, redelivery | `EvalRun` |
| Evaluation runner | `evaluation/runner.py`, `db/repositories/evaluation.py` | run status, case results | begin, execute the pending cases one by one, complete, fail, cancel | `EvalRun`; the call of a case in `OutboundCalls` |
| Guardrail harness | `guardrails/harness.py`, `guardrails/policy.py` | guardrail rows | judge every executed case, skip what is judged | `EvalRun`, `OutboundCalls` |
| Individual guardrails | `guardrails/pii.py`, `guardrails/judge.py`, ... | none | regular expressions, LLM judges | `OutboundCalls`: when one raises, asks, or errs; which verdict it reaches is open |
| Scoring | `evaluation/scoring.py`, `evaluation/pipeline.py` | case result status | `apply_policy`, scoring pass, rescore of a completed run | `ScoringPolicy`, `EvalRun` |
| Quotas | `quotas/service.py`, `db/models/governance.py` | nothing of its own: it counts rows | admit (five kinds), deny, effective limits, overrides | `QuotaAdmission` |
| Regression comparison | `evaluation/regression/*`, `db/repositories/regression.py` | one artifact per (baseline, current, policy) | validate, read both sides, compare, look up, store | `Comparison`, `Regression` |
| Registries | `api/routers/applications.py`, `datasets.py`, their repositories | applications, versions, secrets, datasets, cases | create, update, version, append, rotate secret, delete | `ApiServer`; admission in `QuotaAdmission`, credentials in `KeyRotation` |
| Application target and connection test | `application/*`, `api/routers/applications.py` | a connection pool | resolve, check addresses, invoke with redirect and size limits, retry, classify | `OutboundCalls`; the route in `ApiServer` |
| LLM providers | `llm/*` | none | bounded retry with provider hints, payload checks | `OutboundCalls` |
| API rate limiting | `api/ratelimit.py` | Redis counters | INCR, EXPIRE, decide, degrade | `ApiServer` |
| Tenancy | `db/tenancy.py`, `api/auth.py` | the organization row | find or create on first use | `ApiServer` |
| API shell | `api/app.py`, `api/errors.py`, `api/dependencies.py`, `db/session.py` | the connection pool | sessions, error answers | `ApiServer` |
| Audit trail | `security/audit.py` | audit rows | record (own transaction), prune | `QuotaAdmission`, `ApiServer`, in part |
| Encryption and key rotation | `core/encryption.py`, `core/key_rotation.py` | envelopes in rows | encrypt, decrypt with old keys, paged re-encryption | `KeyRotation` |
| Command line | `cli/main.py`, `cli/client.py`, `cli/errors.py` | none | commands, retries, polling, exit codes | `CliSession` |
| Failure classification | `evaluation/failures.py` | none | category and retryability of an exception | `OutboundCalls` |
| Terminal UI, configuration, logging, metrics, migrations | | none that protocols depend on | rendering and plumbing | not modelled |

**How they interact.** PostgreSQL is the only state the API and the workers
share, and every repository call commits on its own; Redis carries the task
messages and the rate counters. A request passes the limiter, finds its tenant
and works in a session on the connection pool of its process; the API calls
quotas inside its submission transaction and the audit trail after it. The worker
calls runner, harness and scoring one after the other; the runner calls the
application, the judges call the provider. Regression reads what all of them
wrote. The command line is a client of the API like any other.

**What is hard here.** Redelivered and duplicated messages; crashes between two
commits; exceptions that three nested handlers compete for (runner, race guard,
task body); read-then-write sequences across transactions (`decide_action`,
`mark_run_failed_if_active`, the pending list of the runner, `score_run`, every
check of a handler); counters that are counts of rows; a lock that is released
by commits in five different callers; a run that is completed before it is
scored, and readers who only look at "completed"; handlers that hold a
connection while they wait for another one or for the outside; what a retry
loop carries over from one attempt to the next; a client that cannot tell a
lost request from a lost answer. Every such place is listed under "hazards" in
`PROJECT.json`, at its line, with the properties that cover it.

## 2. Modules

    ScoringPolicy ---- EvalRun --INSTANCE--> RunLifecycle
        |                 |---- MCEvalRun
        |                 '---- EvalRunProofs --- EvalRunOnceProofs
        '-- Comparison --- Regression --INSTANCE--> RunLifecycle
                                |---- MCRegression
                                '---- RegressionProofs
    QuotaAdmission --INSTANCE--> QuotaLedger
        |---- MCQuotaAdmission
        '---- QuotaAdmissionProofs
    KeyRotation ---- KeyRotationProofs
    OutboundCalls ---- MCOutboundCalls
        '---- OutboundCallsProofs
    ApiServer ---- MCApiServer
        '---- ApiServerProofs
    CliSession ---- CliSessionProofs

`EvalRun` is the life of a run; the other modules take one of its surroundings
each and reduce the run to what they need of it: its lifecycle (`Regression`,
`CliSession`), its row (`QuotaAdmission`, `ApiServer`), one undisturbed execution
of it (`OutboundCalls`).

### EvalRun: one run from submission to score

Runs share no row, so one run is the whole story. The database is `status`,
`row` (case results) and `verdict` (guardrail rows); a task message and the task
executing it is a *delivery* with a program counter `pc` and the locals of the
frames it is in (`todo`, `list`, `cur`, `seen`). One step is one transaction of
the code, together with the Python that leads to it.

| code | actions |
|---|---|
| `EvaluationService.submit`, `_mark_failed` | `CreateRun`, `Enqueue`, `EnqueueRaises`, `ApiMarkFailed`; faults `ApiDies`, `ApiDbError` |
| `run_evaluation`, `execute_evaluation`, `decide_action` | `Start`, `LoadStatus`, `Prepare`, `RaceGuard` |
| `EvaluationRunner.execute_run` | `LoadContext`, `LoadCases`, `BeginRun`, `ExecuteCase`, `CompleteRun`, `RunnerMarks` (the FAILED and CANCELLED handlers) |
| `GuardrailHarness.evaluate_run` | `ListForHarness`, `VisitCase`, `Judge` |
| `ScoringEngine.score_run` | `ListForScoring`, `ReadVerdicts`, `WriteScore`, `FinishScoring` |
| `_execute_with_correlation`, `_best_effort_mark_failed`, `mark_run_failed_if_active` | `RetryOrGiveUp`, `MarkRead`, `MarkWrite` |
| Celery and Redis (`task_acks_late`, `task_reject_on_worker_lost`, visibility timeout) | `WorkerLost`, `HardLimit`, `Redeliver` |
| exceptions | `DbError`, `PermanentError`, `SoftLimit` |

A result is named by its case and the delivery that inserted it, because the
head schema has no unique key on (run, test case). `FaultKinds` selects what the
environment may do and `MaxFaults` bounds it. Two faults deserve their names:
`twin` hands out a message whose first copy is still being executed (the
visibility timeout passes), `late` hands it out again after the first execution
ended (an acknowledgement was lost).

`RunLifecycle` is the abstract specification: what a reader of a run is
promised, without workers, messages or retries. `EvalRun!ImplementsLifecycle`
maps `outcome[c]` to the one result of case `c`.

### QuotaAdmission: who may still insert

Requests of one organization, of the five kinds quotas know. Each has a
transaction with a start time (`began`, PostgreSQL's `now()`, which also stamps
the rows) and the step it is at; `holder` is the owner of the row lock of
`SELECT ... FOR UPDATE`. `Used(k)` and `Active` are the code's counting queries,
over rows and the clock, and there is no other counter. `Release` (a terminal
run, a deleted application), `SetOverrides` and `Tick` happen without the lock,
as in the code. `Fail` is any exception or the death of the API process at any
step of a request.

`QuotaLedger` is the abstract specification: a set of entries and a clock, no
lock, no transaction, no failure. Its `Admit` counts and adds an entry in one
step; entries end and time passes, and nothing else adds to a count.
`QuotaAdmission!ImplementsLedger` maps a request with a row to an entry with its
kind, its stamp (`began`), the limits it read (`lim`) and the state of the row.
`QuotasHold` is what this is worth to a reader of the database in any state, when
limits change and rows end under way: of rows that are counted together, at
least one was admitted under a limit with room for all of them.

### Comparison and Regression: deciding and storing

`Comparison` is `comparison.py` without its wording: metrics over sets of cases,
rounding to fixed decimals (integers in units of 1/`Scale` percent, the
difference of two rounded rates is then exact), strict thresholds, pairing by
identity, transitions, the decision. `Regression` puts it into `compare_runs`:
check, four reading statements, decide, look up, store, by any number of
concurrent requests, while a worker executes and scores one of the runs. The
worker is reduced to what `RunLifecycle` promises plus the order of the scoring
pass (all verdicts before the first classification): `RunsKeepLifecycle` says of
every run that its steps are steps of that promise, so the two modules, of which
`EvalRun` has the whole worker, agree on what a run may do. A guardrail row is
added once and never rewritten, as `EvalRun` shows.

### KeyRotation: every credential under the new key, none lost

An envelope is its format version, its key and the secret inside. A pass of
`reencrypt_application_secrets` has the locals of the code (`offset`, the page and
the envelopes it was read with, whether the next row is loaded); `ReadPage`,
`Skip`, `Report`, `Load`, `Write` and `Finish` are the statements of its loop, and
`Write` is one committed UPDATE. The API's three writers of applications
interleave with it, passes die (`Crash`) and are started again, and the operator
removes the old key after a dry run that found nothing (`DropOldKey`, the
procedure of `scripts/reencrypt_credentials.py`). Any application may be deleted at
any time, and pages are counted off by offset, so a deletion can move a row into
the pages already read. `latest` records the secret last set for each application,
which no action reads but `SetSecret`, to number the next one; `missed` records
the rows that slipped past the last pass in this way (`Slipping`), and no action
depends on it. The new key is deployed to every process before the first pass, as the
procedure demands, and passes do not overlap.

### OutboundCalls: what one execution asks of the outside

The coroutine of one undisturbed execution: it resolves its target, sends every
case to it, then lets the guardrails look at every answer. A *call* is a case or
a judge's question; `attempt`, `hop`, `method` and `exc` are the locals of the
retry loops, `open` the connections of the http target's pool. The other side
answers anything: any status, a timeout, no connection, a redirect, a payload
that does not parse, too much of it, nothing at all.

| code | actions |
|---|---|
| `resolve_run_target`, `build_http_target`, `create_provider` | `Resolve`, with one reason per refusal (`Refusals`) |
| the runner's loop, `GuardrailHarness.evaluate_run`, the guardrails | `NextCase`, `Inspect`, `AskJudge`, `Close` |
| `HTTPApplicationTarget.invoke`, `_attempt`, `_send`, `_read_and_extract` | `CheckDestination`, `SendFails`, `SendRefused`, `SendAnswered`, `Redirect`, `Read`, `Retry` |
| `HttpApplicationTarget` (the reference application) | `Post`, `Retry` |
| `send_with_retries`, `OpenRouterProvider`, `OllamaProvider` | `Ask` (`Deferred`, `BadDelay`, `Interpret`, `Parse`), `Retry` |
| `classify_failure`, `_application_category`, `classify_provider_error` | `Classify`, `LegacyCategory`, `ProviderCategory` |
| `_execute_case`, `_execute_one`, `parse_judge_output` | `RecordCase`, `RecordVerdict`, `JudgeVerdicts` |

An exception carries what the handlers up the stack look at: its class, the
category an http target gives it, the facts its message is later searched for,
and the number of attempts. `last`, `degraded`, `heard` and `lost` are history:
what really happened, against which the records are compared. No action reads
them.

### ApiServer: concurrent requests in one process

A request is at a `step`; between two steps is an `await`. `held` is the connection
pool: a session takes a connection with its first statement and gives it back
with its commit (`Acquire`, `PoolTimeout`, `DbFails`), and a submission has a
second session open inside its first. Rows carry the request that made them, so
a row that was deleted and created again is another row. `reference` says of which
of the two types the applications are: one of type `mlgpt` is submitted and
tested without a version.

| code | actions |
|---|---|
| `RateLimitMiddleware`, `RateLimiter.allowed`, `RedisRateLimitBackend.check_and_increment` | `Arrive`, `Incr`, `Expire`, `Degraded`, `Decide`; `KeyExpires`, `Tick` |
| `require_organization` in `db/tenancy.py` | `FindTenant`, `Provision` |
| routers and services up to the first write | `Look` (`Missing`, `NoSuchVersion`, `LabelTaken`, `TooManyCases`, `BadConnection`) |
| the repositories and the constraints of the schema | `Write`, `Refuse`, `Conflict` |
| `session.refresh` and the audit row | `Refresh` |
| `EvaluationService.submit` after its commit, `_mark_failed` | `Publish`, `MarkFailed` |
| the connection test of an application | `Look`, `BuildTarget`, `CallOut`, `RecordOutcome` |

### CliSession: one invocation of the command line

A command is a script of API requests; `Scripts` holds those of every command of
`cli/main.py`, `quickstart` and `eval run --wait` included. The
client sends, is answered, refused or left without an answer, retries a GET and
gives up on a write; the API may have done its work in either case (`carried`
counts). A request whose path holds an argument as it was typed (`Named`) may be
answered with a redirect without a body, for which the client returns the same
`None` as for a 204 (`Redirected`, `blank`). While a command polls, the worker moves the run on, and the API reads
the run and its counts in two statements (`Serve`, `Count`).

## 3. What the runs check

| run | states | shows |
|---|---|---|
| `EvalRunSequential` | 114,011 | every combination of three faults out of eight kinds, deliveries following one another: one result per case, classified from its complete verdicts, terminal status final, completed means complete, a run left active has a cause that can be named, and refinement of `RunLifecycle` |
| `EvalRunTwins` | 1,025,413 | every combination of two faults of all ten kinds, two workers on one run included: what still holds then |
| `EvalRunLive` | 46,409 | liveness: a created run reaches a terminal status for good and a completed run ends scored |
| `QuotaAdmission` | 350,640 | two requests of any kinds over two days: counted rows stay within the limits they were admitted under, admission is as good as one step (refinement of `QuotaLedger`), nobody waits for ever, capacity comes back |
| `Regression` | 636,528 | two comparisons against a run that is executed and scored meanwhile: decisions, drawn from whatever was read at whatever moments, have a direction and a cause, come from complete runs, unmatched cases do not count, a report from scored runs stays true, an artifact is final, and the worker they meet keeps the promise of `RunLifecycle` |
| `KeyRotation` | 728,670 | passes that die and start again while requests create, delete and replace credentials: the only credentials lost with the old key are those of rows that a deletion made slip past the dry run, no waiting secret is altered, and in the end everything else is under the new key |
| `OutboundCalls` | 161,085 | two cases sent to any of the three targets and judged, with every outcome at every attempt: failures are blamed on the last attempt, only transient ones are retried and from the configured request, no prompt and no verdict is lost or invented on the way, connections are accounted for, and the execution ends |
| `ApiServer` | 985,659 | two requests of every pair of kinds that meet, for an application of either type, with a pool, a Redis and a database that fail: no window admits more than its limit, answers tell what was committed, versions and runs survive concurrent writers, every request is answered |
| `CliSession` | 57,095 | every command against an API that fails before or after its work, or redirects: writes are sent once and in order, exit codes are earned but for the redirects a command overlooks, the command ends |

Each property of these runs has a mutant in `PROJECT.json`: a variant of one
definition, kept beside it in its module, that a plausible mistake in that code
would produce, and under which the property fails.

Three more runs show disagreements between the code and what its own
documentation says of it:

| run | what the documentation says | what the code does |
|---|---|---|
| `EvalRunRetryAfterFailure` | `worker/tasks.py`: retryable infrastructure failure, bounded retry | the runner marks the run failed first; the retry finds a failed run and skips it |
| `KeyRotationRace` | `core/key_rotation.py`: rows already on the current key are never touched | a credential replaced after its page was read is set back to the old one |
| `CliExitCode` | `cli/errors.py`: 0 success, 7 completed with quality failures, 8 execution errors | `eval run --wait` exits 0 for a run that failed, and for one polled between completion and scoring whose cases then fail |

### Divergences the models contain

These are behaviours of the code that its text does not lead one to expect. The
models have them, the properties are stated so as to say what holds in spite of
them, and each can be reproduced or read off at the definition named.

* *Two results for a case.* `evaluation/runner.py` relies on the database to
  enforce one result per (run, test case); the multi-tenancy migration dropped
  that constraint. With the fault kind `twin` added to `EvalRunSequential.cfg`,
  `OneResultPerCase` fails.
* *Retries exhausted outside the case loop.* The run stays pending or running
  behind a dead job, against `worker/tasks.py`. `StrandedHasCause` names this
  case: its last disjunct is a task that ended in an exception. The soft time
  limit ends a run *cancelled*, not failed, when it strikes while the event loop
  waits (`SoftLimit`, `RunnerMarks`).
* *Midnight.* A run is stamped with the start of its transaction and counted
  against the day after the wait for the lock (`began` and `Day` of
  `QuotaAdmission`): a day's budget can be exceeded by the requests that wait
  across midnight, although `api/services.py` calls the check race-safe.
* *A regression artifact and its report.* `regression/service.py` returns a fresh
  report under the id of the stored one. The two differ when the first comparison
  fell between completion and scoring (`Lookup` of `Regression`). No list of a
  report holds the transition `FAILURE_AFTER_ERROR` (`ReportedTransitions`).
* *Dry run of the key rotation.* `core/key_rotation.py` removes the old key once a dry
  run reports zero rows. An application deleted in front of the offset during that
  dry run moves the next row out of sight of its pages; if that row is still
  under the old key, its credential becomes unreadable with the removal.
  `OnlyMissedAreLost` does not claim that this cannot happen: it says that such
  rows, those in `missed`, are the only ones that are lost, and `Converges` that
  all others end under the new key.
* *Redirects taken for success.* `cli/client.py` raises for a status from 400 on, does
  not follow redirects, and returns `None` for any other answer without a body.
  FastAPI answers a path with a slash too many with 307 and no body, so
  `app delete ""` and `app delete <id>/` say "Deleted", `app secret` says
  "Credential updated", and both exit 0 with nothing carried out; with `--json` other
  commands print `null` and exit 0. `ExitIsEarned` holds but for these, which
  `Overlooked` names; every other command fails on the missing body.
* *Leaked responses.* `_send` of the http target raises on an error status without
  closing the streamed response (`SendRefused`). Each one keeps a connection
  until the run's target is closed; once the pool is used up, every further case
  is recorded as a timeout although the application was never asked
  (`lost`, `SendFails`, "no connection" in `Explains`).
* *Prompts not sent.* A connection with method GET, or a template that writes
  `{{ input }}` with blanks, is accepted and never delivers the prompt; neither does
  a POST redirected with 301, 302 or 303. `PromptDelivered` names the three.
* *Classification.* An answer of the reference application that is empty or does
  not parse is classified as a connection error (`LegacyCategory` searches a message
  without status); a 503 is retried by the transport, then recorded as
  not retryable; `QUOTA_EXHAUSTED` is reached by no exception the providers
  raise; a `Retry-After` of `nan` escapes the retry loop (`BadDelay`).
* *A blank answer of the provider* is a case executed, whose guardrails all err.
* *First use.* Of the first two requests of an installation one may be answered
  409 (`Provision`), where `db/tenancy.py` calls provisioning idempotent.
* *5xx after the commit.* The audit row and the refresh of a row come after the
  write's commit: when they fail, the client is told 500 or 503 and the row
  stays (`DbFails` and `Gone` in step "refresh"). `AnswerTellsTheTruth` therefore
  says nothing of 5xx answers. The same holds of a publish that raises although
  the broker took the message.
* *Limits by count.* A case appended between the count of a submission and its
  commit takes the run beyond `max_cases_per_evaluation`. A request whose `INCR`
  arrives after its window has ended may find an expired key (`WindowLimit` counts
  what passes during the window).
* *Two connections per submission.* The request's session and the service's are held
  together: as many submissions as the pool has connections wait for one
  another until the pool timeout answers 503. The connection test of an
  http application keeps its connection while the application is called.
* *Exit codes.* `cli/errors.py` says they are documented in the README; the README
  does not mention them. With `--json` neither 7 nor 8 is used. The argument
  errors of `app secret` and `dataset add-case` are raised outside the handler
  that turns them into 2 (both ends are among those of `UsageFails` and
  `Interrupt`). `app_update` of `cli/main.py` is registered as no command.

### Bounds

* `NumCases` 2, `NumGuardrails` 2 with one critical: enough for "some cases
  done, some not", for a partly judged case, and for a warning beside a critical
  failure. With one case, as in `EvalRunTwins`, two workers still race for the
  same case.
* Two deliveries and `MaxRetries` 1 or 2: one original and one copy, each of
  which may be lost, retried and requeued.
* `MaxFaults` 2 or 3: a fault, a fault in the handler of the fault, and one in
  what recovers from that.
* Quotas: two requests, limits 1 and 2, horizon 1, days of length 2 and a clock
  to 4: a request on each side of midnight, a run that goes stale, an override
  that lowers a limit under an admitted request. `LastStart` and `MaxTime` bound
  the clock and nothing else.
* Regression: two cases, one guardrail, one or two latencies, zero tolerance and
  20 % latency: every pair of scored outcomes, equal and unequal denominators, a
  case on one side only. Two decimals instead of six: with at most two cases no
  two distinct rates share a rounding.
* Key rotation: two applications with any stored envelopes (both formats, both
  keys, a lost key, none), a third created on the way, pages of one row, two
  secrets each, one crash. Several pages, a deletion between two of them that moves
  a row into those already read, and a creation behind the last one all happen.
* Outbound calls: two cases, one guardrail of each sort, two attempts of every
  transport, two redirects, a pool of two and one status for each way a status is
  treated. Two lost responses empty the pool within one case, so the second
  case meets an empty one; a redirect may change the method, change it again, or
  be one too many.
* API: two requests, taken from the pairs of kinds that share a row or meet in the
  pool (`MCApiServer`), a limit of one, a pool of two, a case limit of zero and
  two windows (`MaxWindow`). Two submissions fill the pool and wait for each other;
  a version, an application or the workspace is made twice; a key expires. The
  theorems of section 4 carry the invariants to any number of requests.
* Command line: two retries of a GET, three polls, up to two sample questions: a
  retry that succeeds, one that does not, and a run that changes between polls.

### Fairness

`EvalRunLive` assumes that the API finishes its request (weak fairness of its
steps but publishing errors) and that each delivery is executed (weak fairness
of `TaskStep`): Celery's prefetch of one message hands out every message while a
worker is alive, and the task body runs without other blocking than its
transactions. No fault is ever fair. Its fault kinds are those the code recovers
from, within the retry budget (`MaxRetries` equals `MaxFaults`).
`QuotaAdmission` assumes the clock and weak fairness of each request's own
steps; waiting for a row lock is weakly fair since every request asks once.
Ending a run is never fair: `CapacityReturns` holds by the staleness horizon.
`KeyRotation` assumes an operator who keeps running both kinds of pass, lets them
go on and removes the key when the procedure allows it, as the workflow says
("an interrupted run ... can simply be re-run"); passes may die, but not for ever.
`OutboundCalls` is one coroutine whose every wait has a timeout (the clients',
the pool's, the DNS lookup's) and whose every sleep is bounded: weak fairness of
its next step, with the outcome left open. `ApiServer` assumes that the event
loop runs each request's own steps; no request has to arrive, nothing has to
fail, no key has to expire, and the pool timeout is one of the steps. `CliSession`
assumes that the process runs and that each request ends, by an answer or by the
client's timeout; the API owes it no answer and the worker no progress.

## 4. What is proved

`tlapm` checks every theorem for any number of cases, guardrails, deliveries,
requests, connections, attempts, limits and faults. The only assumptions are the
named `ASSUME`s of the modules and the hypotheses of the theorems of
`EvalRunOnceProofs`: `NoTwin` (no message is delivered while it is being
executed), `NoReply` (a publish that raises has queued nothing) and, for
`CompletedIsScoredHolds` alone, `Recoverable` (the faults are failed
transactions, lost workers, late redeliveries and a failing API or broker, no
more of them than retries, and the policy enables a guardrail). All are needed:
without `NoTwin` two workers insert twice, without `NoReply` the API overwrites
the status of a run that a worker may have finished, and a hard limit or one
failure too many ends a task in the middle of its scoring.

| theorem | property | argument |
|---|---|---|
| `TypeCorrect` (four modules), `QuotaTypeCorrect`, `RegressionTypeCorrect` | types | inductive as they stand, one step per action; in `OutboundCalls` with `CallInv`: a call under way has its case, and only the http target redirects and streams |
| `FailedHasCauseHolds` | a failed case has a recorded critical failure | what a delivery has read of a case's verdicts stays recorded: rows are inserted once (`VerdictsPersist`) |
| `CompletedHasAllResultsHolds` | a completed run has every result | inside the loop, a case is either still in `todo` or has a result, whoever inserted it; results persist |
| `InsertsAreFreshHolds` | nobody inserts twice for a case | `todo` only shrinks after it was read, by the case just inserted |
| `OneResultPerCaseHolds` | one result per case (`NoTwin`) | at most one delivery is live (`Solo`), so nobody inserts between the read of the pending cases and the insert |
| `TerminalIsFinalHolds` | terminal is final (`NoTwin`, `NoReply`) | `StatusKnown`: each step that may write the status knows which it finds, because the only live delivery, or the API, wrote it |
| `ScoreMatchesVerdictsHolds` | classification agrees with the complete verdicts (`NoTwin`) | `ScoringKnown`: what the harness has visited is completely judged, and what scoring lists was visited |
| `ImplementsLifecycleHolds` | `EvalRun` implements `RunLifecycle` (`NoTwin`, `NoReply`) | `Phase`: the run is running inside the loop and completed from the harness on; with `StatusKnown`, `TodoUnrecorded`, `LoopProgress` and `ScoringKnown` each write of the status or of a result is the promised step, and everything else is invisible. A case's outcome is well defined because it has one result |
| `StrandedHasCauseHolds` | a run left active has a cause (`NoTwin`, `NoReply`) | `Thrown`: a handler always has an exception; `Ended`: a task that ended without one left a run that has ended, and terminal is final |
| `CompletedIsScoredHolds` | a completed run at rest is scored (`Recoverable`) | `Budget`: the retries counted and the error being handled are faults that were injected, so no task runs out of retries; `Exact` and `Eager`: no other exception is raised; `ScoredSoFar`: what scoring has gone past is classified or has a guardrail error; `Finished`: who ended found the run ended or scored it |
| `LockHeldHolds` | a request counts exactly while it holds the lock | inductive with types |
| `NeverOvershootsHolds` | no insert overshoots the limit its request read | `Room`: while a request holds the lock, its checked counts leave room for one. Others cannot insert, and everything that happens without the lock (expiry, release, midnight, failures) only shrinks what is counted; `RowMatchesStep` says its own row is not counted yet. Cardinalities come from `FiniteSetTheorems` |
| `QuotasHoldHolds`, `NeverMoreThanEverAllowed` | rows counted together include one admitted with room for all; no count exceeds the greatest limit ever configured | inductive on top of `AdmissionInv` (the four invariants above): of the groups of rows counted after an insert, those with the new row are within its limit and the others were counted before; everything else only removes groups, and an admitted row keeps the limits it read (`AdmittedStays`) |
| `ImplementsLedgerHolds` | `QuotaAdmission` implements `QuotaLedger` | `Insert` is the admission, because `Room` holds when it happens; `Release`, `RecordOutcome` and a failed publish end an entry; `Tick` is the clock; everything else is invisible |
| `CompleteRunsOnlyHolds` | comparisons read complete runs | past validation both runs are completed and stay so; a completed run has a result for each case; results persist, so the later reads find them |
| `ScoredReportIsFinalHolds` | a report from scored runs stays true | `Faithful`: what was read of a result may since have been classified or gained verdicts, and nothing else; `SettledIsFinal`: a settled result that was read is the one that is there |
| `NeverBothWaysHolds` | no metric is worse in both orders | `ViolationMeans`: a violation is a strict difference of two integers in one direction, because thresholds are not negative; for the relative latency criterion, because what is no increase rounds to no increase (`RoundSign`). Averages are integers because the fold in them is a sum (`SumIsAdded`, `SumMonotone`) |
| `OnlyMatchedCasesDecideHolds` | cases of one side alone do not decide | `ViolationsDepend`: every set of cases, rate and sum behind a violation depends on the matched results only (`SumAgrees`) |
| `ViolationHasCauseHolds` | every violation is explained by a matched case | without such a case the part of a rate does not grow and the rest of its whole does not shrink, and shares and rounding are monotone (`ShareMonotone`, `RoundMonotone`); latencies are of the same cases and none is longer (`AverageMonotone`) |
| `RunsKeepLifecycleHolds` | the runs of `Regression` live as `RunLifecycle` promises | types suffice: each of the worker's steps changes the status of one run or the outcome of one case (`OneOutcome`), judging changes neither, and requests only read |
| `ArtifactIsFinalHolds` | an artifact is written once | `Create` is its only writer and the unique key guards it |
| `RotationTypeCorrect` | types | needs `LoadedRow`: the row a pass has loaded is the next one and still one to rewrite |
| `PlaintextPreservedHolds` | no waiting secret is altered | `Snapshot`: a row of the page still holds what was read of it, or a request has moved it to the current key |
| `OnlyMissedAreLostHolds` | only rows that slipped past the dry run are lost with the old key | `Scanned`: while a dry run has found nothing, every row still under the old key is behind its offset, on its page, or in `missed`. A row's position changes with deletions only, by one, so the only row that can pass the offset is the one right behind it (`Slipping`); creations come last and are under the new key |
| `ConnectionsAreAccounted` | every connection of the target's pool is in use or was left by an error status | inductive with types and `CallInv`: the target's steps are only reached by its own calls |
| `PromptIsDelivered` | recorded answers answer a request with the prompt | `Undegraded`: an attempt that was not turned into a GET is still the configured POST |
| `OnlyTransientIsRetried` | another attempt only after a transient failure, within the budget, from the configured request | `Waiting`: in the backoff, the last outcome is transient and an attempt is left; a retry resets hop and method |
| `NoPassIsSilent` | a judge's pass was given by the judge, about an output | `Recorded`: a case being judged has an output, which stays; a judge's pass is stored in the step that hears it |
| `TheLastAttemptIsBlamed` | the recorded failure is the last attempt's | every exception a step throws is explained by the outcome the same step sees; nothing but a new attempt changes either |
| `PoolIsAccounted` | the pool's bound, and no connection outlives its request | answering closes a request's sessions; `Acquire` is the only taker |
| `WindowIsLimited` | a window lets no more than its limit pass | `CounterInv`: the key of a window that lasts cannot expire, nobody passes in it who was not counted, and the one request between `INCR` and `EXPIRE` is counted and has not passed yet |
| `VersionIsKept` | a version is never replaced | by cases on the write; the constraint, not the check in front of it, decides |
| `RunsKeepIt`, `AnswersAreTrue` | runs keep their application; answers tell what was committed | `HandlerInv`: what a request has done by each step (`Local`), what its answer says (`Told`), rows are made once (`RowsOnce`), a deleted row stays deleted (`Deleted`), and a row with runs is not deleted |
| `WritesAreSafe` | no write twice, none before those in front of it | `Progress`: what is in front of the current request is carried out, what is behind it is not, and a write not before its answer is on its way; a script is requests whose poll comes last (`IsScript`, shown for every command and any number of sample questions). `Passed`: what was redirected instead of carried out holds an argument (`NamedCalls`), and only reads come after it |
| `ExitCodesAreEarned` | exit codes are earned | `Watched`: what a poll has read of a run that has ended is still true of it, because scoring only adds failed cases and cases in error. With `Progress` and `Passed`, what an exit of 0 leaves undone is a redirect the command overlooks |

The sums of `Comparison` are folds, and a fold is a recursive function, hence a
`CHOOSE`. The induction principles of the library take an operator as a
parameter, which the provers cannot instantiate, so the lemmas about sums argue
from a smallest counterexample instead: strict inclusion is well founded on the
subsets of a finite set, so a fact that fails for some set of cases fails for a
minimal one (`MinimalSubset`), and one step of the recursion refutes that. In
this way `AddsExists` shows that the function the fold chooses exists,
`AddsAgree` that it depends on nothing but the latencies, and `SumMonotone` that
its values are naturals and ordered as the latencies are.

Every invariant and every action property that a run checks is stated by a
theorem. Only model-checked are the liveness properties and everything about
fairness, which need `ENABLED`, and the findings, whose runs show a behaviour.

## 5. Abstractions and what is not modelled

* Prompts, answers, provider payloads, audit contents and reports' wording are
  left out; which verdict a guardrail's regular expressions or a judge reach is
  open.
* `EvalRun` fixes the cases of the run when it starts. `add_test_case` may append
  to a version that a run has already pinned; `ApiServer` has that interleaving.
* Publishing a retry and acknowledging the old message is one step
  (`RetryOrGiveUp`); a broker that does the one and not the other is covered by
  the faults `crash` and `late`.
* Each repository call is one transaction; statements inside one are atomic,
  except where `Regression` and `CliSession` separate them, because READ COMMITTED
  does.
* Quotas are enabled, and the case appends of a model are to one dataset
  version. Quotas of two organizations share nothing. In `ApiServer` a quota may
  be used up at any time; who is admitted is the subject of `QuotaAdmission`.
* `Regression` gives every case one identity. Across dataset versions the code
  pairs by name, and names are not unique in a version: of two results with one
  name only the last takes part. The listing of missing results, the
  configuration diff, and the read-only queries for stored reports are left out.
* `OutboundCalls` is one undisturbed execution; what is stored when it is cut off
  is in `EvalRun`. Which addresses are public, how long a delay is and how a
  response is decoded are data: any outcome. Providers' connections are not
  pooled by a target and not counted.
* `ApiServer` has one application name, one version label and one dataset version,
  so that requests collide; creating an application stands for creating a
  dataset, and an update for replacing a credential, whose handlers have the same
  steps (`KeyRotation` tells the credentials apart). The applications of one behaviour are
  of one type. A rename may be refused for the name of an application that the
  model leaves out (`Refuse`); one that succeeds changes nothing that a property
  speaks of. The tests' in-memory limiter,
  security headers, correlation ids, metrics and the health routes are left out,
  and requests that fail validation do not reach a handler.
* The API runs without login: `api/auth.py` yields one local context, so there is no
  token to verify.
* `CliSession` leaves out the wording of prompts and tables; an unexpected body or
  an interrupted prompt ends a command with an error at any time. The terminal
  UI reads and renders. `examples/` and `scripts/` are callers of what is
  modelled.
* Not modelled: the sanitizing of audit metadata and the retention of audit rows;
  settings, logging and metrics, which only parameterise or observe; schema
  migrations, which run once and offline. The constraints that the head schema has
  and lacks are in `EvalRun` and `ApiServer`.

## 6. Plan

Done, in this order: `ScoringPolicy`, `EvalRun`, `RunLifecycle`, their proofs;
`QuotaAdmission` and its proofs; `Comparison`, `Regression` and the first proofs;
`KeyRotation` and its proofs; `OutboundCalls`, `ApiServer` and `CliSession` with
theirs, which took the places planned for the registries, the outside calls, the
rate limiter and the workspace.

Next:

1. Abstract specifications of further components, as `RunLifecycle` and
   `QuotaLedger` are, and proofs that the modules implement them.
2. Identities of cases across dataset versions in `Regression`, and the retention
   of audit rows.
3. `ApiServer` with three requests, once symmetric pairs are reduced far enough.
