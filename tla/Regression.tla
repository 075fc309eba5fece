----------------------------- MODULE Regression -----------------------------
(***************************************************************************)
(* Comparing two runs (evaluation/regression/service.py) while a worker    *)
(* still executes and scores them.                                         *)
(*                                                                         *)
(* A comparison reads the two runs, checks that both are completed, reads  *)
(* the case results and the guardrail rows of each side, one statement     *)
(* after the other and each as of its own moment (READ COMMITTED), decides *)
(* (module Comparison), and stores the report unless there is one for the  *)
(* same pair and policy.  A run is completed before it is scored: module   *)
(* EvalRun has the protocol, and here it is reduced to what RunLifecycle   *)
(* promises and the order of its scoring pass.                             *)
(*                                                                         *)
(* One pair of runs, one policy: other artifacts share no row with these.  *)
(***************************************************************************)
EXTENDS Comparison

CONSTANTS
    Requests,   \* calls of compare_runs
    Pinnings,   \* test cases of the two dataset versions, per run
    Latencies,  \* how long an answer of each run may take
    Evolving    \* runs not yet executed when the first request comes

Baseline == "baseline"
Current  == "current"
Runs     == {Baseline, Current}

ASSUME RegressionAssumption ==
    /\ Pinnings \subseteq [Runs -> SUBSET Names]
    /\ Latencies \in [Runs -> SUBSET Nat]
    /\ Evolving \subseteq Runs

VARIABLES
    pinned,    \* the cases of each run's dataset version
    status,    \* EvaluationRun.status: "running" or "completed"
    rows,      \* the case results of each run with their guardrail rows
    artifact,  \* the stored report of this pair and policy
    step,      \* where each request is
    snap,      \* what each request has read of each run
    report     \* the report it returned

vars == <<pinned, status, rows, artifact, step, snap, report>>

NoReport == [result |-> "none"]
NoRows   == [x \in Names |-> NoResult]
Verdicts == [Guardrails -> {"none"} \cup VerdictStatus]

\* A result whose scoring is over: errors stay, an executed case stays
\* executed when a guardrail broke down, and the others are classified.
Settled(result) ==
    LET recorded == {g \in Guardrails : result.verdict[g] # "none"}
    IN  \/ result.status \in {"none", "error"}
        \/ /\ recorded = Guardrails
           /\ result.status = ApplyPolicy("executed", Guardrails, result.verdict)

\* The results a run may have for one case.
ResultsOf(run) ==
    {NoResult, [NoResult EXCEPT !.status = "error"]}
    \cup [status : {"executed", "passed", "failed"}, latency : Latencies[run], verdict : Verdicts]

\* A run that was executed and scored before, or not executed yet.
ScoredRows(run) ==
    {f \in [Names -> {s \in ResultsOf(run) : Settled(s)}] :
        \A x \in Names : f[x].status # "none" <=> x \in pinned[run]}

StartRows(run) == IF run \in Evolving THEN {NoRows} ELSE ScoredRows(run)

Init ==
    /\ pinned \in Pinnings
    /\ status = [run \in Runs |-> IF run \in Evolving THEN "running" ELSE "completed"]
    /\ rows \in {f \in [Runs -> UNION {StartRows(run) : run \in Runs}] :
                   \A run \in Runs : f[run] \in StartRows(run)}
    /\ artifact = NoReport
    /\ step = [r \in Requests |-> "new"]
    /\ snap = [r \in Requests |-> [run \in Runs |-> NoRows]]
    /\ report = [r \in Requests |-> NoReport]

-----------------------------------------------------------------------------
(* A worker on one of the runs.                                            *)

\* _execute_case inserts the result of a case, answered or not.
InsertResult(run, x) ==
    /\ status[run] = "running" /\ x \in pinned[run] /\ rows[run][x].status = "none"
    /\ \/ rows' = [rows EXCEPT ![run][x].status = "error"]
       \/ \E ms \in Latencies[run] :
             rows' = [rows EXCEPT ![run][x].status = "executed", ![run][x].latency = ms]
    /\ UNCHANGED <<pinned, status, artifact, step, snap, report>>

CompleteEarly(run) ==
    /\ status[run] = "running"
    /\ status' = [status EXCEPT ![run] = "completed"]
    /\ UNCHANGED <<pinned, rows, artifact, step, snap, report>>

\* The loop is over: the run is completed, and not scored yet.
Complete(run) ==
    /\ status[run] = "running"
    /\ \A x \in pinned[run] : rows[run][x].status # "none"
    /\ status' = [status EXCEPT ![run] = "completed"]
    /\ UNCHANGED <<pinned, rows, artifact, step, snap, report>>

JudgeAgain(run, x) ==
    /\ status[run] = "completed" /\ rows[run][x].status = "executed"
    /\ \E g \in Guardrails, v \in VerdictStatus :
          /\ rows[run][x].verdict[g] \in {"none", "error"}
          /\ \A h \in Guardrails : h < g => rows[run][x].verdict[h] # "none"
          /\ rows' = [rows EXCEPT ![run][x].verdict[g] = v]
    /\ UNCHANGED <<pinned, status, artifact, step, snap, report>>

\* The harness inserts the next guardrail row of an executed case.
Judge(run, x) ==
    /\ status[run] = "completed" /\ rows[run][x].status = "executed"
    /\ \E g \in Guardrails, v \in VerdictStatus :
          /\ rows[run][x].verdict[g] = "none"
          /\ \A h \in Guardrails : h < g => rows[run][x].verdict[h] # "none"
          /\ rows' = [rows EXCEPT ![run][x].verdict[g] = v]
    /\ UNCHANGED <<pinned, status, artifact, step, snap, report>>

\* The scoring pass, after the harness has judged every executed case.
Classify(run, x) ==
    /\ status[run] = "completed" /\ rows[run][x].status = "executed"
    /\ \A y \in Names, g \in Guardrails :
          rows[run][y].status = "executed" => rows[run][y].verdict[g] # "none"
    /\ ~Settled(rows[run][x])
    /\ rows' = [rows EXCEPT ![run][x].status =
                   ApplyPolicy("executed", Guardrails, rows[run][x].verdict)]
    /\ UNCHANGED <<pinned, status, artifact, step, snap, report>>

-----------------------------------------------------------------------------
(* compare_runs.                                                           *)

\* The statements of one comparison: for each run its results, then its
\* guardrail rows, the baseline first.
ReadingResults(run)  == IF run = Baseline THEN "baseline results" ELSE "current results"
ReadingVerdicts(run) == IF run = Baseline THEN "baseline verdicts" ELSE "current verdicts"
AfterVerdicts(run)  == IF run = Baseline THEN "current results" ELSE "lookup"

Goto(r, s) == step' = [step EXCEPT ![r] = s]

\* _validate_runs.
EitherCompleted == \E run \in Runs : status[run] = "completed"
BothCompleted   == \A run \in Runs : status[run] = "completed"

Validate(r) ==
    /\ step[r] = "new"
    /\ Goto(r, IF BothCompleted THEN "baseline results" ELSE "rejected")
    /\ UNCHANGED <<pinned, status, rows, artifact, snap, report>>

\* _load_case_snapshots: first the case results ...
LoadResults(r, run) ==
    /\ step[r] = ReadingResults(run)
    /\ snap' = [snap EXCEPT ![r][run] =
                  [x \in Names |-> [rows[run][x] EXCEPT !.verdict = NoResult.verdict]]]
    /\ Goto(r, ReadingVerdicts(run))
    /\ UNCHANGED <<pinned, status, rows, artifact, report>>

\* ... then the guardrail rows of the run, kept for the results it has.
LoadVerdicts(r, run) ==
    /\ step[r] = ReadingVerdicts(run)
    /\ snap' = [snap EXCEPT ![r][run] =
                  [x \in Names |-> IF snap[r][run][x].status = "none" THEN NoResult
                                   ELSE [snap[r][run][x] EXCEPT !.verdict = rows[run][x].verdict]]]
    /\ Goto(r, AfterVerdicts(run))
    /\ UNCHANGED <<pinned, status, rows, artifact, report>>

\* What a request has computed from what it read.
Computed(r) == Compare(snap[r][Baseline], snap[r][Current])

\* get_by_pair_and_policy: with an artifact of this pair and policy there, the
\* request returns the report it has just computed, under the artifact's id.
Lookup(r) ==
    /\ step[r] = "lookup"
    /\ IF artifact # NoReport
       THEN Goto(r, "done") /\ report' = [report EXCEPT ![r] = Computed(r)]
       ELSE Goto(r, "create") /\ UNCHANGED report
    /\ UNCHANGED <<pinned, status, rows, artifact, snap>>

Overwrite(r) ==
    /\ step[r] = "create"
    /\ artifact' = Computed(r)
    /\ report' = [report EXCEPT ![r] = Computed(r)]
    /\ Goto(r, "done")
    /\ UNCHANGED <<pinned, status, rows, snap>>

\* RegressionRepository.create: (pair, policy) is unique, and the second of two
\* concurrent inserts is answered with a conflict.
Create(r) ==
    /\ step[r] = "create"
    /\ \/ /\ artifact = NoReport
          /\ artifact' = Computed(r)
          /\ report' = [report EXCEPT ![r] = Computed(r)]
          /\ Goto(r, "done")
       \/ /\ artifact # NoReport
          /\ Goto(r, "conflict")
          /\ UNCHANGED <<artifact, report>>
    /\ UNCHANGED <<pinned, status, rows, snap>>

-----------------------------------------------------------------------------
Work(run) ==
    \/ Complete(run)
    \/ \E x \in Names : InsertResult(run, x) \/ Judge(run, x) \/ Classify(run, x)

Serve(r) ==
    \/ Validate(r) \/ Lookup(r) \/ Create(r)
    \/ \E run \in Runs : LoadResults(r, run) \/ LoadVerdicts(r, run)

Next == (\E run \in Runs : Work(run)) \/ (\E r \in Requests : Serve(r))

Spec == Init /\ [][Next]_vars

-----------------------------------------------------------------------------
Results == [status : {"none"} \cup ResultStatus, latency : Nat \cup {NoLatency}, verdict : Verdicts]

TypeOK ==
    /\ pinned \in Pinnings
    /\ status \in [Runs -> {"running", "completed"}]
    /\ rows \in [Runs -> [Names -> Results]]
    /\ step \in [Requests ->
                  {"new", "rejected", "baseline results", "baseline verdicts", "current results",
                   "current verdicts", "lookup", "create", "conflict", "done"}]
    /\ snap \in [Requests -> [Runs -> [Names -> Results]]]

\* The sides that decisions are drawn from: what each request has read, at
\* whatever moments, and what the database holds now.
HasRead(r) == step[r] \in {"lookup", "create", "conflict", "done"}
Compared ==
    {<<rows[Baseline], rows[Current]>>}
    \cup {<<snap[r][Baseline], snap[r][Current]>> : r \in {q \in Requests : HasRead(q)}}

\* Decisions have a direction: no metric is worse in both orders, and a run
\* compared with its own outcomes shows no regression (comparison.py: strictly
\* greater, equal is not a regression).
NeverBothWays ==
    \A p \in Compared : \A i, j \in 1..2 :
        Breaches(p[i], p[j]) \cap Breaches(p[j], p[i]) = {}

OnlyCases(side, M) == [x \in Names |-> IF x \in M THEN side[x] ELSE NoResult]

\* compare: new, removed and missing cases never influence the decision.
OnlyMatchedCasesDecide ==
    \A p \in Compared :
        LET M == {x \in Names : p[1][x].status # "none" /\ p[2][x].status # "none"}
        IN  Breaches(OnlyCases(p[1], M), OnlyCases(p[2], M)) = Breaches(p[1], p[2])

\* A guardrail failed a case it had not failed, or lost a pass it had given.
GuardrailWorsened(before, after) ==
    \/ before # "failed" /\ after = "failed"
    \/ before = "passed" /\ after # "passed"

\* A case took longer than before, or has no latency where it had one.
SlowedDown(before, after) == after > before \/ (before # NoLatency /\ after = NoLatency)

\* What a violation v can be blamed on: a case that stopped passing, or started
\* to fail or to break down, or did worse in what the metric measures.
Explains(v, before, after) ==
    LET transition == Transition(before.status, after.status)
    IN  CASE v.metric = "pass_rate" ->
                 transition \in {"newly_failed", "newly_errored", "failure_after_error"}
          [] v.metric = "error_rate" -> transition \in {"newly_errored", "error_transition"}
          [] v.metric = "guardrail_failure_rate" ->
                 GuardrailWorsened(before.verdict[v.guardrail], after.verdict[v.guardrail])
          [] v.metric = "latency" -> SlowedDown(before.latency, after.latency)

\* No regression without a cause: a violated rate is explained by a matched
\* case that got worse in what the rate measures, whatever the denominators do.
ViolationHasCause ==
    \A p \in Compared : \A v \in Breaches(p[1], p[2]) :
        \E x \in Matched(p[1], p[2]) : Explains(v, p[1][x], p[2][x])

\* A request that went past validation has read, or will read, every case the
\* run executed: partial runs are rejected for good.
Loaded(r, run) ==
    \/ HasRead(r)
    \/ run = Baseline /\ step[r] \in {"current results", "current verdicts"}
CompleteRunsOnly ==
    \A r \in Requests, run \in Runs :
        Loaded(r, run) => \A x \in pinned[run] : snap[r][run][x].status # "none"

\* A report drawn from fully scored runs stays true: although its reads were
\* spread over time, every later comparison computes the same.
ScoredReportIsFinal ==
    \A r \in Requests :
        /\ HasRead(r)
        /\ \A run \in Runs, x \in Names : Settled(snap[r][run][x])
        => Computed(r) = Compare(rows[Baseline], rows[Current])

\* The artifact of a pair and policy is written once.
ArtifactIsFinal == [][artifact # NoReport => artifact' = artifact]_vars

-----------------------------------------------------------------------------
(* The worker of this module is a worker of module EvalRun, as far as the  *)
(* promise of RunLifecycle goes: a run that is already there takes only    *)
(* steps of that promise.  Cases that the run does not execute count as    *)
(* dealt with.                                                             *)

Outcome(run) ==
    [x \in Names |-> IF x \in pinned[run] THEN rows[run][x].status ELSE "error"]

RunOf(run) == INSTANCE RunLifecycle
    WITH Cases <- Names, status <- status[run], outcome <- Outcome(run)

\* execute_run and score_run, as a comparison sees them: results appear only
\* in a running run and once per case, it completes when it has them all, and
\* only a completed run classifies, once per case.
RunsKeepLifecycle == [][\A run \in Runs : [RunOf(run)!Next]_(RunOf(run)!vars)]_vars

=============================================================================
