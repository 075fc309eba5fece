-------------------------- MODULE RegressionProofs --------------------------
(***************************************************************************)
(* Theorems about module Regression, for any cases, guardrails, latencies, *)
(* policies and number of concurrent comparisons.                          *)
(***************************************************************************)
EXTENDS Regression, TLAPS, FiniteSetTheorems, WellFoundedInduction

-----------------------------------------------------------------------------
(* Type correctness.                                                       *)

\* The scoring policy maps verdicts to a status a case result may have.
LEMMA ApplyPolicyStatus ==
    ASSUME NEW v
    PROVE  ApplyPolicy("executed", Guardrails, v) \in ResultStatus
BY DEF ApplyPolicy, ResultStatus

\* A missing result is a result.
LEMMA NoResultType == NoResult \in Results
BY DEF NoResult, Results, NoLatency, Verdicts, ResultStatus

\* The results a scored run starts with are results.
LEMMA StartRowsType ==
    ASSUME NEW run \in Runs, NEW f \in [Runs -> UNION {StartRows(q) : q \in Runs}],
           f[run] \in StartRows(run)
    PROVE  f[run] \in [Names -> Results]
<1>1. ResultsOf(run) \subseteq Results
    <2>1. [NoResult EXCEPT !.status = "error"] \in Results
        BY NoResultType DEF Results, ResultStatus
    <2>2. [status : {"executed", "passed", "failed"}, latency : Latencies[run], verdict : Verdicts]
              \subseteq Results
        BY RegressionAssumption DEF Results, ResultStatus
    <2> QED BY <2>1, <2>2, NoResultType DEF ResultsOf
<1>2. CASE run \in Evolving
    BY <1>2, NoResultType DEF StartRows, NoRows
<1>3. CASE run \notin Evolving
    BY <1>1, <1>3 DEF StartRows, ScoredRows
<1> QED BY <1>2, <1>3

\* Changing one field of a result gives a result.
LEMMA StatusChange ==
    ASSUME NEW s \in Results, NEW st \in {"none"} \cup ResultStatus
    PROVE  [s EXCEPT !.status = st] \in Results
BY DEF Results

LEMMA LatencyChange ==
    ASSUME NEW s \in Results, NEW ms \in Nat \cup {NoLatency}
    PROVE  [s EXCEPT !.latency = ms] \in Results
BY DEF Results

LEMMA VerdictsChange ==
    ASSUME NEW s \in Results, NEW vs \in Verdicts
    PROVE  [s EXCEPT !.verdict = vs] \in Results
BY DEF Results

LEMMA VerdictChange ==
    ASSUME NEW s \in Results, NEW g \in Guardrails, NEW v \in VerdictStatus
    PROVE  [s EXCEPT !.verdict[g] = v] \in Results
<1>1. [s.verdict EXCEPT ![g] = v] \in Verdicts
    BY DEF Results, Verdicts
<1>2. [s EXCEPT !.verdict = [s.verdict EXCEPT ![g] = v]] \in Results
    BY <1>1, VerdictsChange
<1> QED BY <1>2

\* Changing the result of one case of one run gives results.
LEMMA RowChange ==
    ASSUME NEW f \in [Runs -> [Names -> Results]],
           NEW run \in Runs, NEW x \in Names, NEW s \in Results
    PROVE  [f EXCEPT ![run][x] = s] \in [Runs -> [Names -> Results]]
OBVIOUS

\* Every action keeps every variable in its type.
LEMMA TypeStep == TypeOK /\ [Next]_vars => TypeOK'
<1> SUFFICES ASSUME TypeOK, [Next]_vars PROVE TypeOK'
    OBVIOUS
<1> USE DEF TypeOK, Goto
<1>1. ASSUME NEW run \in Runs, NEW x \in Names, InsertResult(run, x) PROVE TypeOK'
    <2>1. rows' \in [Runs -> [Names -> Results]]
        <3> DEFINE old == rows[run][x]
        <3>1. old \in Results
            OBVIOUS
        <3>2. CASE rows' = [rows EXCEPT ![run][x].status = "error"]
            <4>1. [old EXCEPT !.status = "error"] \in Results
                BY <3>1, StatusChange DEF ResultStatus
            <4>2. rows' = [rows EXCEPT ![run][x] = [old EXCEPT !.status = "error"]]
                BY <3>2
            <4> HIDE DEF old
            <4> QED BY <4>1, <4>2, RowChange
        <3>3. CASE \E ms \in Latencies[run] :
                     rows' = [rows EXCEPT ![run][x].status = "executed", ![run][x].latency = ms]
            <4>1. PICK ms \in Latencies[run] :
                     rows' = [rows EXCEPT ![run][x].status = "executed", ![run][x].latency = ms]
                BY <3>3
            <4> DEFINE mid == [old EXCEPT !.status = "executed"]
                       new == [mid EXCEPT !.latency = ms]
            <4>2. mid \in Results
                BY <3>1, StatusChange DEF ResultStatus
            <4>3. ms \in Nat
                BY RegressionAssumption
            <4>4. new \in Results
                <5> HIDE DEF mid
                <5> QED BY <4>2, <4>3, LatencyChange
            <4>5. rows' = [rows EXCEPT ![run][x] = new]
                BY <4>1
            <4> HIDE DEF new
            <4> QED BY <4>4, <4>5, RowChange
        <3> QED BY <1>1, <3>2, <3>3 DEF InsertResult
    <2> QED BY <1>1, <2>1 DEF InsertResult
<1>2. ASSUME NEW run \in Runs, Complete(run) PROVE TypeOK'
    BY <1>2 DEF Complete
<1>3. ASSUME NEW run \in Runs, NEW x \in Names, Judge(run, x) PROVE TypeOK'
    <2>1. rows' \in [Runs -> [Names -> Results]]
        <3>1. PICK g \in Guardrails, v \in VerdictStatus :
                 rows' = [rows EXCEPT ![run][x].verdict[g] = v]
            BY <1>3 DEF Judge
        <3> DEFINE new == [rows[run][x] EXCEPT !.verdict[g] = v]
        <3>2. rows[run][x] \in Results
            OBVIOUS
        <3>3. new \in Results
            BY <3>2, VerdictChange
        <3>4. rows' = [rows EXCEPT ![run][x] = new]
            BY <3>1
        <3> HIDE DEF new
        <3> QED BY <3>3, <3>4, RowChange
    <2> QED BY <1>3, <2>1 DEF Judge
<1>4. ASSUME NEW run \in Runs, NEW x \in Names, Classify(run, x) PROVE TypeOK'
    <2>1. rows' \in [Runs -> [Names -> Results]]
        <3> DEFINE st  == ApplyPolicy("executed", Guardrails, rows[run][x].verdict)
                   new == [rows[run][x] EXCEPT !.status = st]
        <3>1. st \in ResultStatus
            BY ApplyPolicyStatus
        <3>2. new \in Results
            <4> HIDE DEF st
            <4> QED BY <3>1, StatusChange
        <3>3. rows' = [rows EXCEPT ![run][x] = new]
            BY <1>4 DEF Classify
        <3> HIDE DEF new
        <3> QED BY <3>2, <3>3, RowChange
    <2> QED BY <1>4, <2>1 DEF Classify
<1>5. ASSUME NEW r \in Requests, Validate(r) \/ Lookup(r) \/ Create(r) PROVE TypeOK'
    BY <1>5 DEF Validate, Lookup, Create
<1>6. ASSUME NEW r \in Requests, NEW run \in Runs, LoadResults(r, run) PROVE TypeOK'
    <2>1. snap'[r][run] \in [Names -> Results]
        <3>1. NoResult.verdict \in Verdicts
            BY NoResultType DEF Results
        <3>2. ASSUME NEW x \in Names
              PROVE  [rows[run][x] EXCEPT !.verdict = NoResult.verdict] \in Results
            <4>1. rows[run][x] \in Results
                OBVIOUS
            <4> QED BY <3>1, <4>1, VerdictsChange
        <3>3. snap'[r][run] = [x \in Names |-> [rows[run][x] EXCEPT !.verdict = NoResult.verdict]]
            BY <1>6 DEF LoadResults
        <3> QED BY <3>2, <3>3
    <2>2. snap' \in [Requests -> [Runs -> [Names -> Results]]]
        BY <1>6, <2>1 DEF LoadResults
    <2> QED BY <1>6, <2>2 DEF LoadResults, ReadingVerdicts
<1>7. ASSUME NEW r \in Requests, NEW run \in Runs, LoadVerdicts(r, run) PROVE TypeOK'
    <2>1. snap'[r][run] \in [Names -> Results]
        <3>1. ASSUME NEW x \in Names
              PROVE  [snap[r][run][x] EXCEPT !.verdict = rows[run][x].verdict] \in Results
            <4>1. rows[run][x].verdict \in Verdicts
                <5>1. rows[run][x] \in Results
                    OBVIOUS
                <5> QED BY <5>1 DEF Results
            <4>2. snap[r][run][x] \in Results
                <5>1. snap[r] \in [Runs -> [Names -> Results]]
                    OBVIOUS
                <5>2. snap[r][run] \in [Names -> Results]
                    BY <5>1
                <5> QED BY <5>2
            <4> QED BY <4>1, <4>2, VerdictsChange
        <3>2. snap'[r][run] =
                 [x \in Names |-> IF snap[r][run][x].status = "none" THEN NoResult
                                  ELSE [snap[r][run][x] EXCEPT !.verdict = rows[run][x].verdict]]
            BY <1>7 DEF LoadVerdicts
        <3> QED BY <3>1, <3>2, NoResultType
    <2>2. snap' \in [Requests -> [Runs -> [Names -> Results]]]
        BY <1>7, <2>1 DEF LoadVerdicts
    <2> QED BY <1>7, <2>2 DEF LoadVerdicts, AfterVerdicts
<1>8. CASE UNCHANGED vars
    BY <1>8 DEF vars
<1> QED BY <1>1, <1>2, <1>3, <1>4, <1>5, <1>6, <1>7, <1>8 DEF Next, Work, Serve

\* Every variable keeps its type.
THEOREM RegressionTypeCorrect == Spec => []TypeOK
<1>1. Init => TypeOK
    BY NoResultType, StartRowsType DEF Init, TypeOK, NoRows
<1> QED BY <1>1, TypeStep, PTL DEF Spec

-----------------------------------------------------------------------------
(* Partial runs are rejected for good.                                     *)

\* A request past validation found both runs completed, and they stay so.
PastValidation == \A r \in Requests : step[r] \notin {"new", "rejected"} => BothCompleted

\* A completed run has a result for each of its cases.
CompletedIsFull ==
    \A run \in Runs : status[run] = "completed" =>
        \A x \in pinned[run] : rows[run][x].status # "none"

\* Between its two statements on a run, a request has all its results too.
HasResults(r, run) == Loaded(r, run) \/ step[r] = ReadingVerdicts(run)

ReadsAreFull ==
    \A r \in Requests, run \in Runs :
        HasResults(r, run) => \A x \in pinned[run] : snap[r][run][x].status # "none"

ReadInv == PastValidation /\ CompletedIsFull /\ ReadsAreFull

\* The cases of a run are names.
LEMMA PinnedNames == TypeOK => \A run \in Runs : pinned[run] \subseteq Names
BY RegressionAssumption DEF TypeOK

\* Work on a run removes no result, reopens no run and touches no request.
LEMMA WorkKeepsResults ==
    ASSUME TypeOK, NEW run \in Runs, Work(run), NEW r2 \in Runs, NEW y \in Names,
           rows[r2][y].status # "none"
    PROVE  rows'[r2][y].status # "none"
<1>1. rows \in [Runs -> [Names -> Results]]
    BY DEF TypeOK
<1>2. CASE Complete(run)
    BY <1>2 DEF Complete
<1>3. ASSUME NEW x \in Names, InsertResult(run, x) PROVE rows'[r2][y].status # "none"
    <2>1. CASE rows' = [rows EXCEPT ![run][x].status = "error"]
        BY <1>1, <2>1 DEF Results
    <2>2. ASSUME NEW ms \in Latencies[run],
                 rows' = [rows EXCEPT ![run][x].status = "executed", ![run][x].latency = ms]
          PROVE  rows'[r2][y].status # "none"
        BY <1>1, <2>2 DEF Results
    <2> QED BY <1>3, <2>1, <2>2 DEF InsertResult
<1>4. ASSUME NEW x \in Names, Judge(run, x) PROVE rows'[r2][y].status # "none"
    BY <1>1, <1>4 DEF Judge, Results
<1>5. ASSUME NEW x \in Names, Classify(run, x) PROVE rows'[r2][y].status # "none"
    <2> DEFINE st == ApplyPolicy("executed", Guardrails, rows[run][x].verdict)
    <2>1. st # "none"
        BY ApplyPolicyStatus DEF ResultStatus
    <2>2. rows' = [rows EXCEPT ![run][x].status = st]
        BY <1>5 DEF Classify
    <2> HIDE DEF st
    <2> QED BY <1>1, <2>1, <2>2 DEF Results
<1> QED BY <1>2, <1>3, <1>4, <1>5 DEF Work

LEMMA WorkFrame ==
    ASSUME NEW run \in Runs, Work(run)
    PROVE  UNCHANGED <<pinned, artifact, step, snap, report>>
BY DEF Work, Complete, InsertResult, Judge, Classify

LEMMA ReadStep == TypeOK /\ ReadInv /\ [Next]_vars => ReadInv'
<1> SUFFICES ASSUME TypeOK, ReadInv, [Next]_vars PROVE ReadInv'
    OBVIOUS
<1>1. ASSUME NEW run \in Runs, Work(run) PROVE ReadInv'
    <2>1. UNCHANGED <<pinned, artifact, step, snap, report>>
        BY <1>1, WorkFrame
    <2>2. ReadsAreFull'
        BY <2>1 DEF ReadInv, ReadsAreFull, HasResults, Loaded, HasRead
    <2>3. status \in [Runs -> {"running", "completed"}]
        BY DEF TypeOK
    <2>4. \A r2 \in Runs : status[r2] = "completed" => status'[r2] = "completed"
        BY <1>1, <2>3 DEF Work, Complete, InsertResult, Judge, Classify
    <2>5. PastValidation'
        BY <2>1, <2>4 DEF ReadInv, PastValidation, BothCompleted
    <2>6. ASSUME NEW r2 \in Runs, status'[r2] = "completed", NEW y \in pinned'[r2]
          PROVE  rows'[r2][y].status # "none"
        <3>1. y \in pinned[r2] /\ y \in Names
            BY <2>1, <2>6, PinnedNames
        <3>2. rows[r2][y].status # "none"
            <4>1. CASE status[r2] = "completed"
                BY <3>1, <4>1 DEF ReadInv, CompletedIsFull
            <4>2. CASE status[r2] # "completed"
                <5>1. run = r2 /\ Complete(run)
                    BY <1>1, <2>3, <2>6, <4>2 DEF Work, Complete, InsertResult, Judge, Classify
                <5> QED BY <3>1, <5>1 DEF Complete
            <4> QED BY <4>1, <4>2
        <3> QED BY <1>1, <3>1, <3>2, WorkKeepsResults
    <2> QED BY <2>2, <2>5, <2>6 DEF ReadInv, CompletedIsFull
<1>2. ASSUME NEW r \in Requests, Serve(r) PROVE ReadInv'
    <2>1. UNCHANGED <<pinned, status, rows>>
        BY <1>2 DEF Serve, Validate, Lookup, Create, LoadResults, LoadVerdicts
    <2>2. CompletedIsFull'
        BY <2>1 DEF ReadInv, CompletedIsFull
    <2>3. \A q \in Requests : q # r => step'[q] = step[q] /\ snap'[q] = snap[q]
        BY <1>2 DEF TypeOK, Serve, Validate, Lookup, Create, LoadResults, LoadVerdicts, Goto
    <2>4. step[r] \notin {"new", "rejected"} \/ Validate(r)
        BY <1>2 DEF Serve, Lookup, Create, LoadResults, LoadVerdicts, ReadingResults, ReadingVerdicts
    <2>5. PastValidation'
        BY <2>1, <2>3, <2>4 DEF ReadInv, PastValidation, BothCompleted, Validate, Goto, TypeOK
    <2>6. ASSUME NEW run \in Runs, HasResults(r, run)', NEW x \in pinned[run]
          PROVE  snap'[r][run][x].status # "none"
        <3>1. x \in Names
            BY PinnedNames
        <3>2. HasResults(r, run) => snap[r][run][x].status # "none"
            BY DEF ReadInv, ReadsAreFull
        <3> USE DEF HasResults, Loaded, HasRead, ReadingResults, ReadingVerdicts, Goto, TypeOK, Baseline,
                    Current, Runs
        <3>3. CASE Validate(r)
            BY <2>6, <3>3 DEF Validate
        <3>4. CASE Lookup(r) \/ Create(r)
            BY <2>6, <3>2, <3>4 DEF Lookup, Create
        <3>5. ASSUME NEW q \in Runs, LoadResults(r, q) PROVE snap'[r][run][x].status # "none"
            <4>1. CASE q = run
                <5>1. BothCompleted
                    BY <3>5 DEF LoadResults, ReadInv, PastValidation
                <5>2. rows[run][x].status # "none"
                    BY <5>1 DEF BothCompleted, ReadInv, CompletedIsFull
                <5>3. rows[run][x] \in Results
                    BY <3>1
                <5>4. snap'[r][run][x] = [rows[run][x] EXCEPT !.verdict = NoResult.verdict]
                    BY <3>1, <3>5, <4>1 DEF LoadResults
                <5> QED BY <5>2, <5>3, <5>4 DEF Results
            <4>2. CASE q # run
                BY <2>6, <3>2, <3>5, <4>2 DEF LoadResults
            <4> QED BY <4>1, <4>2
        <3>6. ASSUME NEW q \in Runs, LoadVerdicts(r, q) PROVE snap'[r][run][x].status # "none"
            <4>1. CASE q = run
                <5>1. snap[r][run][x].status # "none"
                    BY <3>2, <3>6, <4>1 DEF LoadVerdicts
                <5>2. snap[r] \in [Runs -> [Names -> Results]]
                    OBVIOUS
                <5>3. snap[r][run][x] \in Results
                    BY <3>1, <5>2
                <5>4. snap'[r][run][x] = [snap[r][run][x] EXCEPT !.verdict = rows[run][x].verdict]
                    BY <3>1, <3>6, <4>1, <5>1 DEF LoadVerdicts
                <5> QED BY <5>1, <5>3, <5>4 DEF Results
            <4>2. CASE q # run
                BY <2>6, <3>2, <3>6, <4>2 DEF LoadVerdicts, AfterVerdicts
            <4> QED BY <4>1, <4>2
        <3> QED BY <1>2, <3>3, <3>4, <3>5, <3>6 DEF Serve
    <2>7. ReadsAreFull'
        BY <2>1, <2>3, <2>6 DEF ReadInv, ReadsAreFull, HasResults, Loaded, HasRead
    <2> QED BY <2>2, <2>5, <2>7 DEF ReadInv
<1>3. CASE UNCHANGED vars
    BY <1>3 DEF vars, ReadInv, PastValidation, BothCompleted, CompletedIsFull, ReadsAreFull,
                HasResults, Loaded, HasRead
<1> QED BY <1>1, <1>2, <1>3 DEF Next

LEMMA CompleteReads == Spec => [](TypeOK /\ ReadInv)
<1>1. Init => TypeOK
    BY NoResultType, StartRowsType DEF Init, TypeOK, NoRows
<1>2. Init => ReadInv
    <2> SUFFICES ASSUME Init PROVE ReadInv
        OBVIOUS
    <2>1. PastValidation /\ ReadsAreFull
        BY DEF Init, PastValidation, ReadsAreFull, HasResults, Loaded, HasRead, ReadingVerdicts
    <2>2. ASSUME NEW run \in Runs, status[run] = "completed", NEW x \in pinned[run]
          PROVE  rows[run][x].status # "none"
        <3>1. run \notin Evolving
            BY <2>2 DEF Init
        <3>2. rows[run] \in ScoredRows(run)
            BY <3>1 DEF Init, StartRows
        <3>3. x \in Names
            BY <1>1, PinnedNames
        <3> QED BY <3>2, <3>3 DEF ScoredRows
    <2> QED BY <2>1, <2>2 DEF ReadInv, CompletedIsFull
<1> QED BY <1>1, <1>2, TypeStep, ReadStep, PTL DEF Spec

\* No comparison is drawn from a run that had not finished its cases: a request
\* past _validate_runs reads a result for every pinned case of both runs.
THEOREM CompleteRunsOnlyHolds == Spec => []CompleteRunsOnly
<1>1. ReadInv => CompleteRunsOnly
    BY DEF ReadInv, ReadsAreFull, HasResults, CompleteRunsOnly
<1> QED BY <1>1, CompleteReads, PTL

-----------------------------------------------------------------------------
(* Reports from scored runs.                                               *)

\* The result of a case as the worker leaves it: untouched until the case is
\* executed, judged only if it was answered, classified from its verdicts.
WellFormed(result) ==
    /\ result.status = "none" => result = NoResult
    /\ result.status = "error" => result.verdict = NoResult.verdict
    /\ result.status \in {"passed", "failed"} =>
          result.status = ApplyPolicy("executed", Guardrails, result.verdict)

RowsWellFormed == \A run \in Runs, x \in Names : WellFormed(rows[run][x])

\* What was read of a result that is now there: it may have been classified
\* since, and verdicts may have been added to those that were read.
Faithful(read, result) ==
    /\ read.latency = result.latency
    /\ \/ read.status = result.status
       \/ read.status = "executed" /\ result.status \in {"passed", "failed"}
    /\ \A g \in Guardrails : read.verdict[g] # "none" => result.verdict[g] = read.verdict[g]
    /\ read.status \in {"none", "error"} => read.verdict = NoResult.verdict

ReadsAreFaithful ==
    \A r \in Requests, run \in Runs :
        HasResults(r, run) => \A x \in Names : Faithful(snap[r][run][x], rows[run][x])

LEMMA ScoringStatus ==
    ASSUME NEW v
    PROVE  ApplyPolicy("executed", Guardrails, v) \in {"executed", "passed", "failed"}
BY DEF ApplyPolicy

\* A settled result that was read is the result that is there: nothing can
\* have been added to it.
LEMMA SettledIsFinal ==
    ASSUME NEW s \in Results, NEW c \in Results, Faithful(s, c), WellFormed(c), Settled(s)
    PROVE  s = c
<1>1. s.verdict \in [Guardrails -> {"none"} \cup VerdictStatus]
    BY DEF Results, Verdicts
<1>2. c.verdict \in [Guardrails -> {"none"} \cup VerdictStatus]
    BY DEF Results, Verdicts
<1>3. CASE s.status = "none"
    <2>1. c = NoResult
        BY <1>3 DEF Faithful, WellFormed
    <2>2. s.verdict = c.verdict /\ s.status = c.status /\ s.latency = c.latency
        BY <1>3, <2>1 DEF Faithful
    <2> QED BY <2>2 DEF Results
<1>4. CASE s.status = "error"
    <2>1. s.verdict = c.verdict /\ s.status = c.status /\ s.latency = c.latency
        BY <1>4 DEF Faithful, WellFormed
    <2> QED BY <2>1 DEF Results
<1>5. CASE s.status \notin {"none", "error"}
    <2>1. \A g \in Guardrails : s.verdict[g] # "none"
        BY <1>5 DEF Settled
    <2>2. s.status = ApplyPolicy("executed", Guardrails, s.verdict)
        BY <1>5 DEF Settled
    <2>3. \A g \in Guardrails : c.verdict[g] = s.verdict[g]
        BY <2>1 DEF Faithful
    <2>4. s.verdict = c.verdict
        BY <1>1, <1>2, <2>3
    <2>5. s.status = c.status
        BY <2>2, <2>4 DEF Faithful, WellFormed
    <2>6. s.latency = c.latency
        BY DEF Faithful
    <2> QED BY <2>4, <2>5, <2>6 DEF Results
<1> QED BY <1>3, <1>4, <1>5

\* What the worker may do to a result that is there.
LEMMA WorkOnResult ==
    ASSUME TypeOK, RowsWellFormed, NEW run \in Runs, Work(run), NEW q \in Runs, NEW x \in Names
    PROVE  /\ WellFormed(rows'[q][x])
           /\ status[q] = "completed" =>
                 \A s \in Results : Faithful(s, rows[q][x]) => Faithful(s, rows'[q][x])
<1> DEFINE old == rows[q][x]
           new == rows'[q][x]
           Executed ==
               /\ run = q /\ status[q] = "running" /\ old.status = "none"
               /\ \/ new = [old EXCEPT !.status = "error"]
                  \/ \E ms : new = [[old EXCEPT !.status = "executed"] EXCEPT !.latency = ms]
           Verdict(g, v) ==
               old.status = "executed" /\ old.verdict[g] = "none" /\ new = [old EXCEPT !.verdict[g] = v]
           Classified ==
               /\ old.status = "executed" /\ ~Settled(old)
               /\ \A g \in Guardrails : old.verdict[g] # "none"
               /\ new = [old EXCEPT !.status = ApplyPolicy("executed", Guardrails, old.verdict)]
           Kept == status[q] = "completed" =>
                       \A s \in Results : Faithful(s, old) => Faithful(s, new)
<1>1. old \in Results /\ WellFormed(old)
    BY DEF TypeOK, RowsWellFormed
<1>2. ASSUME new = old PROVE WellFormed(new) /\ Kept
    BY <1>1, <1>2
<1>3. ASSUME Executed PROVE WellFormed(new) /\ Kept
    <2>1. old = NoResult
        BY <1>1, <1>3 DEF WellFormed
    <2>2. ASSUME new = [old EXCEPT !.status = "error"] PROVE WellFormed(new)
        <3>1. new.status = "error" /\ new.verdict = NoResult.verdict
            BY <2>1, <2>2 DEF NoResult
        <3> QED BY <3>1 DEF WellFormed
    <2>3. ASSUME NEW ms, new = [[old EXCEPT !.status = "executed"] EXCEPT !.latency = ms]
          PROVE  WellFormed(new)
        BY <2>1, <2>3 DEF WellFormed, NoResult
    <2> QED BY <1>3, <2>2, <2>3
<1>4. ASSUME NEW g \in Guardrails, NEW v \in VerdictStatus, Verdict(g, v)
      PROVE  WellFormed(new) /\ Kept
    <2>1. /\ new.status = "executed" /\ new.latency = old.latency
          /\ new.verdict = [old.verdict EXCEPT ![g] = v]
        BY <1>1, <1>4 DEF Results
    <2>2. old.verdict \in [Guardrails -> {"none"} \cup VerdictStatus]
        BY <1>1 DEF Results, Verdicts
    <2>3. \A h \in Guardrails : old.verdict[h] # "none" => new.verdict[h] = old.verdict[h]
        BY <1>4, <2>1, <2>2
    <2>4. WellFormed(new)
        BY <2>1 DEF WellFormed
    <2>5. ASSUME NEW s \in Results, Faithful(s, old) PROVE Faithful(s, new)
        <3>1. \A h \in Guardrails : s.verdict[h] # "none" => new.verdict[h] = s.verdict[h]
            BY <2>3, <2>5 DEF Faithful
        <3> QED BY <1>4, <2>1, <2>5, <3>1 DEF Faithful
    <2> QED BY <2>4, <2>5
<1>5. ASSUME Classified PROVE WellFormed(new) /\ Kept
    <2> DEFINE st == ApplyPolicy("executed", Guardrails, old.verdict)
    <2>1. st # "executed"
        BY <1>5 DEF Settled
    <2>2. st \in {"passed", "failed"}
        BY <2>1, ScoringStatus
    <2>3. new.status = st /\ new.latency = old.latency /\ new.verdict = old.verdict
        <3> HIDE DEF st
        <3>1. new = [old EXCEPT !.status = st]
            BY <1>5 DEF st
        <3> QED BY <1>1, <3>1 DEF Results
    <2>4. WellFormed(new)
        BY <2>2, <2>3 DEF WellFormed
    <2>5. ASSUME NEW s \in Results, Faithful(s, old) PROVE Faithful(s, new)
        <3> HIDE DEF st
        <3> QED BY <1>5, <2>2, <2>3, <2>5 DEF Faithful
    <2> QED BY <2>4, <2>5
<1>6. \/ new = old
      \/ Executed
      \/ \E g \in Guardrails, v \in VerdictStatus : Verdict(g, v)
      \/ Classified
    <2> USE DEF TypeOK
    <2>1. CASE Complete(run)
        BY <2>1 DEF Complete
    <2>2. ASSUME NEW y \in Names, InsertResult(run, y), run = q, y = x PROVE Executed
        <3>1. CASE rows' = [rows EXCEPT ![run][y].status = "error"]
            <4>1. status[run] = "running" /\ rows[run][y].status = "none"
                BY ONLY <2>2, Zenon DEF InsertResult
            <4>2. new = [old EXCEPT !.status = "error"]
                BY <2>2, <3>1
            <4> QED BY <2>2, <4>1, <4>2
        <3>2. ASSUME NEW ms \in Latencies[run],
                     rows' = [rows EXCEPT ![run][y].status = "executed", ![run][y].latency = ms]
              PROVE  new = [[old EXCEPT !.status = "executed"] EXCEPT !.latency = ms]
            BY <2>2, <3>2
        <3> QED BY <2>2, <3>1, <3>2 DEF InsertResult
    <2>3. ASSUME NEW y \in Names, Judge(run, y), run = q, y = x
          PROVE  \E g \in Guardrails, v \in VerdictStatus : Verdict(g, v)
        <3>1. PICK g \in Guardrails, v \in VerdictStatus :
                 /\ rows[run][y].verdict[g] = "none"
                 /\ rows' = [rows EXCEPT ![run][y].verdict[g] = v]
            BY ONLY <2>3, Zenon DEF Judge
        <3>2. new = [old EXCEPT !.verdict[g] = v]
            BY <2>3, <3>1
        <3> QED BY <2>3, <3>1, <3>2 DEF Judge
    <2>4. ASSUME NEW y \in Names, Classify(run, y), run = q, y = x PROVE Classified
        BY <2>4 DEF Classify
    <2>5. ASSUME NEW y \in Names, InsertResult(run, y) \/ Judge(run, y) \/ Classify(run, y),
                 run # q \/ y # x
          PROVE  new = old
        <3>1. CASE InsertResult(run, y)
            <4>1. CASE rows' = [rows EXCEPT ![run][y].status = "error"]
                BY <2>5, <4>1
            <4>2. ASSUME NEW ms \in Latencies[run],
                         rows' = [rows EXCEPT ![run][y].status = "executed", ![run][y].latency = ms]
                  PROVE  new = old
                BY <2>5, <4>2
            <4> QED BY ONLY <3>1, <4>1, <4>2, Zenon DEF InsertResult
        <3>2. CASE Judge(run, y)
            <4>1. PICK g \in Guardrails, v \in VerdictStatus :
                     rows' = [rows EXCEPT ![run][y].verdict[g] = v]
                BY ONLY <3>2, Zenon DEF Judge
            <4> QED BY <2>5, <4>1
        <3>3. CASE Classify(run, y)
            BY <2>5, <3>3 DEF Classify
        <3> QED BY <2>5, <3>1, <3>2, <3>3
    <2> QED BY <2>1, <2>2, <2>3, <2>4, <2>5 DEF Work
<1>7. WellFormed(new) /\ Kept
    <2> HIDE DEF old, new, Executed, Verdict, Classified, Kept
    <2> QED BY <1>2, <1>3, <1>4, <1>5, <1>6
<1> QED BY <1>7

LEMMA StartWellFormed ==
    ASSUME NEW run \in Runs, NEW f \in StartRows(run), NEW x \in Names
    PROVE  WellFormed(f[x])
<1>1. WellFormed(NoResult)
    BY DEF WellFormed, NoResult
<1>2. CASE run \in Evolving
    BY <1>1, <1>2 DEF StartRows, NoRows
<1>3. CASE run \notin Evolving
    <2>1. f[x] \in ResultsOf(run) /\ Settled(f[x])
        BY <1>3 DEF StartRows, ScoredRows
    <2>2. CASE f[x] = [NoResult EXCEPT !.status = "error"]
        <3>1. f[x].status = "error" /\ f[x].verdict = NoResult.verdict
            BY <2>2 DEF NoResult
        <3> QED BY <3>1 DEF WellFormed
    <2>3. CASE f[x] \in [status : {"executed", "passed", "failed"}, latency : Latencies[run],
                         verdict : Verdicts]
        <3>1. f[x].status \in {"executed", "passed", "failed"}
            BY <2>3
        <3>2. f[x].status = ApplyPolicy("executed", Guardrails, f[x].verdict)
            BY <2>1, <3>1 DEF Settled
        <3> QED BY <3>1, <3>2 DEF WellFormed
    <2> QED BY <1>1, <2>1, <2>2, <2>3 DEF ResultsOf
<1> QED BY <1>2, <1>3

\* The two statements of a request on a run.
LEMMA ResultsFaithful ==
    ASSUME TypeOK, RowsWellFormed, NEW r \in Requests, NEW run \in Runs, LoadResults(r, run),
           NEW x \in Names
    PROVE  Faithful(snap'[r][run][x], rows[run][x])
<1> DEFINE c == rows[run][x]
           s == snap'[r][run][x]
<1>1. c \in Results
    BY DEF TypeOK
<1>2. s = [c EXCEPT !.verdict = NoResult.verdict]
    BY DEF TypeOK, LoadResults
<1> HIDE DEF c, s
<1>3. s.status = c.status /\ s.latency = c.latency /\ s.verdict = NoResult.verdict
    BY <1>1, <1>2 DEF Results
<1>4. \A g \in Guardrails : NoResult.verdict[g] = "none"
    BY DEF NoResult
<1>5. Faithful(s, c)
    BY <1>3, <1>4 DEF Faithful
<1> QED BY <1>5 DEF s, c

LEMMA VerdictsFaithful ==
    ASSUME TypeOK, RowsWellFormed, NEW r \in Requests, NEW run \in Runs, LoadVerdicts(r, run),
           NEW x \in Names, Faithful(snap[r][run][x], rows[run][x])
    PROVE  Faithful(snap'[r][run][x], rows[run][x])
<1> DEFINE c == rows[run][x]
           old == snap[r][run][x]
           s == snap'[r][run][x]
<1>1. c \in Results /\ WellFormed(c)
    BY DEF TypeOK, RowsWellFormed
<1>2. old \in Results
    <2>1. snap[r] \in [Runs -> [Names -> Results]]
        BY DEF TypeOK
    <2>2. snap[r][run] \in [Names -> Results]
        BY <2>1
    <2> QED BY <2>2
<1>3. s = IF old.status = "none" THEN NoResult ELSE [old EXCEPT !.verdict = c.verdict]
    BY DEF TypeOK, LoadVerdicts
<1>4. Faithful(old, c)
    OBVIOUS
<1> HIDE DEF c, old, s
<1>5. CASE old.status = "none"
    <2>1. s = c
        BY <1>1, <1>3, <1>4, <1>5 DEF Faithful, WellFormed
    <2> QED BY <1>1, <2>1 DEF Faithful, WellFormed, s, c
<1>6. CASE old.status # "none"
    <2>1. s.status = old.status /\ s.latency = old.latency /\ s.verdict = c.verdict
        BY <1>2, <1>3, <1>6 DEF Results
    <2>2. s.status = "error" => c.verdict = NoResult.verdict
        BY <1>1, <1>4, <2>1 DEF Faithful, WellFormed
    <2>3. Faithful(s, c)
        BY <1>4, <1>6, <2>1, <2>2 DEF Faithful
    <2> QED BY <2>3 DEF s, c
<1> QED BY <1>5, <1>6

ReportInv == RowsWellFormed /\ ReadsAreFaithful

LEMMA ReportStep == TypeOK /\ ReadInv /\ ReportInv /\ [Next]_vars => ReportInv'
<1> SUFFICES ASSUME TypeOK, ReadInv, ReportInv, [Next]_vars PROVE ReportInv'
    OBVIOUS
<1>1. ASSUME NEW run \in Runs, Work(run) PROVE ReportInv'
    <2>1. UNCHANGED <<pinned, artifact, step, snap, report>>
        BY <1>1, WorkFrame
    <2>2. RowsWellFormed'
        BY <1>1, WorkOnResult DEF ReportInv, RowsWellFormed
    <2>3. ASSUME NEW r \in Requests, NEW q \in Runs, HasResults(r, q), NEW x \in Names
          PROVE  Faithful(snap[r][q][x], rows'[q][x])
        <3>1. step[r] \notin {"new", "rejected"}
            BY <2>3 DEF HasResults, Loaded, HasRead, ReadingVerdicts
        <3>2. status[q] = "completed"
            BY <3>1 DEF ReadInv, PastValidation, BothCompleted
        <3>3. snap[r][q][x] \in Results
            <4>1. snap[r] \in [Runs -> [Names -> Results]]
                BY DEF TypeOK
            <4>2. snap[r][q] \in [Names -> Results]
                BY <4>1
            <4> QED BY <4>2
        <3>4. Faithful(snap[r][q][x], rows[q][x])
            BY <2>3 DEF ReportInv, ReadsAreFaithful
        <3> QED BY <1>1, <3>2, <3>3, <3>4, WorkOnResult DEF ReportInv
    <2>4. ReadsAreFaithful'
        BY <2>1, <2>3 DEF ReadsAreFaithful, HasResults, Loaded, HasRead
    <2> QED BY <2>2, <2>4 DEF ReportInv
<1>2. ASSUME NEW r \in Requests, Serve(r) PROVE ReportInv'
    <2>1. UNCHANGED <<pinned, status, rows>>
        BY <1>2 DEF Serve, Validate, Lookup, Create, LoadResults, LoadVerdicts
    <2>2. RowsWellFormed'
        BY <2>1 DEF ReportInv, RowsWellFormed
    <2>3. \A q \in Requests : q # r => step'[q] = step[q] /\ snap'[q] = snap[q]
        BY <1>2 DEF TypeOK, Serve, Validate, Lookup, Create, LoadResults, LoadVerdicts, Goto
    <2>4. ASSUME NEW run \in Runs, HasResults(r, run)', NEW x \in Names
          PROVE  Faithful(snap'[r][run][x], rows[run][x])
        <3>1. HasResults(r, run) => Faithful(snap[r][run][x], rows[run][x])
            BY DEF ReportInv, ReadsAreFaithful
        <3> USE DEF HasResults, Loaded, HasRead, ReadingResults, ReadingVerdicts, Goto, TypeOK, Baseline,
                    Current, Runs
        <3>2. CASE Validate(r)
            BY <2>4, <3>2 DEF Validate
        <3>3. CASE Lookup(r) \/ Create(r)
            BY <2>4, <3>1, <3>3 DEF Lookup, Create
        <3>4. ASSUME NEW q \in Runs, LoadResults(r, q) PROVE Faithful(snap'[r][run][x], rows[run][x])
            <4>1. CASE q = run
                BY <3>4, <4>1, ResultsFaithful DEF ReportInv
            <4>2. CASE q # run
                <5>1. snap'[r][run] = snap[r][run]
                    BY <3>4, <4>2 DEF LoadResults
                <5>2. step[r] = ReadingResults(q) /\ step'[r] = ReadingVerdicts(q)
                    BY <3>4 DEF LoadResults
                <5>3. q = Current /\ run = Baseline
                    <6>1. run \in Runs /\ q \in Runs /\ HasResults(r, run)'
                        BY <2>4
                    <6>2. CASE q = Baseline
                        <7>1. run = Current /\ step'[r] = "baseline verdicts"
                            BY ONLY <4>2, <5>2, <6>1, <6>2 DEF Runs, Baseline, Current, ReadingVerdicts
                        <7> QED BY ONLY <6>1, <7>1 DEF HasResults, Loaded, HasRead, ReadingVerdicts, Baseline, Current
                    <6> QED BY ONLY <4>2, <6>1, <6>2 DEF Runs
                <5>4. HasResults(r, run)
                    BY <5>2, <5>3
                <5> QED BY <3>1, <5>1, <5>4
            <4> QED BY <4>1, <4>2
        <3>5. ASSUME NEW q \in Runs, LoadVerdicts(r, q) PROVE Faithful(snap'[r][run][x], rows[run][x])
            <4>1. CASE q = run
                <5>1. Faithful(snap[r][run][x], rows[run][x])
                    BY <3>1, <3>5, <4>1 DEF LoadVerdicts
                <5> QED BY <3>5, <4>1, <5>1, VerdictsFaithful DEF ReportInv
            <4>2. CASE q # run
                BY <2>4, <3>1, <3>5, <4>2 DEF LoadVerdicts, AfterVerdicts
            <4> QED BY <4>1, <4>2
        <3> QED BY <1>2, <3>2, <3>3, <3>4, <3>5 DEF Serve
    <2>5. ReadsAreFaithful'
        BY <2>1, <2>3, <2>4 DEF ReportInv, ReadsAreFaithful, HasResults, Loaded, HasRead
    <2> QED BY <2>2, <2>5 DEF ReportInv
<1>3. CASE UNCHANGED vars
    BY <1>3 DEF vars, ReportInv, RowsWellFormed, ReadsAreFaithful, HasResults, Loaded, HasRead
<1> QED BY <1>1, <1>2, <1>3 DEF Next

\* A report drawn from results whose scoring was over is the one any later
\* comparison computes, although its four statements were spread over time and
\* the worker went on between them (regression/service.py, compare_runs).
THEOREM ScoredReportIsFinalHolds == Spec => []ScoredReportIsFinal
<1>1. Init => ReportInv
    <2> SUFFICES ASSUME Init PROVE ReportInv
        OBVIOUS
    <2>1. ReadsAreFaithful
        BY DEF Init, ReadsAreFaithful, HasResults, Loaded, HasRead, ReadingVerdicts
    <2>2. \A run \in Runs : rows[run] \in StartRows(run)
        BY DEF Init
    <2>3. RowsWellFormed
        BY <2>2, StartWellFormed DEF RowsWellFormed
    <2> QED BY <2>1, <2>3 DEF ReportInv
<1>2. TypeOK /\ ReportInv => ScoredReportIsFinal
    <2> SUFFICES ASSUME TypeOK, ReportInv, NEW r \in Requests,
                        step[r] \in {"lookup", "create", "conflict", "done"},
                        \A run \in Runs, x \in Names : Settled(snap[r][run][x])
                 PROVE  Computed(r) = Compare(rows[Baseline], rows[Current])
        BY DEF ScoredReportIsFinal, HasRead
    <2>1. ASSUME NEW run \in Runs PROVE snap[r][run] = rows[run]
        <3>1. snap[r] \in [Runs -> [Names -> Results]]
            BY DEF TypeOK
        <3>2. snap[r][run] \in [Names -> Results] /\ rows[run] \in [Names -> Results]
            BY <3>1 DEF TypeOK
        <3>3. ASSUME NEW x \in Names PROVE snap[r][run][x] = rows[run][x]
            <4>1. snap[r][run][x] \in Results /\ rows[run][x] \in Results
                BY <3>2
            <4>2. Faithful(snap[r][run][x], rows[run][x]) /\ WellFormed(rows[run][x])
                BY DEF ReportInv, RowsWellFormed, ReadsAreFaithful, HasResults, Loaded, HasRead
            <4> QED BY <4>1, <4>2, SettledIsFinal
        <3> QED BY <3>2, <3>3
    <2>2. Baseline \in Runs /\ Current \in Runs
        BY DEF Runs
    <2> QED BY <2>1, <2>2 DEF Computed
<1>3. Spec => [](TypeOK /\ ReadInv)
    BY CompleteReads
<1> QED BY <1>1, <1>2, <1>3, ReportStep, PTL DEF Spec

-----------------------------------------------------------------------------
(* The artifact.                                                           *)

\* The unique key of (baseline, current, policy) and the insert-only repository
\* keep a stored report as it is (db/repositories/regression.py, create).
THEOREM ArtifactIsFinalHolds == Spec => ArtifactIsFinal
<1>1. [Next]_vars => [artifact # NoReport => artifact' = artifact]_vars
    BY DEF Next, vars, Work, Serve, InsertResult, Complete, Judge, Classify, Validate, LoadResults,
           LoadVerdicts, Lookup, Create
<1> QED BY <1>1, PTL DEF Spec, ArtifactIsFinal

-----------------------------------------------------------------------------
(* Sums.  Average adds latencies with a fold, whose recursive definition   *)
(* is a CHOOSE: the lemmas show that what it chooses exists and computes a *)
(* sum.  Each argues from a smallest counterexample.                       *)

\* A non-empty collection of subsets of a finite set has a minimal member.
LEMMA MinimalSubset ==
    ASSUME NEW S, IsFiniteSet(S), NEW Bad \in SUBSET (SUBSET S), Bad # {}
    PROVE  \E T \in Bad : \A U \in Bad : U \subseteq T => U = T
<1>1. IsWellFoundedOn(StrictSubsetOrdering(S), SUBSET S)
    BY FS_StrictSubsetOrderingWellFounded, FS_FiniteSubsetsOfFinite
<1>2. PICK T \in Bad : \A U \in Bad : <<U, T>> \notin StrictSubsetOrdering(S)
    BY <1>1, WFMin
<1> QED BY <1>2 DEF StrictSubsetOrdering

\* The latencies of the cases S of one side, as module Comparison adds them.
LatencySum(side, S) == MapThenSumSet(LAMBDA x : side[x].latency, S)

\* The case the fold takes from s, and what it leaves.
Pick(s) == CHOOSE x \in s : TRUE
Rest(s) == s \ {Pick(s)}

\* A function from sets of cases to the sums of their latencies.
Adds(side, S, g) ==
    g = [s \in SUBSET S |-> IF s = {} THEN 0 ELSE side[Pick(s)].latency + g[Rest(s)]]

LEMMA RestSmaller ==
    ASSUME NEW s, s # {}
    PROVE  Pick(s) \in s /\ Rest(s) \subseteq s /\ Rest(s) # s
BY DEF Pick, Rest

\* What Adds says of one set.
LEMMA AddsStep ==
    ASSUME NEW side, NEW S, NEW g, Adds(side, S, g), NEW s \in SUBSET S
    PROVE  g[s] = IF s = {} THEN 0 ELSE side[Pick(s)].latency + g[Rest(s)]
BY DEF Adds

\* A sum depends on nothing but the latencies added.
LEMMA AddsAgree ==
    ASSUME NEW b, NEW c, NEW S, NEW T \in SUBSET S, IsFiniteSet(S),
           \A x \in T : b[x].latency = c[x].latency,
           NEW f, Adds(b, S, f), NEW g, Adds(c, T, g)
    PROVE  \A s \in SUBSET T : f[s] = g[s]
<1> DEFINE Bad == {s \in SUBSET T : f[s] # g[s]}
<1> SUFFICES ASSUME Bad # {} PROVE FALSE
    OBVIOUS
<1>1. IsFiniteSet(T) /\ Bad \in SUBSET (SUBSET T)
    BY FS_Subset
<1>2. PICK s \in Bad : \A u \in Bad : u \subseteq s => u = s
    <2> HIDE DEF Bad
    <2> QED BY <1>1, MinimalSubset
<1>3. /\ f[s] = IF s = {} THEN 0 ELSE b[Pick(s)].latency + f[Rest(s)]
      /\ g[s] = IF s = {} THEN 0 ELSE c[Pick(s)].latency + g[Rest(s)]
    BY AddsStep
<1>4. s # {}
    BY <1>3
<1>5. f[Rest(s)] = g[Rest(s)]
    BY <1>2, <1>4, RestSmaller
<1> QED BY <1>3, <1>4, <1>5, RestSmaller

\* The function the fold defines exists.
LEMMA AddsExists ==
    ASSUME NEW side, NEW S, IsFiniteSet(S)
    PROVE  \E g : Adds(side, S, g)
<1> DEFINE Bad == {s \in SUBSET S : ~ \E g : Adds(side, s, g)}
<1> SUFFICES ASSUME Bad # {} PROVE FALSE
    OBVIOUS
<1>1. PICK T \in Bad : \A u \in Bad : u \subseteq T => u = T
    <2>1. Bad \in SUBSET (SUBSET S)
        OBVIOUS
    <2> HIDE DEF Bad
    <2> QED BY <2>1, MinimalSubset
<1> DEFINE of(s) == CHOOSE g : Adds(side, s, g)
           sum   == [s \in SUBSET T |->
                       IF s = {} THEN 0 ELSE side[Pick(s)].latency + of(Rest(s))[Rest(s)]]
<1>2. \A s \in SUBSET T : s # T => Adds(side, s, of(s))
    <2> SUFFICES ASSUME NEW s \in SUBSET T, s # T PROVE Adds(side, s, of(s))
        OBVIOUS
    <2>1. \E g : Adds(side, s, g)
        BY <1>1
    <2> QED BY <2>1
<1> HIDE DEF of
<1>3. \A s \in SUBSET T : s # T => of(s)[s] = sum[s]
    <2> SUFFICES ASSUME NEW s \in SUBSET T, s # T PROVE of(s)[s] = sum[s]
        OBVIOUS
    <2>1. of(s)[s] = IF s = {} THEN 0 ELSE side[Pick(s)].latency + of(s)[Rest(s)]
        BY <1>2, AddsStep
    <2>2. CASE s = {}
        BY <2>1, <2>2
    <2>3. CASE s # {}
        <3>1. Rest(s) \in SUBSET s /\ Rest(s) # T
            BY <2>3, RestSmaller
        <3>2. Adds(side, s, of(s)) /\ Adds(side, Rest(s), of(Rest(s)))
            BY <1>2, <3>1
        <3>3. IsFiniteSet(s)
            BY FS_Subset
        <3>4. of(s)[Rest(s)] = of(Rest(s))[Rest(s)]
            BY <3>1, <3>2, <3>3, AddsAgree
        <3> QED BY <2>1, <2>3, <3>4
    <2> QED BY <2>2, <2>3
<1>4. Adds(side, T, sum)
    <2> SUFFICES ASSUME NEW s \in SUBSET T, s # {}
                 PROVE  sum[s] = side[Pick(s)].latency + sum[Rest(s)]
        BY DEF Adds
    <2>1. Rest(s) \in SUBSET T /\ Rest(s) # T
        BY RestSmaller
    <2> QED BY <1>3, <2>1
<1> QED BY <1>1, <1>4

\* The fold of a finite set of cases is its sum.
LEMMA SumIsAdded ==
    ASSUME NEW side, NEW S, IsFiniteSet(S)
    PROVE  \E g : Adds(side, S, g) /\ LatencySum(side, S) = g[S]
<1> DEFINE k == CHOOSE g : Adds(side, S, g)
<1>1. Adds(side, S, k)
    BY AddsExists
<1>2. LatencySum(side, S) = k[S]
    BY DEF LatencySum, MapThenSumSet, MapThenFoldSet, Pick, Rest, Adds
<1> QED BY <1>1, <1>2

\* Equal latencies have equal sums.
LEMMA SumAgrees ==
    ASSUME NEW b, NEW c, NEW S, IsFiniteSet(S),
           \A x \in S : b[x].latency = c[x].latency
    PROVE  LatencySum(b, S) = LatencySum(c, S)
<1>1. PICK f : Adds(b, S, f) /\ LatencySum(b, S) = f[S]
    BY SumIsAdded
<1>2. PICK g : Adds(c, S, g) /\ LatencySum(c, S) = g[S]
    BY SumIsAdded
<1> QED BY <1>1, <1>2, AddsAgree

\* Latencies sum up to a natural number, and greater ones to no less.
LEMMA SumMonotone ==
    ASSUME NEW b, NEW c, NEW S, IsFiniteSet(S),
           \A x \in S : /\ b[x].latency \in Nat /\ c[x].latency \in Nat
                        /\ b[x].latency <= c[x].latency
    PROVE  /\ LatencySum(b, S) \in Nat /\ LatencySum(c, S) \in Nat
           /\ LatencySum(b, S) <= LatencySum(c, S)
<1>1. PICK f : Adds(b, S, f) /\ LatencySum(b, S) = f[S]
    BY SumIsAdded
<1>2. PICK g : Adds(c, S, g) /\ LatencySum(c, S) = g[S]
    BY SumIsAdded
<1> DEFINE Good(s) == f[s] \in Nat /\ g[s] \in Nat /\ f[s] <= g[s]
           Bad == {s \in SUBSET S : ~Good(s)}
<1> SUFFICES ASSUME Bad # {} PROVE FALSE
    BY <1>1, <1>2
<1>3. PICK s \in Bad : \A u \in Bad : u \subseteq s => u = s
    <2>1. Bad \in SUBSET (SUBSET S)
        OBVIOUS
    <2> HIDE DEF Bad
    <2> QED BY <2>1, MinimalSubset
<1>4. /\ f[s] = IF s = {} THEN 0 ELSE b[Pick(s)].latency + f[Rest(s)]
      /\ g[s] = IF s = {} THEN 0 ELSE c[Pick(s)].latency + g[Rest(s)]
    BY <1>1, <1>2, AddsStep
<1>5. s # {}
    BY <1>4
<1>6. Good(Rest(s)) /\ Pick(s) \in S
    BY <1>3, <1>5, RestSmaller
<1>7. f[s] = b[Pick(s)].latency + f[Rest(s)] /\ g[s] = c[Pick(s)].latency + g[Rest(s)]
    BY <1>4, <1>5
<1>8. Good(s)
    BY <1>6, <1>7
<1> QED BY <1>8
-----------------------------------------------------------------------------
(* Rates and averages.                                                     *)

\* Products of naturals are ordered as their factors.
LEMMA ProductMonotone ==
    ASSUME NEW a \in Int, NEW b \in Int, NEW k \in Nat, a <= b
    PROVE  a * k \in Int /\ b * k \in Int /\ a * k <= b * k /\ k * a <= k * b
<1>1. (b - a) * k \in Nat
    OBVIOUS
<1> QED BY <1>1

\* Rounding gives an integer, the quotient of a division by a positive number.
LEMMA RoundBounds ==
    ASSUME NEW n \in Int, NEW d \in Nat \ {0}
    PROVE  /\ Round(n, d) \in Int
           /\ 2 * d * Round(n, d) <= 2 * n + d
           /\ 2 * n + d < 2 * d * (Round(n, d) + 1)
<1>1. 2 * d \in Nat \ {0} /\ 2 * n + d \in Int
    OBVIOUS
<1>2. \A m \in Int, e \in Nat \ {0} :
          m \div e \in Int /\ e * (m \div e) <= m /\ m < e * ((m \div e) + 1)
    OBVIOUS
<1> QED BY <1>1, <1>2 DEF Round

\* Rounding keeps the order of fractions.
LEMMA RoundMonotone ==
    ASSUME NEW n1 \in Int, NEW d1 \in Nat \ {0}, NEW n2 \in Int, NEW d2 \in Nat \ {0},
           n1 * d2 <= n2 * d1
    PROVE  Round(n1, d1) <= Round(n2, d2)
<1> DEFINE q1 == Round(n1, d1)
           q2 == Round(n2, d2)
<1>1. q1 \in Int /\ q2 \in Int /\ 2 * d1 * q1 <= 2 * n1 + d1 /\ 2 * n2 + d2 < 2 * d2 * (q2 + 1)
    BY RoundBounds
<1> HIDE DEF q1, q2
<1> SUFFICES ASSUME q2 + 1 <= q1 PROVE FALSE
    BY <1>1 DEF q1, q2
<1>2. d1 * d2 \in Nat \ {0}
    OBVIOUS
<1>3. (2 * d1 * q1) * d2 <= (2 * n1 + d1) * d2
    BY <1>1, ProductMonotone
<1>4. (2 * n2 + d2 + 1) * d1 <= (2 * d2 * (q2 + 1)) * d1
    BY <1>1, ProductMonotone
<1>5. (q2 + 1) * (d1 * d2) <= q1 * (d1 * d2)
    BY <1>1, <1>2, ProductMonotone
<1>6. /\ (2 * d1 * q1) * d2 = 2 * (q1 * (d1 * d2))
      /\ (2 * d2 * (q2 + 1)) * d1 = 2 * ((q2 + 1) * (d1 * d2))
      /\ (2 * n1 + d1) * d2 = 2 * (n1 * d2) + d1 * d2
      /\ (2 * n2 + d2 + 1) * d1 = 2 * (n2 * d1) + d1 * d2 + d1
    BY <1>1
<1>7. n1 * d2 \in Int /\ n2 * d1 \in Int /\ q1 * (d1 * d2) \in Int /\ (q2 + 1) * (d1 * d2) \in Int
    BY <1>1
<1> QED BY <1>2, <1>3, <1>4, <1>5, <1>6, <1>7

\* A share does not shrink when the part grows and the rest does not.
LEMMA ShareMonotone ==
    ASSUME NEW p1 \in Nat, NEW r1 \in Nat, NEW p2 \in Nat, NEW r2 \in Nat, NEW k \in Nat,
           p1 <= p2, r2 <= r1, p1 + r1 > 0, p2 + r2 > 0
    PROVE  Round(k * p1, p1 + r1) <= Round(k * p2, p2 + r2)
<1>1. p1 * r2 <= p2 * r2 /\ p2 * r2 <= p2 * r1
    BY ProductMonotone
<1>2. p1 * r2 \in Int /\ p2 * r2 \in Int /\ p2 * r1 \in Int /\ p1 * p2 \in Int
    OBVIOUS
<1>3. p1 * (p2 + r2) <= p2 * (p1 + r1)
    BY <1>1, <1>2
<1>4. p1 * (p2 + r2) \in Int /\ p2 * (p1 + r1) \in Int
    BY <1>2
<1>5. k * (p1 * (p2 + r2)) <= k * (p2 * (p1 + r1))
    BY <1>3, <1>4, ProductMonotone
<1>6. (k * p1) * (p2 + r2) = k * (p1 * (p2 + r2)) /\ (k * p2) * (p1 + r1) = k * (p2 * (p1 + r1))
    OBVIOUS
<1>7. k * p1 \in Int /\ k * p2 \in Int
    OBVIOUS
<1> QED BY <1>5, <1>6, <1>7, RoundMonotone

\* What is no increase rounds to no increase.
LEMMA RoundSign ==
    ASSUME NEW n \in Int, NEW d \in Nat \ {0}, n <= 0
    PROVE  Round(n, d) <= 0
<1>1. n * d <= 0 * d
    BY ProductMonotone
<1>2. Round(n, d) <= Round(0, d)
    BY <1>1, RoundMonotone
<1>3. Round(0, d) = 0
    <2>1. 2 * d * Round(0, d) <= d /\ d < 2 * d * (Round(0, d) + 1) /\ Round(0, d) \in Int
        BY RoundBounds
    <2> DEFINE q == Round(0, d)
    <2> HIDE DEF q
    <2>2. q \in Int /\ 2 * d * q <= d /\ d < 2 * d * (q + 1)
        BY <2>1 DEF q
    <2>3. CASE q >= 1
        <3>1. d * 1 <= d * q  BY <2>2, <2>3, ProductMonotone
        <3> QED BY <2>2, <3>1
    <2>4. CASE q <= -1
        <3>1. d * (q + 1) <= d * 0  BY <2>2, <2>4, ProductMonotone
        <3> QED BY <2>2, <3>1
    <2> QED BY <2>2, <2>3, <2>4 DEF q
<1> QED BY <1>2, <1>3, RoundBounds

-----------------------------------------------------------------------------
(* The metrics of a side.                                                  *)

Sides == [Names -> Results]

\* Sets of cases are finite.
LEMMA CasesFinite ==
    ASSUME NEW S \in SUBSET Names
    PROVE  IsFiniteSet(S) /\ Cardinality(S) \in Nat /\ (Cardinality(S) = 0 <=> S = {})
BY ComparisonAssumption, FS_Subset, FS_CardinalityType, FS_EmptySet

\* A percentage is an integer, and it does not shrink when its part grows and
\* the rest of its whole does not.
LEMMA PercentMonotone ==
    ASSUME NEW P1 \in SUBSET Names, NEW R1 \in SUBSET Names, P1 \cap R1 = {}, P1 \cup R1 # {},
           NEW P2 \in SUBSET Names, NEW R2 \in SUBSET Names, P2 \cap R2 = {}, P2 \cup R2 # {},
           P1 \subseteq P2, R2 \subseteq R1
    PROVE  /\ Percent(P1, P1 \cup R1) \in Int /\ Percent(P2, P2 \cup R2) \in Int
           /\ Percent(P1, P1 \cup R1) <= Percent(P2, P2 \cup R2)
<1> DEFINE p1 == Cardinality(P1)
           r1 == Cardinality(R1)
           p2 == Cardinality(P2)
           r2 == Cardinality(R2)
           k  == 100 * Scale
<1>1. p1 \in Nat /\ r1 \in Nat /\ p2 \in Nat /\ r2 \in Nat /\ k \in Nat
    BY CasesFinite, ComparisonAssumption
<1>2. p1 <= p2 /\ r2 <= r1
    BY CasesFinite, FS_Subset
<1>3. Cardinality(P1 \cup R1) = p1 + r1 /\ Cardinality(P2 \cup R2) = p2 + r2
    <2>1. /\ Cardinality(P1 \cup R1) = p1 + r1 - Cardinality({})
          /\ Cardinality(P2 \cup R2) = p2 + r2 - Cardinality({})
        <3>1. IsFiniteSet(P1) /\ IsFiniteSet(R1) /\ IsFiniteSet(P2) /\ IsFiniteSet(R2)
            BY CasesFinite
        <3> QED BY <3>1, FS_Union
    <2> HIDE DEF p1, r1, p2, r2
    <2> QED BY <1>1, <2>1, FS_EmptySet
<1>4. p1 + r1 > 0 /\ p2 + r2 > 0
    <2>1. Cardinality(P1 \cup R1) \in Nat \ {0} /\ Cardinality(P2 \cup R2) \in Nat \ {0}
        BY CasesFinite
    <2> HIDE DEF p1, r1, p2, r2
    <2> QED BY <1>3, <2>1
<1>5. Percent(P1, P1 \cup R1) = Round(k * p1, p1 + r1) /\ Percent(P2, P2 \cup R2) = Round(k * p2, p2 + r2)
    BY <1>3 DEF Percent
<1> HIDE DEF p1, r1, p2, r2, k
<1>6. Round(k * p1, p1 + r1) \in Int /\ Round(k * p2, p2 + r2) \in Int
    <2>1. k * p1 \in Int /\ k * p2 \in Int /\ p1 + r1 \in Nat \ {0} /\ p2 + r2 \in Nat \ {0}
        BY <1>1, <1>4
    <2> QED BY <2>1, RoundBounds
<1>7. Round(k * p1, p1 + r1) <= Round(k * p2, p2 + r2)
    BY <1>1, <1>2, <1>4, ShareMonotone
<1> QED BY <1>5, <1>6, <1>7

\* The pass rate falls only if a case lost its pass or a case came to fail.
LEMMA PassRateMonotone ==
    ASSUME NEW b \in Sides, NEW c \in Sides, NEW M \in SUBSET Names,
           Evaluated(b, M) # {}, Evaluated(c, M) # {},
           \A x \in M : /\ b[x].status = "passed" => c[x].status = "passed"
                        /\ c[x].status = "failed" => b[x].status = "failed"
    PROVE  /\ PassRate(b, M) \in Int /\ PassRate(c, M) \in Int
           /\ PassRate(b, M) <= PassRate(c, M)
<1> DEFINE Pb == WithStatus(b, M, {"passed"})
           Fb == WithStatus(b, M, {"failed"})
           Pc == WithStatus(c, M, {"passed"})
           Fc == WithStatus(c, M, {"failed"})
<1>1. /\ Pb \in SUBSET Names /\ Fb \in SUBSET Names /\ Pb \cap Fb = {}
      /\ Pc \in SUBSET Names /\ Fc \in SUBSET Names /\ Pc \cap Fc = {}
      /\ Pb \subseteq Pc /\ Fc \subseteq Fb
    BY DEF WithStatus
<1>2. Evaluated(b, M) = Pb \cup Fb /\ Evaluated(c, M) = Pc \cup Fc
    BY DEF WithStatus, Evaluated
<1>3. PassRate(b, M) = Percent(Pb, Pb \cup Fb) /\ PassRate(c, M) = Percent(Pc, Pc \cup Fc)
    BY <1>2 DEF PassRate
<1>4. Pb \cup Fb # {} /\ Pc \cup Fc # {}
    BY <1>2
<1> HIDE DEF Pb, Fb, Pc, Fc
<1>5. /\ Percent(Pb, Pb \cup Fb) \in Int /\ Percent(Pc, Pc \cup Fc) \in Int
      /\ Percent(Pb, Pb \cup Fb) <= Percent(Pc, Pc \cup Fc)
    BY <1>1, <1>4, PercentMonotone, Zenon
<1> QED BY <1>3, <1>5

\* The error rate rises only if a case came to break down.
LEMMA ErrorRateMonotone ==
    ASSUME NEW b \in Sides, NEW c \in Sides, NEW M \in SUBSET Names, M # {},
           Erroneous(c, M) \subseteq Erroneous(b, M)
    PROVE  /\ ErrorRate(b, M) \in Int /\ ErrorRate(c, M) \in Int
           /\ ErrorRate(c, M) <= ErrorRate(b, M)
<1> DEFINE Eb == Erroneous(b, M)
           Rb == M \ Eb
           Ec == Erroneous(c, M)
           Rc == M \ Ec
<1>1. Eb \subseteq M /\ Ec \subseteq M
    BY DEF Erroneous, WithStatus
<1>2. ErrorRate(b, M) = Percent(Eb, M) /\ ErrorRate(c, M) = Percent(Ec, M) /\ Ec \subseteq Eb
    BY DEF ErrorRate
<1> HIDE DEF Eb, Ec
<1>3. /\ Eb \in SUBSET Names /\ Rb \in SUBSET Names /\ Eb \cap Rb = {}
      /\ Ec \in SUBSET Names /\ Rc \in SUBSET Names /\ Ec \cap Rc = {}
      /\ Ec \subseteq Eb /\ Rb \subseteq Rc
      /\ M = Eb \cup Rb /\ M = Ec \cup Rc
    BY <1>1, <1>2
<1> HIDE DEF Rb, Rc
<1>4. Eb \cup Rb # {} /\ Ec \cup Rc # {}
    BY <1>3
<1>5. ErrorRate(b, M) = Percent(Eb, Eb \cup Rb) /\ ErrorRate(c, M) = Percent(Ec, Ec \cup Rc)
    BY <1>2, <1>3
<1>6. /\ Percent(Ec, Ec \cup Rc) \in Int /\ Percent(Eb, Eb \cup Rb) \in Int
      /\ Percent(Ec, Ec \cup Rc) <= Percent(Eb, Eb \cup Rb)
    BY <1>3, <1>4, PercentMonotone, Zenon
<1> QED BY <1>5, <1>6

\* The failure rate of a guardrail rises only if it failed a case it had not
\* failed or no longer passes one that it passed.
LEMMA FailureRateMonotone ==
    ASSUME NEW b \in Sides, NEW c \in Sides, NEW M \in SUBSET Names, NEW g \in Guardrails,
           Judged(b, M, g) # {}, Judged(c, M, g) # {},
           \A x \in M : /\ c[x].verdict[g] = "failed" => b[x].verdict[g] = "failed"
                        /\ b[x].verdict[g] = "passed" => c[x].verdict[g] = "passed"
    PROVE  /\ FailureRate(b, M, g) \in Int /\ FailureRate(c, M, g) \in Int
           /\ FailureRate(c, M, g) <= FailureRate(b, M, g)
<1> DEFINE Pb == WithVerdict(b, M, g, {"passed"})
           Fb == WithVerdict(b, M, g, {"failed"})
           Pc == WithVerdict(c, M, g, {"passed"})
           Fc == WithVerdict(c, M, g, {"failed"})
<1>1. /\ Pb \in SUBSET Names /\ Fb \in SUBSET Names /\ Fb \cap Pb = {}
      /\ Pc \in SUBSET Names /\ Fc \in SUBSET Names /\ Fc \cap Pc = {}
      /\ Pb \subseteq Pc /\ Fc \subseteq Fb
    BY DEF WithVerdict
<1>2. Judged(b, M, g) = Fb \cup Pb /\ Judged(c, M, g) = Fc \cup Pc
    BY DEF WithVerdict, Judged
<1>3. /\ FailureRate(b, M, g) = Percent(Fb, Fb \cup Pb)
      /\ FailureRate(c, M, g) = Percent(Fc, Fc \cup Pc)
    BY <1>2 DEF FailureRate
<1>4. Fb \cup Pb # {} /\ Fc \cup Pc # {}
    BY <1>2
<1> HIDE DEF Pb, Fb, Pc, Fc
<1>5. /\ Percent(Fc, Fc \cup Pc) \in Int /\ Percent(Fb, Fb \cup Pb) \in Int
      /\ Percent(Fc, Fc \cup Pc) <= Percent(Fb, Fb \cup Pb)
    BY <1>1, <1>4, PercentMonotone, Zenon
<1> QED BY <1>3, <1>5

\* Average latency of the cases that have one, as a sum over them.
LEMMA AverageIsRound ==
    ASSUME NEW side \in Sides, NEW M \in SUBSET Names, Timed(side, M) # {}
    PROVE  /\ Average(side, M) =
                  Round(Scale * LatencySum(side, Timed(side, M)), Cardinality(Timed(side, M)))
           /\ \A x \in Timed(side, M) : side[x].latency \in Nat
           /\ Timed(side, M) \in SUBSET Names
           /\ Cardinality(Timed(side, M)) \in Nat \ {0}
           /\ Scale * LatencySum(side, Timed(side, M)) \in Int
           /\ LatencySum(side, Timed(side, M)) \in Nat
           /\ Average(side, M) \in Int
<1>1. Timed(side, M) \in SUBSET Names
    BY DEF Timed
<1>2. \A x \in Timed(side, M) : side[x].latency \in Nat
    BY DEF Timed, Sides, Results
<1>3. Cardinality(Timed(side, M)) \in Nat \ {0} /\ IsFiniteSet(Timed(side, M))
    BY <1>1, CasesFinite
<1>4. \A x \in Timed(side, M) : side[x].latency <= side[x].latency
    BY <1>2
<1>5. LatencySum(side, Timed(side, M)) \in Nat
    BY <1>2, <1>3, <1>4, SumMonotone
<1>6. Scale * LatencySum(side, Timed(side, M)) \in Int
    BY <1>5, ComparisonAssumption
<1>7. Average(side, M) =
          Round(Scale * LatencySum(side, Timed(side, M)), Cardinality(Timed(side, M)))
    BY DEF Average, LatencySum
<1> QED BY <1>1, <1>2, <1>3, <1>5, <1>6, <1>7, RoundBounds

\* The average latency rises only if a case took longer or lost its latency.
LEMMA AverageMonotone ==
    ASSUME NEW b \in Sides, NEW c \in Sides, NEW M \in SUBSET Names,
           Timed(b, M) # {}, Timed(c, M) # {},
           \A x \in M : /\ ~(c[x].latency > b[x].latency)
                        /\ ~(b[x].latency # NoLatency /\ c[x].latency = NoLatency)
    PROVE  Average(c, M) <= Average(b, M)
<1>1. \A x \in M : b[x].latency \in Nat \cup {NoLatency} /\ c[x].latency \in Nat \cup {NoLatency}
    BY DEF Sides, Results
<1>2. Timed(b, M) = Timed(c, M)
    BY <1>1 DEF Timed, NoLatency
<1> DEFINE T == Timed(b, M)
           n == Cardinality(T)
           s(side) == LatencySum(side, T)
<1>3. \A x \in T : c[x].latency \in Nat /\ b[x].latency \in Nat /\ c[x].latency <= b[x].latency
    BY <1>1, <1>2 DEF Timed, NoLatency
<1>4. /\ IsFiniteSet(T) /\ n \in Nat \ {0}
      /\ Average(b, M) = Round(Scale * s(b), n) /\ Average(c, M) = Round(Scale * s(c), n)
      /\ Scale * s(b) \in Int /\ Scale * s(c) \in Int
    BY <1>2, AverageIsRound, CasesFinite
<1>5. s(b) \in Nat /\ s(c) \in Nat /\ s(c) <= s(b)
    BY <1>3, <1>4, SumMonotone
<1> HIDE DEF T, n, s
<1>6. Scale * s(c) <= Scale * s(b)
    BY <1>5, ProductMonotone, ComparisonAssumption
<1>7. (Scale * s(c)) * n <= (Scale * s(b)) * n
    BY <1>4, <1>6, ProductMonotone
<1> QED BY <1>4, <1>7, RoundMonotone

\* Every metric that is defined is an integer.
LEMMA MetricsType ==
    ASSUME NEW side \in Sides, NEW M \in SUBSET Names
    PROVE  /\ Evaluated(side, M) # {} => PassRate(side, M) \in Int
           /\ M # {} => ErrorRate(side, M) \in Int
           /\ \A g \in Guardrails : Judged(side, M, g) # {} => FailureRate(side, M, g) \in Int
           /\ Timed(side, M) # {} => Average(side, M) \in Int
BY PassRateMonotone, ErrorRateMonotone, FailureRateMonotone, AverageIsRound

-----------------------------------------------------------------------------
(* What a violation says of the metrics.                                   *)

\* The measured difference behind a violation v of c against b.
Measured(v, b, c, M) ==
    \/ v.metric = "pass_rate" /\ PassRate(b, M) > PassRate(c, M)
    \/ v.metric = "error_rate" /\ ErrorRate(c, M) > ErrorRate(b, M)
    \/ /\ v.metric = "guardrail_failure_rate" /\ v.guardrail \in Guardrails
       /\ Judged(b, M, v.guardrail) # {} /\ Judged(c, M, v.guardrail) # {}
       /\ FailureRate(c, M, v.guardrail) > FailureRate(b, M, v.guardrail)
    \/ /\ v.metric = "latency" /\ Timed(b, M) # {} /\ Timed(c, M) # {}
       /\ Average(c, M) > Average(b, M)

\* The latency criterion is relative: an increase that rounds to more than a
\* threshold is an increase of the average.
LEMMA IncreaseOfAverage ==
    ASSUME NEW before \in Int, NEW after \in Int, before > 0, NEW threshold \in Nat,
           Round(100 * Scale * (after - before), before) > threshold
    PROVE  after > before
<1> SUFFICES ASSUME after - before <= 0 PROVE FALSE
    OBVIOUS
<1> DEFINE n == 100 * Scale * (after - before)
<1>1. 100 * Scale \in Nat /\ after - before \in Int
    BY ComparisonAssumption
<1>2. n \in Int /\ n <= 0
    BY <1>1, ProductMonotone
<1>3. Round(n, before) \in Int /\ Round(n, before) <= 0
    <2> HIDE DEF n
    <2>1. before \in Nat \ {0}
        OBVIOUS
    <2> QED BY <1>2, <2>1, RoundSign, RoundBounds
<1> QED BY <1>3

\* A violation is a difference in the direction its metric calls worse: every
\* threshold is at least 0 and must be exceeded.
LEMMA ViolationMeans ==
    ASSUME NEW b \in Sides, NEW c \in Sides, NEW v \in Breaches(b, c)
    PROVE  /\ Comparable(b, c)
           /\ Matched(b, c) \in SUBSET Names /\ Matched(b, c) # {}
           /\ Evaluated(b, Matched(b, c)) # {} /\ Evaluated(c, Matched(b, c)) # {}
           /\ Measured(v, b, c, Matched(b, c))
<1> DEFINE M == Matched(b, c)
<1>1. Comparable(b, c) /\ v \in Violations(b, c, M)
    BY DEF Breaches
<1>2. Evaluated(b, M) # {} /\ Evaluated(c, M) # {} /\ M \in SUBSET Names
    BY <1>1 DEF Comparable, Matched
<1> HIDE DEF M
<1>3. M # {}
    BY <1>2 DEF Evaluated, WithStatus
<1>4. Policy.passRateDrop \in Nat /\ Policy.errorRateIncrease \in Nat
        /\ Policy.guardrailIncrease \in Nat /\ Policy.latencyIncrease \in Nat \cup {NoLimit}
    BY ComparisonAssumption
<1>5. CASE v = Violation("pass_rate", 0)
             /\ Exceeds(PassRate(b, M) - PassRate(c, M), Policy.passRateDrop)
    <2>1. PassRate(b, M) \in Int /\ PassRate(c, M) \in Int
        BY <1>2, MetricsType
    <2>2. PassRate(b, M) > PassRate(c, M)
        BY <1>4, <1>5, <2>1 DEF Exceeds
    <2>3. v.metric = "pass_rate"
        BY <1>5 DEF Violation
    <2> QED BY <1>1, <1>2, <1>3, <2>2, <2>3 DEF Measured, M
<1>6. CASE v = Violation("error_rate", 0)
             /\ Exceeds(ErrorRate(c, M) - ErrorRate(b, M), Policy.errorRateIncrease)
    <2>1. ErrorRate(b, M) \in Int /\ ErrorRate(c, M) \in Int
        BY <1>2, <1>3, MetricsType
    <2>2. ErrorRate(c, M) > ErrorRate(b, M)
        BY <1>4, <1>6, <2>1 DEF Exceeds
    <2>3. v.metric = "error_rate"
        BY <1>6 DEF Violation
    <2> QED BY <1>1, <1>2, <1>3, <2>2, <2>3 DEF Measured, M
<1>7. ASSUME NEW g \in Guardrails, v = Violation("guardrail_failure_rate", g),
             Judged(b, M, g) # {}, Judged(c, M, g) # {},
             Exceeds(FailureRate(c, M, g) - FailureRate(b, M, g), Policy.guardrailIncrease)
      PROVE  Measured(v, b, c, M)
    <2>1. FailureRate(b, M, g) \in Int /\ FailureRate(c, M, g) \in Int
        BY <1>2, <1>7, MetricsType
    <2>2. FailureRate(c, M, g) > FailureRate(b, M, g)
        BY <1>4, <1>7, <2>1 DEF Exceeds
    <2>3. v.metric = "guardrail_failure_rate" /\ v.guardrail = g
        BY <1>7 DEF Violation
    <2> QED BY <1>7, <2>2, <2>3 DEF Measured
<1>8. CASE /\ v = Violation("latency", 0) /\ Policy.latencyIncrease # NoLimit
           /\ Timed(b, M) # {} /\ Timed(c, M) # {} /\ Average(b, M) > 0
           /\ Exceeds(Round(100 * Scale * (Average(c, M) - Average(b, M)), Average(b, M)),
                      Policy.latencyIncrease)
    <2>1. Average(b, M) \in Int /\ Average(c, M) \in Int
        BY <1>2, <1>8, MetricsType
    <2>2. Average(c, M) > Average(b, M)
        BY <1>4, <1>8, <2>1, IncreaseOfAverage DEF Exceeds
    <2>3. v.metric = "latency"
        BY <1>8 DEF Violation
    <2> QED BY <1>1, <1>2, <1>3, <1>8, <2>2, <2>3 DEF Measured, M
<1> QED BY <1>1, <1>2, <1>3, <1>5, <1>6, <1>7, <1>8 DEF Violations, M

-----------------------------------------------------------------------------
(* Decisions have a direction.                                             *)

LEMMA MatchedSymmetric ==
    ASSUME NEW b, NEW c
    PROVE  Matched(b, c) = Matched(c, b)
BY DEF Matched

\* No metric is worse in both orders, whatever the two sides hold.
LEMMA NoBreachBothWays ==
    ASSUME NEW b \in Sides, NEW c \in Sides
    PROVE  Breaches(b, c) \cap Breaches(c, b) = {}
<1> SUFFICES ASSUME NEW v \in Breaches(b, c), v \in Breaches(c, b) PROVE FALSE
    OBVIOUS
<1> DEFINE M == Matched(b, c)
<1>1. /\ M \in SUBSET Names /\ M # {} /\ Evaluated(b, M) # {} /\ Evaluated(c, M) # {}
      /\ Measured(v, b, c, M) /\ Measured(v, c, b, M)
    BY ViolationMeans, MatchedSymmetric
<1> HIDE DEF M
<1>2. /\ PassRate(b, M) \in Int /\ PassRate(c, M) \in Int
      /\ ErrorRate(b, M) \in Int /\ ErrorRate(c, M) \in Int
    BY <1>1, MetricsType
<1>3. \A g \in Guardrails : Judged(b, M, g) # {} /\ Judged(c, M, g) # {}
          => FailureRate(b, M, g) \in Int /\ FailureRate(c, M, g) \in Int
    BY <1>1, MetricsType
<1>4. Timed(b, M) # {} /\ Timed(c, M) # {} => Average(b, M) \in Int /\ Average(c, M) \in Int
    BY <1>1, MetricsType
<1> QED BY <1>1, <1>2, <1>3, <1>4 DEF Measured

\* Decisions are drawn from sides in every state.
LEMMA ComparedAreSides ==
    ASSUME TypeOK, NEW p \in Compared
    PROVE  p[1] \in Sides /\ p[2] \in Sides
<1>1. CASE p = <<rows[Baseline], rows[Current]>>
    BY <1>1 DEF TypeOK, Sides, Runs
<1>2. ASSUME NEW r \in Requests, p = <<snap[r][Baseline], snap[r][Current]>>
      PROVE  p[1] \in Sides /\ p[2] \in Sides
    BY <1>2 DEF TypeOK, Sides, Runs
<1> QED BY <1>1, <1>2 DEF Compared

\* evaluate_thresholds: in every state, for any policy and whatever has been
\* read of the two runs, no metric is a violation in both orders, and a run is
\* never a regression of itself.
THEOREM NeverBothWaysHolds == Spec => []NeverBothWays
<1>1. ASSUME TypeOK PROVE NeverBothWays
    <2> SUFFICES ASSUME NEW p \in Compared, NEW i \in 1..2, NEW j \in 1..2
                 PROVE  Breaches(p[i], p[j]) \cap Breaches(p[j], p[i]) = {}
        BY DEF NeverBothWays
    <2>1. p[i] \in Sides /\ p[j] \in Sides
        BY <1>1, ComparedAreSides
    <2> QED BY <2>1, NoBreachBothWays
<1> QED BY <1>1, RegressionTypeCorrect, PTL

-----------------------------------------------------------------------------
(* Only matched cases decide.                                              *)

\* The violations over the cases M are a function of the results of M.
LEMMA ViolationsDepend ==
    ASSUME NEW b, NEW b2, NEW c, NEW c2, NEW M \in SUBSET Names,
           \A x \in M : b[x] = b2[x] /\ c[x] = c2[x]
    PROVE  Violations(b, c, M) = Violations(b2, c2, M)
<1>1. ASSUME NEW s, NEW s2, \A x \in M : s[x] = s2[x]
      PROVE  /\ PassRate(s, M) = PassRate(s2, M)
             /\ ErrorRate(s, M) = ErrorRate(s2, M)
             /\ \A g \in Guardrails : /\ Judged(s, M, g) = Judged(s2, M, g)
                                      /\ FailureRate(s, M, g) = FailureRate(s2, M, g)
             /\ Timed(s, M) = Timed(s2, M)
             /\ Average(s, M) = Average(s2, M)
    <2>1. \A S : WithStatus(s, M, S) = WithStatus(s2, M, S)
        BY <1>1 DEF WithStatus
    <2>2. \A g, V : WithVerdict(s, M, g, V) = WithVerdict(s2, M, g, V)
        BY <1>1 DEF WithVerdict
    <2>3. Timed(s, M) = Timed(s2, M) /\ Timed(s, M) \in SUBSET Names
        BY <1>1 DEF Timed
    <2>4. LatencySum(s, Timed(s, M)) = LatencySum(s2, Timed(s2, M))
        <3>1. \A x \in Timed(s, M) : s[x].latency = s2[x].latency
            BY <1>1 DEF Timed
        <3> QED BY <2>3, <3>1, CasesFinite, SumAgrees
    <2>5. Average(s, M) = Average(s2, M)
        BY <2>3, <2>4 DEF Average, LatencySum
    <2> QED BY <2>1, <2>2, <2>3, <2>5
            DEF PassRate, ErrorRate, FailureRate, Judged, Evaluated, Erroneous
<1>2. /\ PassRate(b, M) = PassRate(b2, M) /\ PassRate(c, M) = PassRate(c2, M)
      /\ ErrorRate(b, M) = ErrorRate(b2, M) /\ ErrorRate(c, M) = ErrorRate(c2, M)
      /\ Timed(b, M) = Timed(b2, M) /\ Timed(c, M) = Timed(c2, M)
      /\ Average(b, M) = Average(b2, M) /\ Average(c, M) = Average(c2, M)
    BY <1>1
<1>3. \A g \in Guardrails :
          /\ Judged(b, M, g) = Judged(b2, M, g) /\ Judged(c, M, g) = Judged(c2, M, g)
          /\ FailureRate(b, M, g) = FailureRate(b2, M, g)
          /\ FailureRate(c, M, g) = FailureRate(c2, M, g)
    BY <1>1
<1> QED BY <1>2, <1>3 DEF Violations

\* compare: results of cases the other side does not have, and cases missing
\* on both, leave the decision as it is.
THEOREM OnlyMatchedCasesDecideHolds == Spec => []OnlyMatchedCasesDecide
<1>1. ASSUME TypeOK PROVE OnlyMatchedCasesDecide
    <2> SUFFICES ASSUME NEW p \in Compared
                 PROVE  LET M == {x \in Names : p[1][x].status # "none" /\ p[2][x].status # "none"}
                        IN  Breaches(OnlyCases(p[1], M), OnlyCases(p[2], M)) = Breaches(p[1], p[2])
        BY DEF OnlyMatchedCasesDecide
    <2> DEFINE b  == p[1]
               c  == p[2]
               M  == {x \in Names : b[x].status # "none" /\ c[x].status # "none"}
               b2 == OnlyCases(b, M)
               c2 == OnlyCases(c, M)
    <2>1. M = Matched(b, c) /\ M \in SUBSET Names
        BY DEF Matched
    <2>2. \A x \in M : b[x] = b2[x] /\ c[x] = c2[x]
        BY <2>1 DEF OnlyCases
    <2>3. Matched(b2, c2) = M
        BY DEF Matched, OnlyCases, NoResult
    <2> HIDE DEF b, c, M, b2, c2
    <2>4. \A S : WithStatus(b, M, S) = WithStatus(b2, M, S) /\ WithStatus(c, M, S) = WithStatus(c2, M, S)
        BY <2>2 DEF WithStatus
    <2>5. Comparable(b, c) <=> Comparable(b2, c2)
        BY <2>1, <2>3, <2>4 DEF Comparable, Evaluated
    <2>6. Breaches(b2, c2) = Breaches(b, c)
        BY <2>1, <2>2, <2>3, <2>5, ViolationsDepend DEF Breaches
    <2> QED BY <2>6 DEF b, c, M, b2, c2
<1> QED BY <1>1, RegressionTypeCorrect, PTL

-----------------------------------------------------------------------------
(* Every violation has a cause.                                            *)

\* What a change of status is called, for the transitions that make a rate
\* worse.
LEMMA Worsening ==
    ASSUME NEW before \in ResultStatus, NEW after \in ResultStatus
    PROVE  /\ before = "passed" /\ after # "passed"
                => Transition(before, after) \in {"newly_failed", "newly_errored"}
           /\ before # "failed" /\ after = "failed"
                => Transition(before, after) \in {"newly_failed", "failure_after_error"}
           /\ before \in {"passed", "failed"} /\ after \in {"error", "executed"}
                => Transition(before, after) \in {"newly_errored", "error_transition"}
BY DEF Transition, ResultStatus

\* What explains a violation of each metric.
LEMMA ExplainsMetric ==
    ASSUME NEW v, NEW before, NEW after
    PROVE  /\ /\ v.metric = "pass_rate"
              /\ Transition(before.status, after.status)
                    \in {"newly_failed", "newly_errored", "failure_after_error"}
              => Explains(v, before, after)
           /\ /\ v.metric = "error_rate"
              /\ Transition(before.status, after.status) \in {"newly_errored", "error_transition"}
              => Explains(v, before, after)
           /\ /\ v.metric = "guardrail_failure_rate"
              /\ GuardrailWorsened(before.verdict[v.guardrail], after.verdict[v.guardrail])
              => Explains(v, before, after)
           /\ v.metric = "latency" /\ SlowedDown(before.latency, after.latency)
              => Explains(v, before, after)
BY DEF Explains

\* evaluate_thresholds and classify_case_transition: a violated rate is due to
\* a matched case whose own transition is for the worse, a violated average to
\* a case that took longer or lost its latency.
THEOREM ViolationHasCauseHolds == Spec => []ViolationHasCause
<1>1. ASSUME TypeOK PROVE ViolationHasCause
    <2> SUFFICES ASSUME NEW p \in Compared, NEW v \in Breaches(p[1], p[2])
                 PROVE  \E x \in Matched(p[1], p[2]) : Explains(v, p[1][x], p[2][x])
        BY DEF ViolationHasCause
    <2> DEFINE b == p[1]
               c == p[2]
               M == Matched(b, c)
    <2>1. b \in Sides /\ c \in Sides
        BY <1>1, ComparedAreSides
    <2>2. /\ M \in SUBSET Names /\ M # {} /\ Evaluated(b, M) # {} /\ Evaluated(c, M) # {}
          /\ Measured(v, b, c, M)
        BY <2>1, ViolationMeans
    <2>3. \A x \in M : b[x].status \in ResultStatus /\ c[x].status \in ResultStatus
        BY <2>1 DEF Matched, Sides, Results
    <2> HIDE DEF M
    <2>4. CASE v.metric = "pass_rate" /\ PassRate(b, M) > PassRate(c, M)
        <3>1. PICK x \in M : \/ b[x].status = "passed" /\ c[x].status # "passed"
                             \/ c[x].status = "failed" /\ b[x].status # "failed"
            <4> SUFFICES ASSUME \A x \in M : /\ b[x].status = "passed" => c[x].status = "passed"
                                             /\ c[x].status = "failed" => b[x].status = "failed"
                         PROVE  FALSE
                OBVIOUS
            <4> HIDE DEF b, c
            <4>1. /\ PassRate(b, M) \in Int /\ PassRate(c, M) \in Int
                  /\ PassRate(b, M) <= PassRate(c, M)
                BY <2>1, <2>2, PassRateMonotone
            <4> QED BY <2>4, <4>1
        <3>2. Explains(v, b[x], c[x])
            <4> HIDE DEF b, c
            <4>1. Transition(b[x].status, c[x].status)
                      \in {"newly_failed", "newly_errored", "failure_after_error"}
                BY <2>3, <3>1, Worsening
            <4> QED BY <2>4, <4>1, ExplainsMetric
        <3> QED BY <3>2 DEF M
    <2>5. CASE v.metric = "error_rate" /\ ErrorRate(c, M) > ErrorRate(b, M)
        <3>1. PICK x \in M : x \in Erroneous(c, M) /\ x \notin Erroneous(b, M)
            <4> HIDE DEF b, c
            <4> SUFFICES ASSUME Erroneous(c, M) \subseteq Erroneous(b, M) PROVE FALSE
                BY DEF Erroneous, WithStatus
            <4>1. /\ ErrorRate(b, M) \in Int /\ ErrorRate(c, M) \in Int
                  /\ ErrorRate(c, M) <= ErrorRate(b, M)
                BY <2>1, <2>2, ErrorRateMonotone
            <4> QED BY <2>5, <4>1
        <3>2. c[x].status \in {"error", "executed"} /\ b[x].status \in {"passed", "failed"}
            BY <2>3, <3>1 DEF Erroneous, WithStatus, ResultStatus
        <3>3. Explains(v, b[x], c[x])
            <4> HIDE DEF b, c
            <4>1. Transition(b[x].status, c[x].status) \in {"newly_errored", "error_transition"}
                BY <2>3, <3>2, Worsening
            <4> QED BY <2>5, <4>1, ExplainsMetric
        <3> QED BY <3>3 DEF M
    <2>6. CASE /\ v.metric = "guardrail_failure_rate" /\ v.guardrail \in Guardrails
               /\ Judged(b, M, v.guardrail) # {} /\ Judged(c, M, v.guardrail) # {}
               /\ FailureRate(c, M, v.guardrail) > FailureRate(b, M, v.guardrail)
        <3> DEFINE g == v.guardrail
        <3>1. PICK x \in M : \/ c[x].verdict[g] = "failed" /\ b[x].verdict[g] # "failed"
                             \/ b[x].verdict[g] = "passed" /\ c[x].verdict[g] # "passed"
            <4> SUFFICES ASSUME \A x \in M :
                                    /\ c[x].verdict[g] = "failed" => b[x].verdict[g] = "failed"
                                    /\ b[x].verdict[g] = "passed" => c[x].verdict[g] = "passed"
                         PROVE  FALSE
                OBVIOUS
            <4> HIDE DEF b, c
            <4>1. /\ FailureRate(b, M, g) \in Int /\ FailureRate(c, M, g) \in Int
                  /\ FailureRate(c, M, g) <= FailureRate(b, M, g)
                BY <2>1, <2>2, <2>6, FailureRateMonotone
            <4> QED BY <2>6, <4>1
        <3>2. Explains(v, b[x], c[x])
            <4> HIDE DEF b, c
            <4>1. GuardrailWorsened(b[x].verdict[g], c[x].verdict[g])
                BY <3>1 DEF GuardrailWorsened
            <4> QED BY <2>6, <4>1, ExplainsMetric
        <3> QED BY <3>2 DEF M
    <2>7. CASE /\ v.metric = "latency" /\ Timed(b, M) # {} /\ Timed(c, M) # {}
               /\ Average(c, M) > Average(b, M)
        <3>1. PICK x \in M : \/ c[x].latency > b[x].latency
                             \/ b[x].latency # NoLatency /\ c[x].latency = NoLatency
            <4> SUFFICES ASSUME \A x \in M : /\ ~(c[x].latency > b[x].latency)
                                             /\ ~(b[x].latency # NoLatency /\ c[x].latency = NoLatency)
                         PROVE  FALSE
                OBVIOUS
            <4> HIDE DEF b, c
            <4>1. Average(c, M) <= Average(b, M)
                BY <2>1, <2>2, <2>7, AverageMonotone
            <4>2. Average(b, M) \in Int /\ Average(c, M) \in Int
                BY <2>1, <2>2, <2>7, MetricsType
            <4> QED BY <2>7, <4>1, <4>2
        <3>2. Explains(v, b[x], c[x])
            <4> HIDE DEF b, c
            <4>1. SlowedDown(b[x].latency, c[x].latency)
                BY <3>1 DEF SlowedDown
            <4> QED BY <2>7, <4>1, ExplainsMetric
        <3> QED BY <3>2 DEF M
    <2> QED BY <2>2, <2>4, <2>5, <2>6, <2>7 DEF Measured, M
<1> QED BY <1>1, RegressionTypeCorrect, PTL

-----------------------------------------------------------------------------
(* The runs of this module live as RunLifecycle promises.                  *)

\* When one case of one run changes its status, one outcome changes.
LEMMA OneOutcome ==
    ASSUME pinned' = pinned, NEW q \in Runs, NEW x \in Names, NEW s,
           \A run \in Runs, y \in Names :
               rows'[run][y].status = IF run = q /\ y = x THEN s ELSE rows[run][y].status,
           NEW run \in Runs
    PROVE  Outcome(run)' = IF run = q /\ x \in pinned[q]
                           THEN [Outcome(run) EXCEPT ![x] = s] ELSE Outcome(run)
BY DEF Outcome

\* When no status changes, no outcome does.
LEMMA SameOutcome ==
    ASSUME pinned' = pinned, NEW run \in Runs,
           \A y \in Names : rows'[run][y].status = rows[run][y].status
    PROVE  Outcome(run)' = Outcome(run)
BY DEF Outcome

\* Every step of the worker is a step of the promised life of its run, and
\* requests are invisible in it.
LEMMA LifecycleStep ==
    TypeOK /\ [Next]_vars => \A run \in Runs : [RunOf(run)!Next]_(RunOf(run)!vars)
<1> SUFFICES ASSUME TypeOK, [Next]_vars, NEW run \in Runs
             PROVE  [RunOf(run)!Next]_(RunOf(run)!vars)
    OBVIOUS
<1> DEFINE Goal == [RunOf(run)!Next]_(RunOf(run)!vars)
<1>0. rows \in [Runs -> [Names -> Results]] /\ pinned[run] \subseteq Names
    BY PinnedNames DEF TypeOK
<1>1. ASSUME pinned' = pinned, status' = status, rows' = rows PROVE Goal
    BY <1>1 DEF RunOf!vars, Outcome
<1>2. ASSUME NEW q \in Runs, NEW x \in Names, InsertResult(q, x) PROVE Goal
    <2>1. /\ status[q] = "running" /\ x \in pinned[q] /\ rows[q][x].status = "none"
          /\ UNCHANGED <<pinned, status>>
        BY <1>2 DEF InsertResult
    <2>2. PICK s \in {"executed", "error"} :
              \A p \in Runs, y \in Names :
                  rows'[p][y].status = IF p = q /\ y = x THEN s ELSE rows[p][y].status
        <3>1. CASE rows' = [rows EXCEPT ![q][x].status = "error"]
            BY <1>0, <3>1 DEF Results
        <3>2. ASSUME NEW ms \in Latencies[q],
                     rows' = [rows EXCEPT ![q][x].status = "executed", ![q][x].latency = ms]
              PROVE  \A p \in Runs, y \in Names :
                         rows'[p][y].status = IF p = q /\ y = x THEN "executed" ELSE rows[p][y].status
            BY <1>0, <3>2 DEF Results
        <3> QED BY <1>2, <3>1, <3>2 DEF InsertResult
    <2>3. CASE q = run
        <3>1. Outcome(run)' = [Outcome(run) EXCEPT ![x] = s]
            BY <2>1, <2>2, <2>3, OneOutcome
        <3>2. Outcome(run)[x] = "none" /\ status[run] = "running" /\ UNCHANGED status[run]
            BY <2>1, <2>3 DEF Outcome
        <3>3. RunOf(run)!Record(x)
            BY <3>1, <3>2 DEF RunOf!Record
        <3> QED BY <3>3 DEF RunOf!Next
    <2>4. CASE q # run
        <3>1. pinned' = pinned /\ \A y \in Names : rows'[run][y].status = rows[run][y].status
            BY <2>1, <2>2, <2>4
        <3>2. Outcome(run)' = Outcome(run)
            BY <3>1, SameOutcome
        <3> QED BY <2>1, <3>2 DEF RunOf!vars
    <2> QED BY <2>3, <2>4
<1>3. ASSUME NEW q \in Runs, Complete(q) PROVE Goal
    <2>1. Outcome(run)' = Outcome(run)
        BY <1>3 DEF Complete, Outcome
    <2>2. CASE q = run
        <3>1. status[run] = "running" /\ status'[run] = "completed"
            BY <1>3, <2>2 DEF Complete, TypeOK
        <3>2. \A c \in Names : Outcome(run)[c] # "none"
            BY <1>3, <2>2 DEF Complete, Outcome
        <3>3. RunOf(run)!Complete
            BY <2>1, <3>1, <3>2 DEF RunOf!Complete
        <3> QED BY <3>3 DEF RunOf!Next
    <2>3. CASE q # run
        <3>1. status'[run] = status[run]
            BY <1>3, <2>3 DEF Complete, TypeOK
        <3> QED BY <2>1, <3>1 DEF RunOf!vars
    <2> QED BY <2>2, <2>3
<1>4. ASSUME NEW q \in Runs, NEW x \in Names, Judge(q, x) PROVE Goal
    <2>1. UNCHANGED <<pinned, status>> /\ \A y \in Names : rows'[run][y].status = rows[run][y].status
        BY <1>0, <1>4 DEF Judge, Results
    <2>2. Outcome(run)' = Outcome(run)
        BY <2>1, SameOutcome
    <2> QED BY <2>1, <2>2 DEF RunOf!vars
<1>5. ASSUME NEW q \in Runs, NEW x \in Names, Classify(q, x) PROVE Goal
    <2> DEFINE s == ApplyPolicy("executed", Guardrails, rows[q][x].verdict)
    <2>1. /\ status[q] = "completed" /\ rows[q][x].status = "executed"
          /\ UNCHANGED <<pinned, status>>
          /\ rows' = [rows EXCEPT ![q][x].status = s]
        BY <1>5 DEF Classify
    <2>2. s # "executed"
        <3>1. \A g \in Guardrails : rows[q][x].verdict[g] # "none"
            BY <1>5, <2>1 DEF Classify
        <3>2. ~Settled(rows[q][x])
            BY <1>5 DEF Classify
        <3> QED BY <2>1, <3>1, <3>2 DEF Settled
    <2>3. s \in {"passed", "failed"}
        BY <2>2, ScoringStatus
    <2> HIDE DEF s
    <2>4. \A p \in Runs, y \in Names :
              rows'[p][y].status = IF p = q /\ y = x THEN s ELSE rows[p][y].status
        BY <1>0, <2>1 DEF Results
    <2>5. CASE q = run /\ x \in pinned[q]
        <3>1. Outcome(run)' = [Outcome(run) EXCEPT ![x] = s]
            BY <2>1, <2>4, <2>5, OneOutcome
        <3>2. Outcome(run)[x] = "executed" /\ status[run] = "completed" /\ UNCHANGED status[run]
            BY <2>1, <2>5 DEF Outcome
        <3>3. RunOf(run)!Classify(x)
            BY <2>3, <3>1, <3>2 DEF RunOf!Classify
        <3> QED BY <3>3 DEF RunOf!Next
    <2>6. CASE ~(q = run /\ x \in pinned[q])
        <3>1. Outcome(run)' = Outcome(run)
            BY <2>1, <2>4, <2>6, OneOutcome
        <3> QED BY <2>1, <3>1 DEF RunOf!vars
    <2> QED BY <2>5, <2>6
<1>6. ASSUME NEW r \in Requests, Serve(r) PROVE Goal
    BY <1>1, <1>6 DEF Serve, Validate, Lookup, Create, LoadResults, LoadVerdicts
<1>7. ASSUME UNCHANGED vars PROVE Goal
    BY <1>1, <1>7 DEF vars
<1> HIDE DEF Goal
<1>8. ASSUME NEW q \in Runs, Work(q) PROVE Goal
    <2>1. CASE Complete(q)
        BY <1>3, <2>1
    <2>2. ASSUME NEW x \in Names, InsertResult(q, x) \/ Judge(q, x) \/ Classify(q, x) PROVE Goal
        BY <1>2, <1>4, <1>5, <2>2
    <2> QED BY <1>8, <2>1, <2>2 DEF Work
<1>9. Goal
    BY <1>6, <1>7, <1>8 DEF Next
<1> QED BY <1>9 DEF Goal

\* execute_run, the harness and score_run as a comparison meets them: for any
\* cases, latencies and policy, a run takes only steps that RunLifecycle allows.
THEOREM RunsKeepLifecycleHolds == Spec => RunsKeepLifecycle
<1>1. TypeOK /\ [Next]_vars => [\A run \in Runs : [RunOf(run)!Next]_(RunOf(run)!vars)]_vars
    BY LifecycleStep
<1> QED BY <1>1, RegressionTypeCorrect, PTL DEF Spec, RunsKeepLifecycle

=============================================================================
