----------------------------- MODULE Comparison -----------------------------
(***************************************************************************)
(* The pure part of regression comparison (evaluation/regression/          *)
(* comparison.py and models.py): from the case results of two completed    *)
(* runs to a decision and its evidence.                                    *)
(*                                                                         *)
(* A side is a function from case identities to results, a result a record *)
(* of the status, the latency and the guardrail verdicts ("none": no row). *)
(* Rates are percentages rounded to a number of decimals: integers here,   *)
(* in units of 1/Scale percent.  Logging, names and wording are left out,  *)
(* and so is the run context, which the decision never reads.              *)
(***************************************************************************)
EXTENDS ScoringPolicy, Integers, FiniteSets, FiniteSetsExt

CONSTANTS
    Names,   \* identities of test cases
    Scale,   \* 10^PRECISION
    Policy   \* RegressionThresholds, in units of 1/Scale

\* What the policy limits; a latency limit of NoLimit disables that criterion.
NoLimit == -1
ASSUME ComparisonAssumption ==
    /\ IsFiniteSet(Names)
    /\ Scale \in Nat \ {0}
    /\ Policy \in [passRateDrop : Nat, errorRateIncrease : Nat,
                   guardrailIncrease : Nat, latencyIncrease : Nat \cup {NoLimit}]

\* Only a case that was answered has a latency.
NoLatency == -1
NoResult  == [status |-> "none", latency |-> NoLatency,
              verdict |-> [g \in Guardrails |-> "none"]]

\* round_metric: the nearest unit.
Round(n, d) == (2 * n + d) \div (2 * d)
Percent(part, whole) == Round(100 * Scale * Cardinality(part), Cardinality(whole))

-----------------------------------------------------------------------------
(* Metrics of one side over the cases M.                                   *)

WithStatus(side, M, S) == {x \in M : side[x].status \in S}
EvaluatedOrNot(side, M) == WithStatus(side, M, {"passed", "failed", "executed"})
Evaluated(side, M)     == WithStatus(side, M, {"passed", "failed"})
Erroneous(side, M)     == WithStatus(side, M, {"error", "executed"})

PassRate(side, M)  == Percent(WithStatus(side, M, {"passed"}), Evaluated(side, M))
ErrorRate(side, M) == Percent(Erroneous(side, M), M)

\* A verdict is a row that passed or failed; errors and missing rows are not.
WithVerdict(side, M, g, V) == {x \in M : side[x].verdict[g] \in V}
Judged(side, M, g)         == WithVerdict(side, M, g, {"passed", "failed"})
FailureRate(side, M, g)    == Percent(WithVerdict(side, M, g, {"failed"}), Judged(side, M, g))

Timed(side, M)   == {x \in M : side[x].latency # NoLatency}
Average(side, M) ==
    LET timed == Timed(side, M)
    IN  Round(Scale * MapThenSumSet(LAMBDA x : side[x].latency, timed), Cardinality(timed))

-----------------------------------------------------------------------------
(* Thresholds.                                                             *)

\* A metric exceeds its threshold strictly: equal is no regression.
AtLeast(delta, threshold) == delta >= threshold
Exceeds(delta, threshold) == delta > threshold

Violation(metric, guardrail) == [metric |-> metric, guardrail |-> guardrail]

\* evaluate_thresholds, over the matched cases M.
Violations(b, c, M) ==
    {v \in {Violation("pass_rate", 0)} :
        Exceeds(PassRate(b, M) - PassRate(c, M), Policy.passRateDrop)}
    \cup
    {v \in {Violation("error_rate", 0)} :
        Exceeds(ErrorRate(c, M) - ErrorRate(b, M), Policy.errorRateIncrease)}
    \cup
    {Violation("guardrail_failure_rate", g) : g \in
        {h \in Guardrails :
            /\ Judged(b, M, h) # {} /\ Judged(c, M, h) # {}
            /\ Exceeds(FailureRate(c, M, h) - FailureRate(b, M, h), Policy.guardrailIncrease)}}
    \cup
    {v \in {Violation("latency", 0)} :
        /\ Policy.latencyIncrease # NoLimit
        /\ Timed(b, M) # {} /\ Timed(c, M) # {}
        /\ Average(b, M) > 0
        /\ Exceeds(Round(100 * Scale * (Average(c, M) - Average(b, M)), Average(b, M)),
                   Policy.latencyIncrease)}

-----------------------------------------------------------------------------
(* Pairing, findings, decision.                                            *)

\* pair_case_results: identities with a result on both sides.
EitherSide(b, c) == {x \in Names : b[x].status # "none" \/ c[x].status # "none"}
Matched(b, c) == {x \in Names : b[x].status # "none" /\ c[x].status # "none"}

\* classify_case_transition.
Transition(before, after) ==
    CASE before = "passed" -> (CASE after = "passed" -> "stable_pass"
                                 [] after = "failed" -> "newly_failed"
                                 [] OTHER            -> "newly_errored")
      [] before = "failed" -> (CASE after = "passed" -> "fixed"
                                 [] after = "failed" -> "stable_failure"
                                 [] OTHER            -> "error_transition")
      [] OTHER             -> (CASE after = "passed" -> "recovered"
                                 [] after = "failed" -> "failure_after_error"
                                 [] OTHER            -> "stable_error")

\* The transitions a report lists case by case.
ReportedTransitions ==
    {"newly_failed", "newly_errored", "fixed", "stable_failure", "error_transition", "recovered"}

Undergoing(b, c, t) == {x \in Matched(b, c) : Transition(b[x].status, c[x].status) = t}

\* Both sides have a semantic outcome among the matched cases.
Comparable(b, c) ==
    LET M == Matched(b, c) IN Evaluated(b, M) # {} /\ Evaluated(c, M) # {}

Breaches(b, c) == IF Comparable(b, c) THEN Violations(b, c, Matched(b, c)) ELSE {}

\* compare: the report of a baseline b and a current run c.
Compare(b, c) ==
    LET violations == Breaches(b, c)
    IN  [result     |-> IF violations # {} THEN "regression_detected"
                        ELSE IF Comparable(b, c) THEN "no_regression" ELSE "not_comparable",
         violations |-> violations,
         findings   |-> [t \in ReportedTransitions |-> Undergoing(b, c, t)],
         new        |-> {x \in Names : b[x].status = "none" /\ c[x].status # "none"},
         removed    |-> {x \in Names : b[x].status # "none" /\ c[x].status = "none"}]

=============================================================================
