--------------------------- MODULE ScoringPolicy ---------------------------
(***************************************************************************)
(* The pure part of scoring: how the guardrail verdicts recorded for one   *)
(* case result decide the status of that result (apply_policy in           *)
(* evaluation/scoring.py, GuardrailPolicy in guardrails/policy.py).        *)
(***************************************************************************)
EXTENDS Naturals

CONSTANTS
    NumGuardrails,  \* how many guardrails the policy enables
    Critical        \* the ones whose failure alone fails a case

\* harness.guardrails(): numbered in execution order, deterministic ones first.
Guardrails == 1..NumGuardrails

ASSUME GuardrailAssumption ==
    /\ NumGuardrails \in Nat
    /\ Critical \subseteq Guardrails

\* GuardrailStatus: the status column of a guardrail row.
VerdictStatus == {"passed", "failed", "error"}

\* CaseStatus: the status column of a case result.
ResultStatus == {"executed", "error", "passed", "failed"}

AnyFailureFails(current, names, verdict) ==
    IF current = "error" \/ names = {}
    THEN current
    ELSE IF \E g \in names : verdict[g] = "failed" THEN "failed" ELSE "passed"

\* apply_policy: `current` is the status of the case result, `names` the
\* guardrails that have a row for it and `verdict` the statuses of those rows.
ApplyPolicy(current, names, verdict) ==
    LET criticalFailed == \E g \in names \cap Critical : verdict[g] = "failed"
        someError      == \E g \in names : verdict[g] = "error"
    IN  IF current = "error" \/ names = {}
        THEN current
        ELSE IF criticalFailed THEN "failed"
             ELSE IF someError THEN "executed" ELSE "passed"

=============================================================================
