CONSTANTS
    Names = {1, 2}
    Scale = 100
    Policy <- Strict
    NumGuardrails = 1
    Critical = {1}
    Requests = {q1, q2}
    Pinnings <- BothPinnings
    Latencies <- Slower
    Evolving = {"current"}
SPECIFICATION Spec
SYMMETRY RequestSymmetry
INVARIANTS NeverBothWays OnlyMatchedCasesDecide ViolationHasCause CompleteRunsOnly ScoredReportIsFinal
PROPERTIES ArtifactIsFinal RunsKeepLifecycle
CHECK_DEADLOCK FALSE
