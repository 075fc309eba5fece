CONSTANTS
    NumCases = 2
    NumGuardrails = 1
    Critical = {1}
    Deliveries = {d1, d2}
    MaxRetries = 1
    FaultKinds = {"db"}
    MaxFaults = 1
SPECIFICATION Spec
INVARIANTS RetryFindsRunActive
CHECK_DEADLOCK FALSE
