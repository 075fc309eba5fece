CONSTANTS
    NumCases = 2
    NumGuardrails = 2
    Critical = {1}
    Deliveries = {d1, d2}
    MaxRetries = 2
    FaultKinds = {"db", "crash", "late"}
    MaxFaults = 2
SPECIFICATION FairSpec
INVARIANTS CompletedIsScored
PROPERTIES EventuallySettled
CHECK_DEADLOCK FALSE
