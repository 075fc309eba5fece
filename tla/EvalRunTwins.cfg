CONSTANTS
    NumCases = 1
    NumGuardrails = 2
    Critical = {1}
    Deliveries = {d1, d2}
    MaxRetries = 1
    FaultKinds = {"db", "permanent", "crash", "soft", "hard", "late", "twin", "broker", "reply", "api"}
    MaxFaults = 2
SPECIFICATION Spec
SYMMETRY DeliverySymmetry
INVARIANTS TypeOK CompletedHasAllResults FailedHasCause InsertsAreFresh
CHECK_DEADLOCK FALSE
