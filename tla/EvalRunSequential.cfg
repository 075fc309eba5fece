CONSTANTS
    NumCases = 2
    NumGuardrails = 2
    Critical = {1}
    Deliveries = {d1, d2}
    MaxRetries = 1
    FaultKinds = {"db", "permanent", "crash", "soft", "hard", "late", "broker", "api"}
    MaxFaults = 3
SPECIFICATION Spec
SYMMETRY DeliverySymmetry
INVARIANTS OneResultPerCase ScoreMatchesVerdicts CompletedHasAllResults StrandedHasCause
PROPERTIES TerminalIsFinal ImplementsLifecycle
CHECK_DEADLOCK FALSE
