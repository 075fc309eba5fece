CONSTANTS
    Retries = 2
    MaxPolls = 3
    MaxCases = 2
SPECIFICATION Spec
INVARIANTS ZeroMeansSuccess
CHECK_DEADLOCK FALSE
