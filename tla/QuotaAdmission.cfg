CONSTANTS
    Requests = {r1, r2}
    NoOne = NoOne
    KindsInUse = {"case", "application", "evaluation", "test"}
    LimitRows <- Either
    Horizon = 1
    DayLength = 2
    LastStart = 2
    MaxTime = 4
    AuditEnabled = TRUE
SPECIFICATION FairSpec
INVARIANTS QuotasHold
PROPERTIES ImplementsLedger EveryRequestAnswered CapacityReturns
CHECK_DEADLOCK FALSE
