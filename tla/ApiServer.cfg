CONSTANTS
    Requests = {1, 2}
    Mixes <- Pairs
    Old = Old
    NoOne = NoOne
    Limit = 1
    PoolSize = 2
    MaxCases = 0
    Policies = {"allow", "deny"}
    AuditEnabled = TRUE
    MaxWindow = 1
SPECIFICATION FairSpec
INVARIANTS WindowLimit AnswerTellsTheTruth RunsKeepTheirApplication
PROPERTIES VersionIsNeverReplaced EveryRequestAnswered
CHECK_DEADLOCK FALSE
