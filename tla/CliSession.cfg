CONSTANTS
    Retries = 2
    MaxPolls = 3
    MaxCases = 2
SPECIFICATION FairSpec
INVARIANTS WritesOnceInOrder ExitIsEarned
PROPERTIES EventuallyExits
CHECK_DEADLOCK FALSE
