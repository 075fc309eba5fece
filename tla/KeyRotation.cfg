CONSTANTS
    NumApps = 3
    Initial = 2
    BatchSize = 1
    MaxSecrets = 2
    MaxCrashes = 1
SPECIFICATION FairSpec
INVARIANTS OnlyMissedAreLost
PROPERTIES PlaintextPreserved Converges
CHECK_DEADLOCK FALSE
