CONSTANTS
    NumApps = 2
    Initial = 2
    BatchSize = 2
    MaxSecrets = 2
    MaxCrashes = 0
SPECIFICATION Spec
INVARIANTS LastSecretKept
CHECK_DEADLOCK FALSE
