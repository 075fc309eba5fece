CONSTANTS
    NumCases = 2
    Deterministic = {"pii"}
    Judges = {"safety"}
    MaxAttempts <- Attempts
    MaxRedirects = 2
    PoolSize = 2
    Statuses = {200, 302, 307, 401, 404, 429, 500, 503}
SPECIFICATION FairSpec
INVARIANTS ConnectionsAccounted BlamesTheLastAttempt PromptDelivered NoSilentPass
PROPERTIES AsksAgainOnlyIfTransient EveryCaseAnswered
CHECK_DEADLOCK FALSE
