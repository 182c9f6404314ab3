SPECIFICATION Spec
CONSTANTS
    None = None
    Ports = {p1, p2}
    Lifetime <- Lifetimes
    MaxAttempts = 2
    MaxSessions = 2
    MaxRetries = 2
    MaxRestarts = 1
    MaxTime = 2
    MaxCopies = 1
INVARIANTS
    TypeOK ServedOnce BothCidsRoute EndsAgree OnlyValidatedAddresses TokenSparesRetry
    RetryParametersMatch FailureNeedsTwoSessions
SYMMETRY AnyPort
CHECK_DEADLOCK FALSE
