\* TokenAuth: one request while Redis may answer with an error.
CONSTANTS
    Kind = "token"
    Callers = {c1}
    Values = {v1}
    Malformed = Malformed
    HitTTL <- MCHitTTL
    MissTTL <- MCMissTTL
    RedisFails = TRUE
    MaxTime = 0
    MaxDbChanges = 0
    NoJob = NoJob
    NoEntry = NoEntry
    NoRows = NoRows
    NoRec = NoRec
SPECIFICATION Spec
INVARIANT CacheErrorNotSurfaced
CHECK_DEADLOCK FALSE
