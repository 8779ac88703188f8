\* KeyAuth: two concurrent requests for one unseen key.
CONSTANTS
    Kind = "key"
    Callers = {c1, c2}
    Values = {v1}
    Malformed = Malformed
    HitTTL <- MCHitTTL
    MissTTL <- MCMissTTL
    RedisFails = FALSE
    MaxTime = 0
    MaxDbChanges = 0
    NoJob = NoJob
    NoEntry = NoEntry
    NoRows = NoRows
    NoRec = NoRec
SPECIFICATION Spec
INVARIANT SingleflightMiss
CHECK_DEADLOCK FALSE
