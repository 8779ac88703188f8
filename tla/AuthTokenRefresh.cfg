\* TokenAuth: refresh-ahead next to the lookups map, one token value.
CONSTANTS
    Kind = "token"
    Callers = {c1, c2, c3}
    Values = {v1}
    Malformed = Malformed
    HitTTL <- MCHitTTL
    MissTTL <- MCMissTTL
    RedisFails = FALSE
    MaxTime = 4
    MaxDbChanges = 0
    NoJob = NoJob
    NoEntry = NoEntry
    NoRows = NoRows
    NoRec = NoRec
SPECIFICATION Spec
INVARIANT OneResolutionInFlight
CHECK_DEADLOCK FALSE
