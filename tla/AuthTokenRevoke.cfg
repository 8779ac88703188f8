\* TokenAuth: a revocation racing a refresh-ahead fetch and a miss fetch.
CONSTANTS
    Kind = "token"
    Callers = {c1, c2, c3, c4}
    Values = {v1}
    Malformed = Malformed
    HitTTL <- MCHitTTL
    MissTTL <- MCMissTTL
    RedisFails = FALSE
    MaxTime = 6
    MaxDbChanges = 1
    NoJob = NoJob
    NoEntry = NoEntry
    NoRows = NoRows
    NoRec = NoRec
SPECIFICATION Spec
PROPERTY MonotonicOutcomes
CHECK_DEADLOCK FALSE
