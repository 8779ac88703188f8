\* TokenAuth: one token value with no row, so every lookup caches "not
\* found"; two requests and enough time for the entry to near its missTTL.
CONSTANTS
    Kind = "token"
    Callers = {c1, c2}
    Values = {v1}
    Malformed = Malformed
    HitTTL <- MCHitTTL
    MissTTL <- MCMissTTL
    RedisFails = FALSE
    MaxTime = 7
    MaxDbChanges = 0
    NoJob = NoJob
    NoEntry = NoEntry
    NoRows = NoRows
    NoRec = NoRec
SPECIFICATION Spec
PROPERTY NegativeEntryNotRequeried
CHECK_DEADLOCK FALSE
