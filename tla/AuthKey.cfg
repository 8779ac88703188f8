\* KeyAuth: two requests, two key values, Redis errors, one row change;
\* no symmetry, as the liveness property is checked too.
CONSTANTS
    Kind = "key"
    Callers = {c1, c2}
    Values = {v1, v2}
    Malformed = Malformed
    HitTTL <- MCHitTTL
    MissTTL <- MCMissTTL
    RedisFails = TRUE
    MaxTime = 6
    MaxDbChanges = 1
    NoJob = NoJob
    NoEntry = NoEntry
    NoRows = NoRows
    NoRec = NoRec
SPECIFICATION Spec
PROPERTY EveryRequestAnswered
CHECK_DEADLOCK FALSE
