\* TokenAuth: two concurrent requests, two token values, Redis errors, one
\* row change. Safety and liveness in one run; no
\* symmetry (unsound for liveness).
CONSTANTS
    Kind = "token"
    Callers = {c1, c2}
    Values = {v1, v2}
    Malformed = Malformed
    HitTTL <- MCHitTTL
    MissTTL <- MCMissTTL
    RedisFails = TRUE
    MaxTime = 6
    MaxDbChanges = 1
    NoJob = NoJob
    NoEntry = NoEntry
    NoRows = NoRows
    NoRec = NoRec
SPECIFICATION Spec
INVARIANT TypeOK
INVARIANT SingleflightMiss
INVARIANT DbWaitersTracked
INVARIANT NoOrphanWaiter
PROPERTY EveryRequestAnswered
CHECK_DEADLOCK FALSE
