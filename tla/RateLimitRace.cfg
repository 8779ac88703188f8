\* Two concurrent reports for one user, Redis never failing.
CONSTANTS
    Reports = {r1, r2}
    TTL = 3
    RedisFails = FALSE
    MaxTime = 4
SPECIFICATION Spec
INVARIANT OnePublishPerWindow
CHECK_DEADLOCK FALSE
