\* Token acceptability over rows with positive expires_in, the byKey
\* resolution over every small api_keys table, batch and row order, and
\* the geometry parsers over every value at the bounds of their limits,
\* and the server's start-up and health probes.
CONSTANTS
    Null = Null
    ExpiresIns = {Null, 1, 2}
    MaxNow = 10
    Ids = {k1, k2, k3}
    Users = {u1, u2}
    ShortNums = {0, 9, 10, 50, 51, 100, 101, 500, 501, 1000, 100000}
    LongNums = {50, 51, 501}
    MaxAttempts = 2
SPECIFICATION Spec
INVARIANT AcceptedOnlyIfValid
PROPERTY RejectionIsFinal
INVARIANT BothIdentifiersResolve
INVARIANT ParsedAsDocumented
PROPERTY ProbesAnswerAsIntended
PROPERTY ServerStarts
CHECK_DEADLOCK FALSE
