\* Check and charge of one call over every user snapshot of the bounded balances.
CONSTANTS
    Apis <- MCApis
    Actions <- MCActions
    NoMin = NoMin
    Resolutions = {1, 2, 3, 4}
    Balances <- MCBalances
    Overdrafts = {0, 250}
    RequestedSizes <- MCRequestedSizes
SPECIFICATION Spec
INVARIANT ChargeMatchesReport
CHECK_DEADLOCK FALSE
