\* One request through the middleware and the removebg route (requests share no state here).
CONSTANTS
    Requests = {r1}
    Scopes = {s1}
    Tries <- MCTries
    TryDelayMs <- MCTryDelayMs
    Sides <- MCSides
    MaxInputPixels <- MCMaxInputPixels
    Percents <- MCPercents
    Pixels <- MCPixels
SPECIFICATION Spec
INVARIANT TypeOK
INVARIANT HandlerOnlyIfAuthorized
INVARIANT RetriesBounded
PROPERTY NotFoundNeverRetried
INVARIANT AtMostOneResponse
INVARIANT ChargedOnlyForDeliveredImage
INVARIANT RoiWithinImage
PROPERTY EveryRequestAnswered
CHECK_DEADLOCK FALSE
