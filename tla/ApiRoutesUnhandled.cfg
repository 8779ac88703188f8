\* One request through the middleware and any authenticated route; is every rejected promise caught?
CONSTANTS
    Requests = {r1}
    Scopes = {s1}
    Tries <- MCTries
    TryDelayMs <- MCTryDelayMs
    Sides <- MCSides
    MaxInputPixels <- MCMaxInputPixels
    Percents <- MCPercents
    Pixels <- MCPixels
SPECIFICATION Spec
INVARIANT NoUnhandledRejection
CHECK_DEADLOCK FALSE
