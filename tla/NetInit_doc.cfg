SPECIFICATION Spec
CONSTANTS
    G = 3
    MaxRetries = 2
    MayFail = {}
INVARIANT OkMeansConnected
CHECK_DEADLOCK FALSE
