SPECIFICATION FairSpec
CONSTANTS
    G = 3
    MaxRetries = 2
    MayFail = {1, 2}
INVARIANTS TypeOK RightPeer OnlyErrorsMissing GivenUpStallsPeer
PROPERTIES NeverReplaced ReturnsUnlessGivenUp
CHECK_DEADLOCK FALSE
