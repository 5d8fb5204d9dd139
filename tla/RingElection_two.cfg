SPECIFICATION Spec
CONSTANTS
    G = 2
    N = 16
    CommitLen = 4
    P = 5
    Key <- TwoKeys
    Degrees <- AllDegrees
    Randoms <- TwoRandoms
    RgswCount = 2
    Threads = 1
INVARIANTS TypeOK AnnouncedIsLeader ElectsOne
