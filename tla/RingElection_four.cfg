SPECIFICATION Spec
CONSTANTS
    G = 4
    N = 8
    CommitLen = 2
    P = 5
    Key <- FourKeys
    Degrees <- SomeDegrees
    Randoms <- FourRandoms
    RgswCount = 2
    Threads = 3
INVARIANT BenchmarkElects
PROPERTY ImplementsElection
