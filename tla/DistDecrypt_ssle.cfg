SPECIFICATION Spec
CONSTANTS
    Word = 256
    G = 3
    Q = 101
    P = 4
    Noises <- UnitNoise
    Masks <- SmallMasks
    Shares <- SomeShares
INVARIANTS TypeOK Recovered ResultsAgree OpensMaskedError MaskedModQPrime BenchmarkAgrees
