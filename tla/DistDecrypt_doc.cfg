SPECIFICATION Spec
CONSTANTS
    Word = 256
    G = 2
    Q = 101
    P = 4
    Noises <- UnitNoise
    Masks <- SmallMasks
    Shares <- SomeShares
INVARIANT RecoversDeltaM
