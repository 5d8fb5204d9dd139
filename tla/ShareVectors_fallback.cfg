SPECIFICATION Spec
CONSTANTS
    Word = 8
    G = 3
    ShareLen = 4
    Modulus = 2
    Fast = FALSE
INVARIANT SumsPlaceByPlace
