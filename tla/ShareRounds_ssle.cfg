SPECIFICATION FairSpec
CONSTANTS
    G = 4
    Calls <- SsleCalls
    Window = 1
    MayPanic = {}
INVARIANTS TypeOK RightChunks Barrier CleanClose
PROPERTIES ImplementsAllGather Termination
