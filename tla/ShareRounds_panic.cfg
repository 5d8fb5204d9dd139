SPECIFICATION FairSpec
CONSTANTS
    G = 4
    Calls <- ShortCalls
    Window = 2
    MayPanic = {1, 2}
INVARIANTS RightChunks HalfDuplex
PROPERTIES ImplementsAllGather NobodyHangs
