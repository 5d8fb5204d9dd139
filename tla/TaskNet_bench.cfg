SPECIFICATION FairSpec
CONSTANTS
    Window = 1
    MayFail = {1}
    Deployments <- Benchmarks
INVARIANTS TypeOK RightBytes CleanClose CollectsDoNotOverlap OnlyAfterKill
PROPERTIES ImplementsAllGather NobodyHangs
