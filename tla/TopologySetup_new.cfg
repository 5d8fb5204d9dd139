SPECIFICATION FairSpec
CONSTANTS
    Nets <- SmallNets
    MaxTries = 2
INVARIANTS TypeOK FullyConnected OppositeRoles
PROPERTY WaitsOnlyForPanicked
CHECK_DEADLOCK FALSE
