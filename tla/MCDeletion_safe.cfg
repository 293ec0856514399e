CONSTANTS
    Deleters = {"cli"}
    Targets <- MCTargets
    Ids = {"d1", "d2"}
    NoId = NoId
    MaxChains = 2
    MaxIterations = 2
    MaxReopens = 1
    MaxCrashes = 1
    MaxFaults = 2
SPECIFICATION FairSpec
CHECK_DEADLOCK FALSE
INVARIANTS
    ReceiptsTrue
    CodeNeverShared
PROPERTIES
    DeletionSettles
