CONSTANTS
    Workers = {w1, w2}
    NoWorker = NoWorker
    MaxCrashes = 1
    MaxRestarts = 1
    MaxAborts = 1
SPECIFICATION FairSpec
CHECK_DEADLOCK FALSE
INVARIANTS
    LeaseFollowsRun
    StatusBacked
PROPERTIES
    LivePointerKept
    ResultOutlivesInfrastructure
    RunSettles
    LostRunReconciled
