CONSTANTS
    Actors = {"runner"}
    Maintainers = {"runner"}
    StageOrder <- MCTwoStages
    UncertainStages <- MCUncertainStages
    CoreStages <- MCCoreStages
    Deferred <- MCDeferred
    MaxAttempts = 3
    ShortBackoff = 1
    LongBackoff = 2
    NoActor = NoActor
    MaxOutcomes = 2
    MaxCrashes = 1
SPECIFICATION FairSpec
CHECK_DEADLOCK FALSE
INVARIANTS
    ReceiptTrue
PROPERTIES
    ConfirmedNeverRepeated
    EveryStageSettles
