CONSTANTS
    Actors = {"worker", "runner"}
    Maintainers = {"runner"}
    StageOrder <- MCIndexStages
    UncertainStages <- MCUncertainStages
    CoreStages <- MCCoreStages
    Deferred <- MCDeferred
    MaxAttempts = 2
    ShortBackoff = 1
    LongBackoff = 2
    NoActor = NoActor
    MaxOutcomes = 2
    MaxCrashes = 1
SPECIFICATION Spec
CHECK_DEADLOCK FALSE
INVARIANTS
    ConfirmedWasDelivered
