CONSTANTS
    Primary = "p"
    AuxOrder <- MCOneAux
    Kinds <- MCMixed
    Followed <- MCFollowed
    Container = FALSE
    Parked = FALSE
    Processes = {"runner", "cli"}
    Modes <- MCModes
    NoProcess = NoProcess
    NoSession = NoSession
    MaxAttempts = 2
    ShortBackoff = 1
    LongBackoff = 2
    MaxRuns = 2
    MaxCrashes = 1
    MaxAcks = 1
SPECIFICATION CodexSpec
CHECK_DEADLOCK FALSE
PROPERTIES
    DeletionEarned
    ResolvedIsFinal
    RetryWaitsForCleanup
    KeepsLedger
