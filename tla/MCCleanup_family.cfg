CONSTANTS
    Primary = "p"
    AuxOrder <- MCTwoAux
    Kinds <- MCFamily
    Followed <- MCFollowedFamily
    Container = TRUE
    Parked = TRUE
    Processes = {"runner"}
    Modes <- MCModes
    NoProcess = NoProcess
    NoSession = NoSession
    MaxAttempts = 3
    ShortBackoff = 1
    LongBackoff = 2
    MaxRuns = 2
    MaxCrashes = 1
    MaxAcks = 0
SPECIFICATION CodexFairSpec
CHECK_DEADLOCK FALSE
PROPERTIES
    DescendantsFirst
    CleanupSettles
