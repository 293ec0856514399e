CONSTANTS
    Users = {u1, u2}
    Operations = {"retry", "handoff"}
    NoUser = NoUser
    MaxAttempts = 3
    MaxChildren = 2
    MaxRequeues = 1
    MaxCrashes = 1
    MaxFaults = 1
SYMMETRY Symmetry
SPECIFICATION Spec
CHECK_DEADLOCK FALSE
INVARIANTS
    EvidenceKept
    OneSuccessorUnderLock
PROPERTIES
    FreshStart
