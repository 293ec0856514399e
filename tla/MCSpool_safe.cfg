CONSTANTS
    Calls = {q1, q2}
    NoCall = NoCall
    MaxStarts = 2
    MaxSignals = 1
    MaxDeaths = 1
SPECIFICATION SpoolFairSpec
CHECK_DEADLOCK FALSE
INVARIANTS
    ExecutedAsAnswered
PROPERTIES
    GivenUpStaysUndone
    SpoolDrains
