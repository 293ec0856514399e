CONSTANTS
    MaxRuns = 2
    MaxAnswers = 1
    MaxRequeues = 0
    MaxCrashes = 0
SPECIFICATION Spec
CHECK_DEADLOCK FALSE
PROPERTIES
    OldWorkerErasesNothing
