CONSTANTS
    MaxRuns = 4
    MaxAnswers = 2
    MaxRequeues = 2
    MaxCrashes = 2
SPECIFICATION FairSpec
CHECK_DEADLOCK FALSE
INVARIANTS
    FullOnlyByApproval
    AnswersAgree
    RunningIsLeased
PROPERTIES
    WaitSettles
    LiveAnswerArrives
