CONSTANTS
    slack = slack
    line = line
    talk = talk
    Targets <- TwoTargets
    Enabled <- TwoTargets
    MaxParallel = 2
    MaxAttempts = 1
    MonitorTimesOut = TRUE
    HandlerMayFail = FALSE
    MaxCalls = 2
SPECIFICATION Spec
SYMMETRY TargetSymmetry
CHECK_DEADLOCK FALSE
PROPERTIES
    ImplementsFanOut
    LateAnswersAreRecorded
