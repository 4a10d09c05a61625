CONSTANTS
    slack = slack
    line = line
    talk = talk
    Targets <- TwoTargets
    Enabled <- TwoTargets
    MaxParallel = 2
    MaxAttempts = 2
    MonitorTimesOut = TRUE
    HandlerMayFail = FALSE
    MaxCalls = 1
SPECIFICATION Spec
CHECK_DEADLOCK FALSE
INVARIANT SuccessIsReported
