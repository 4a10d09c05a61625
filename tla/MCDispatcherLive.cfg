CONSTANTS
    slack = slack
    line = line
    talk = talk
    Targets <- TwoTargets
    Enabled <- TwoTargets
    MaxParallel = 2
    MaxAttempts = 1
    MonitorTimesOut = TRUE
    HandlerMayFail = TRUE
    MaxCalls = 1
SPECIFICATION FairSpec
CHECK_DEADLOCK FALSE
PROPERTIES
    DispatchEnds
    CleanUpHappens
