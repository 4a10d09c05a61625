CONSTANTS
    slack = slack
    line = line
    talk = talk
    Targets <- ThreeTargets
    Enabled <- ThreeTargets
    MaxParallel = 2
    MaxAttempts = 2
    MonitorTimesOut = TRUE
    HandlerMayFail = TRUE
    MaxCalls = 1
SPECIFICATION Spec
SYMMETRY TargetSymmetry
CHECK_DEADLOCK FALSE
INVARIANTS
    TypeOK
    TransportOutlivesRequests
PROPERTIES
    ImplementsFanOut
