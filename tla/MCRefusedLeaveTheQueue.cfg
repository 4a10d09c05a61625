CONSTANTS
    slack = slack
    line = line
    front = front
    back = back
    Targets <- TwoTargets
    Presses <- OnePress
    Capacity = 1
    RetryBase = 1
    RetryMax = 1
    MaxRecords = 1
    AttemptCap = 1
    Horizon = 1
    ConfigMayChange = TRUE
    MaxMishaps = 1
SPECIFICATION ServiceSpec
PROPERTY RefusedLeaveTheQueue
