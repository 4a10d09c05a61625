CONSTANTS
    slack = slack
    line = line
    front = front
    back = back
    Targets <- OneTarget
    Presses <- OnePress
    Capacity = 1
    RetryBase = 1
    RetryMax = 1
    MaxRecords = 2
    AttemptCap = 1
    Horizon = 1
    ConfigMayChange = FALSE
    MaxMishaps = 3
SPECIFICATION FairServiceSpec
PROPERTY AllAlertsSettled
