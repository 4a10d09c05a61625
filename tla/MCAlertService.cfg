CONSTANTS
    slack = slack
    line = line
    front = front
    back = back
    Targets <- TwoTargets
    Presses <- TwoPresses
    Capacity = 1
    RetryBase = 1
    RetryMax = 1
    MaxRecords = 2
    AttemptCap = 1
    Horizon = 1
    ConfigMayChange = TRUE
    MaxMishaps = 1
SPECIFICATION ServiceSpec
SYMMETRY ServiceSymmetry
INVARIANTS
    ServiceTypeOK
    RequestsAreOwed
    StoreOutlivesReporters
PROPERTIES
    FollowsQueueContract
    NothingDroppedUntried
