CONSTANTS
    slack = slack
    line = line
    Targets <- MCTargets
    Capacity = 1
    RetryBase = 1
    RetryMax = 2
    MaxRecords = 3
    AttemptCap = 2
    Horizon = 2
SPECIFICATION Spec
SYMMETRY TargetSymmetry
CHECK_DEADLOCK TRUE
INVARIANTS
    TypeOK
    NoStrandedRow
    BacklogBounded
    SnapshotIsCurrent
    IndInv
PROPERTY ImplementsOutbox
