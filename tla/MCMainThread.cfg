CONSTANTS
    Targets <- Names2
    Files <- SomeFiles
    MaxSignals = 2
SPECIFICATION FairMainSpec
CHECK_DEADLOCK FALSE
INVARIANTS
    MainTypeOK
    AcceptedIsSound
    ReleasedUnlessAborted
    WorkerKeepsItsObjects
    ExitCodeIsHonest
    GraceFromTheSignal
    OneSignalNeverBlocks
PROPERTY ShutdownEndsUnlessBlocked
