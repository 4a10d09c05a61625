CONSTANTS
    Targets <- Names2
    Files <- OneFile
    MaxSignals = 2
SPECIFICATION FairMainSpec
CHECK_DEADLOCK FALSE
PROPERTY ShutdownEnds
