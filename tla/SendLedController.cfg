CONSTANT MaxGeneration = 7
SPECIFICATION FairLedSpec
CHECK_DEADLOCK FALSE
INVARIANTS
    LedTypeOK
    DarkWhenQuiet
    SuccessIsSteady
PROPERTIES
    ClosedForGood
    DoesNotStayLit
