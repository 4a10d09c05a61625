CONSTANTS
    hook = hook
    Targets <- OneTarget
    Delays <- ThreeAttempts
    MaxRetryAfter = 3
    RequestTimeout = 3
    MinTimeout = 2
    Delivery = 6
    BodyLimit = 2
    MinChunk = 2
    MaxChunk = 3
    HeaderWaits = 2
    Statuses <- SomeStatuses
    SuccessCodes <- Codes
    RetryAfters <- Headers
SPECIFICATION FairExchangeSpec
CHECK_DEADLOCK FALSE
INVARIANTS
    ExchangeTypeOK
    RequestIsBounded
    SkippedSentNothing
    SessionsAreReleased
PROPERTIES
    RetryAfterHonoured
    ImplementsFanOut
    EverySendEnds
