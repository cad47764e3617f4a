SPECIFICATION FairSpec
CONSTANTS
    Backend = "RTU"
    Messages <- AllMessages
    Start <- Starts
    Size <- Sizes
    Samples <- Inputs
    RefusalCodes <- Codes
    MaxRequests = 2
INVARIANTS
    TypeOK
    InBounds
    AnswerAccepted
    OnlyEmptyOnesFlush
    LegalIsAccepted
PROPERTIES
    EveryRequestEnds
    ImplementsStore
CHECK_DEADLOCK FALSE
