SPECIFICATION FairSpec
CONSTANTS
    Settings <- SomeSettings
    Calls <- SomeCalls
    ResponseTimeout = 2
    Prompt = 1
    Late = 3
    TidMax = 2
    MaxCalls = 3
    MaxFaults = 2
INVARIANTS
    TypeOK
    OwnAnswer
    StaleIsAlike
    Recovered
    CallDeadline
PROPERTIES
    CallEnds
CHECK_DEADLOCK FALSE
