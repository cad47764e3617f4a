SPECIFICATION FairSpec
CONSTANTS
    MAX_INV_NUM = 3
    SerialSize = 24
    DC_NUM_MAX = 12
    UCharRange = 256
    UIntRange = 16
    Atoi <- Numbers
    Commands <- SomeCommands
    Files <- SomeFiles
INVARIANTS
    TypeOK
    RunsAsGiven
    UndefinedOnlyBeyondLimits
PROPERTIES
    StartEnds
CHECK_DEADLOCK FALSE
