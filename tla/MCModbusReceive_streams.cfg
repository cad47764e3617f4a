SPECIFICATION FairSpec
CONSTANTS
    Streams <- AllStreams
    Contexts <- Settings
    Portions <- Pieces
    Horizon = 6
INVARIANTS
    TypeOK
    BufferBound
    StaysInMessage
    WholeIsRead
    ReceiveDeadline
PROPERTIES
    ConfirmationEnds
    HalfMessageEnds
CHECK_DEADLOCK FALSE
