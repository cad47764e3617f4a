SPECIFICATION Spec
CONSTANTS
    Streams <- AllStreams
    Contexts <- Settings
    Portions <- Pieces
    Horizon = 3
INVARIANTS
    ReturnsNumberOfValues
CHECK_DEADLOCK FALSE
