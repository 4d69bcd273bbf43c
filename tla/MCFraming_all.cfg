SPECIFICATION Spec
CONSTANTS
    Formats <- AllFormats
    Bodies <- SmallBodies
    MaxMessages = 2
    BodyLimit = 3
    MySQLPayload = 2
    ShortFrame = 0
    MediumFrame = 1
    PeekLen = 6
INVARIANTS
    TypeOK
    InStep
    NothingTruncated
PROPERTIES
    ReadReturns
CHECK_DEADLOCK FALSE
