SPECIFICATION Spec
CONSTANTS
    MaxTCPSeq = 63
    TCPSeqWindow = 8
    ISN = 20
    StreamLen = 5
    Segments <- StableSegments
    InitialSize = 2
    LossyCapture = FALSE
    Nil = Nil
INVARIANTS
    TypeOK
    QueueSorted
    InOrder
    NoAckedByteLost
PROPERTIES
    ImplementsOrderedStream
