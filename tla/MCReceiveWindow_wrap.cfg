SPECIFICATION Spec
CONSTANTS
    MaxTCPSeq = 63
    TCPSeqWindow = 8
    ISN = 62
    StreamLen = 4
    Segments <- ByteSegments
    InitialSize = 1
    LossyCapture = FALSE
    Nil = Nil
INVARIANT
    NoAckedByteLost
