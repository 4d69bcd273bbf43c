SPECIFICATION Spec
CONSTANTS
    MaxTCPSeq = 63
    TCPSeqWindow = 8
    ISN = 20
    StreamLen = 4
    Segments <- RepacketizedSegments
    InitialSize = 1
    LossyCapture = FALSE
    Nil = Nil
INVARIANT
    NoAckedByteLost
