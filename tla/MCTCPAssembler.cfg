SPECIFICATION Spec
CONSTANTS
    k1 = k1
    k2 = k2
    Keys <- TwoKeys
    Watched <- OneKey
    MaxConns = 2
    MaxPackets = 3
    ChanCap = 1
    None = None
INVARIANTS
    TypeOK
    NoPanic
    OpenIffLinked
    EndsDrained
PROPERTIES
    AssembleReturns
    FinishedHandlerEnds
CHECK_DEADLOCK FALSE
