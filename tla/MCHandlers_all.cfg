SPECIFICATION Spec
CONSTANTS
    Protocols <- AllProtocols
    Traffic <- EveryTraffic
    Answers <- EveryAnswer
    MaxRequests = 3
    MaxTime = 1
    MaxUnread = 2
    MySQLReads = 3
    MongoReads = 2
    UrlLevel = FALSE
    CostFilters <- EveryFilter
INVARIANTS
    TypeOK
    PrintedInOrder
    NothingSkipped
    MatchUntilSkewed
    UnansweredPrinted
PROPERTIES
    HandlerEnds
CHECK_DEADLOCK FALSE
