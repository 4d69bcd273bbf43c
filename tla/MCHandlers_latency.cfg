SPECIFICATION Spec
CONSTANTS
    Protocols <- OneRead
    Traffic <- PlainTraffic
    Answers <- PlainAnswer
    MaxRequests = 2
    MaxTime = 2
    MaxUnread = 1
    MySQLReads = 10
    MongoReads = 5
    UrlLevel = FALSE
    CostFilters <- NoFilter
INVARIANT
    LatencyFromRequest
CHECK_DEADLOCK FALSE
