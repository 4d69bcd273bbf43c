SPECIFICATION Spec
CONSTANTS
    Protocols <- SeveralReads
    Traffic <- FilteredTraffic
    Answers <- PlainAnswer
    MaxRequests = 3
    MaxTime = 0
    MaxUnread = 3
    MySQLReads = 10
    MongoReads = 5
    UrlLevel = FALSE
    CostFilters <- NoFilter
INVARIANT
    PairedUpToShift
CHECK_DEADLOCK FALSE
