SPECIFICATION Spec
CONSTANTS
    h1 = h1
    h2 = h2
    h3 = h3
    redis = redis
    http = http
    NoProtocol = NoProtocol
    Senders <- FileSenders
    Protocols <- FileProtocols
    ProtocolOf <- FileProtocolOf
    HasOutputDir = TRUE
    MaxMessages = 2
    QueueLen = 1
INVARIANTS
    TypeOK
    FilesMirrorStdout
    SenderOrder
    Accounted
PROPERTIES
    ImplementsPrinter
    SendReturns
CHECK_DEADLOCK FALSE
