SPECIFICATION Spec
CONSTANTS
    h1 = h1
    h2 = h2
    h3 = h3
    Senders <- ThreeSenders
    MaxMessages = 2
    QueueLen = 1
INVARIANTS
    FinishFlushes
CHECK_DEADLOCK FALSE
