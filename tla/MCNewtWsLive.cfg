SPECIFICATION Spec
CONSTANTS
    w1 = w1
    w2 = w2
    b1 = b1
    b2 = b2
    b3 = b3
    NULL = NULL
    Workers <- MCWorkers
    Bufs <- MCBufs
    QueueDepth = 2
    TakeMayExpire = FALSE
PROPERTIES
    StopReturns
    ImplementsInbox
