SPECIFICATION EspSpec
CONSTANTS
    t1 = t1
    p1 = p1
    p2 = p2
    h1 = h1
    h2 = h2
    NULL = NULL
    Tasks <- MCTasks
    Pollers <- MCPollers
    Hosts <- MCHosts
    MaxRetry = 2
    TakeMayExpire = TRUE
    CallMayFail = TRUE
    MaxSrcIps = 2
INVARIANTS
    LegalUseIsSafe
    StopJoinsPoller
    TunnelReachesServer
    NothingOutlivesDevice
PROPERTIES
    NoLateUp
