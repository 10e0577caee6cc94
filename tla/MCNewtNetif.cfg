SPECIFICATION Spec
CONSTANTS
    Sup = Sup
    App = App
    r1 = r1
    r2 = r2
    p1 = p1
    p2 = p2
    NULL = NULL
    Tasks <- MCTasksOne
    Reconns <- MCOneReconn
    Pollers <- MCOnePoller
    MaxRetry = 1
    MaxAuth = 2
    MaxWait = 1
    MaxInits = 1
    TakeMayExpire = FALSE
    CallMayFail = FALSE
INVARIANTS
    NetifNotNull
