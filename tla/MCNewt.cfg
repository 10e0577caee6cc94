SPECIFICATION Spec
CONSTANTS
    Sup = Sup
    App = App
    r1 = r1
    r2 = r2
    p1 = p1
    p2 = p2
    NULL = NULL
    Tasks <- MCTasks
    Reconns <- MCReconns
    Pollers <- MCPollers
    MaxRetry = 0
    MaxAuth = 2
    MaxWait = 1
    MaxInits = 2
    TakeMayExpire = TRUE
    CallMayFail = TRUE
CONSTRAINT UndisturbedSoFar
SYMMETRY Symmetry
INVARIANTS
    CollisionNeedsOverlap
    OneTunnelAtATime
    OneSessionPerInit
    StopIsClean
    NoPingOverPing
    NoTunnelFromWipedKey
