SPECIFICATION ConfigSpec
CONSTANTS
    Sup = Sup
    reconn = reconn
    Senders <- MCSenders
    MaxIds = 4
    Nodes <- MCNodes
    MaxVersion = 1
CONSTRAINT UntilSettled
INVARIANTS
    ConfigTypeOK
    OnlyOwnReplyConsumes
    RequestsAreWhole
    TunnelIsWhole
    NoOlderConfiguration
