SPECIFICATION Spec
CONSTANTS
    newt = newt
    server = server
    Device <- MCDevice
    Active <- MCDevice
    Talking = {newt}
    Leaving = {server}
    Outcomes = {"sent"}
    MaxIndex = 4
    RekeyTimeout = 1
    Keepalive = 1
    RekeyAfter = 1
    RejectAfter = 2
    RekeyMessages = 2
    RejectMessages = 2
    Window = 2
    DiffMod = 8
    SeqMod = 16
INVARIANTS
    CurrentIsConfirmed
    NoRepeatOnceEstablished
    SlotsAreDistinct
    NonceUsedOnce
    ResponderWaits
PROPERTIES
    NeverFallsBack
