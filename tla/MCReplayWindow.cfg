SPECIFICATION Spec
CONSTANTS
    Window = 4
    DiffMod = 16
    SeqMod = 32
    MaxNonce = 9
CHECK_DEADLOCK FALSE
INVARIANTS
    NeverTwice
    FreshPasses
