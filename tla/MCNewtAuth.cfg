SPECIFICATION Spec
CONSTANTS
    InitCap = 2
    MaxCap = 9
    MaxChunk = 6
    MaxReceived = 12
    OutSizes <- MCOutSizes
INVARIANTS
    TypeOK
    BufferHoldsResponse
    ParsesWholeResponse
    SuccessIsComplete
