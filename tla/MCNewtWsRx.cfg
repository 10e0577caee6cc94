SPECIFICATION Spec
CONSTANTS
    MaxFrames = 3
    MaxPayload = 5
    BufferSize = 2
    RxMax = 4
    Backoff <- MCBackoff
INVARIANTS
    DeliversWholeFrames
PROPERTIES
    NoFrameVanishes
