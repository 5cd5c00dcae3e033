SPECIFICATION Spec
CONSTANTS
    NbStream = 3
    Gap <- MixedGaps
    Steps = {1, 3}
    Offsets <- OffsetsOf
    MaxFrames <- FramesOf
    Cutout = 1
    QUEUE_MAX_SIZE = 2
INVARIANTS
    SetsAreTight
    HeldBriefly
    OnceOnly
PROPERTIES
    PassesOnlySlower
    ThreadsReturn
CHECK_DEADLOCK FALSE
