SPECIFICATION PipelineSpec
CONSTANTS
    Streams = {1, 2}
    Synced = {1}
    Confs <- BothConfs
    Kinds = {"camera", "file", "once"}
    MaxStarts = 2
    MaxPlugs = 2
    MaxFrames = 2
    MaxFaults = 1
    MaxEnds = 1
INVARIANTS
    StreamsAsActive
PROPERTIES
    FramesetsSound
    ReconnectsAsItWas
    CrashNeedsOverlap
    CallsReturn
CHECK_DEADLOCK FALSE
