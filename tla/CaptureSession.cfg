SPECIFICATION Spec
CONSTANTS
    Cams = {1, 2}
    Base = 3
    Width = 1
    Earlier = {0, 3}
    MaxShots = 2
    MaxFaults = 2
    MaxTidies = 2
INVARIANTS
    CloudsPair
PROPERTIES
    SamplesExact
CHECK_DEADLOCK FALSE
