SPECIFICATION Spec
CONSTANTS
    NbCamera = 2
    NbFrame = 2
    NbBoard = 2
    MinPose = 2
    NbBoardEst = 1
    MaxPoints = 3
    MaxObs = 2
    MaxRuns = 3
INVARIANTS
    FileSound
    LoadedAsSaved
PROPERTIES
    DetectionSuffices
CHECK_DEADLOCK FALSE
