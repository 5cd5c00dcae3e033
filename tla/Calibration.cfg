SPECIFICATION Spec
CONSTANTS
    NbCamera = 4
    NbFrame = 3
    NbBoard = 4
    Films <- AllFilms
    Scene <- AnyScene
    MinCommonPoses = 2
INVARIANTS
    TypeOK
    ObjectsExact
    BoardPosesSound
    GroupsExact
    ObservationsCurrent
PROPERTIES
    Gathers
    FirstMergeExact
