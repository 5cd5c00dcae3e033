SPECIFICATION Spec
CONSTANTS
    NbCamera = 3
    NbFrame = 2
    NbBoard = 1
    Films <- SmallFilms
    Scene <- PlainScene
    MinCommonPoses = 4
INVARIANTS
    CameraPosesSound
