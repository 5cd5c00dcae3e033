SPECIFICATION Spec
CONSTANTS
    NbCamera = 3
    NbFrame = 5
    NbBoard = 3
    Films <- OwnBoardFilms
    Scene <- PlainScene
    MinCommonPoses = 4
INVARIANTS
    GroupsCoViewed
