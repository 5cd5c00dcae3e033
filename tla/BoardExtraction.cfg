SPECIFICATION Spec
CONSTANTS
    NbCamera = 2
    NbBoard = 2
    Thread = {t1, t2}
    NoThread = NoThread
    MinPts <- MCMinPts
    Unreadable = Unreadable
    Folders <- AnyFolders
    Asserts = TRUE
    MaxImages = 2
INVARIANTS
    TypeOK
    RecordedExact
    ViewsAgree
    FramesOfFirst
PROPERTIES
    NumbersStable
    JoinedIsFinal
    ExtractionEnds
