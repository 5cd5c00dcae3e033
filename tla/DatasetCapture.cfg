SPECIFICATION Spec
CONSTANTS
    Device = {"d1", "d2"}
    MaxShot = 4
    MaxSession = 3
INVARIANTS
    TypeOK
    SessionWhole
    FoldersDense
    DamageBounded
