SPECIFICATION Spec
CONSTANTS
    Device = {"d1", "d2"}
    MaxShot = 3
    MaxSession = 1
INVARIANTS
    Synchronized
