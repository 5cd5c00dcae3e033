SPECIFICATION Spec
CONSTANTS
    Callers = {"t1", "t2"}
    May <- OneWaits
    Cap = 2
    MaxCalls = 2
    MaxStarts = 2
INVARIANTS
    WaitIsSynchronous
    InvokeOrder
    StopClears
PROPERTIES
    NothingHangs
CHECK_DEADLOCK FALSE
