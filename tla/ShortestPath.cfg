SPECIFICATION Spec
CONSTANTS
    Names = {0, 1, 2, 3}
    MaxCount = 2
    Graphs <- AllGraphs
    MaxInt = 9
INVARIANTS
    TreeOfPredecessors
    PathIsExpected
PROPERTIES
    PathReturned
