SPECIFICATION Spec
CONSTANTS
    nV = 2
    MaxDegree = 4
    NoId = NoId
    NullPtr = NullPtr
    Ptr = {p1, p2, p3, p4, p5}
    Sizes = {1, 2, 4}
    MaxEdgesPerBlockArray = 2
    Graphs <- MCGraphs
    Batches <- MCBatches
    InsertOptions <- KeepAll
    EraseIsolated = TRUE
SYMMETRY Addresses
INVARIANTS
    LocatedEdgesPresent
CHECK_DEADLOCK FALSE
