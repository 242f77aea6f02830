SPECIFICATION Spec
CONSTANTS
    nV = 2
    MaxDegree = 4
    NoId = NoId
    NullPtr = NullPtr
    Ptr = {p1, p2, p3, p4, p5}
    Sizes = {1, 2, 4}
    MaxEdgesPerBlockArray = 2
    Graphs <- MCGraphs
    Batches <- MCBatches
    InsertOptions <- OneOption
    EraseIsolated = TRUE
SYMMETRY Addresses
INVARIANTS
    TypeOK
    BlockOwnership
    QueueConsistent
    OverwritePlanSound
PROPERTIES
    CallsKeepLists
    ImplementsGraph
CHECK_DEADLOCK FALSE
