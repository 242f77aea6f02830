SPECIFICATION Spec
CONSTANTS
    BLOCK_SIZE = 2
    ITEMS_PER_THREAD = 2
    VW_SIZE = 2
    Inputs <- MCInputs
INVARIANTS
    EachEdgeOnce
    SearchStaysInChunk
PROPERTIES
    KernelEnds
CHECK_DEADLOCK FALSE
