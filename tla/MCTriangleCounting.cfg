SPECIFICATION TCSpec
CONSTANTS
    Graphs <- MCGraphs
    WorkFactors = {0, 1}
    BLOCK_SIZE_OP2 = 2
    BINS_1D_DIM = 4
    LOG_OFFSET_BALANCED = 1
    LOG_OFFSET_IMBALANCED = 0
INVARIANTS
    QueueSorted
    EachEdgeUnited
    SharesAreExact
    CountsExact
PROPERTIES
    RunReturns
