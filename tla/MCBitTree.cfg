SPECIFICATION Spec
CONSTANTS
    W = 2
    NumBlocks = 8
    BlockItems = 2
INVARIANTS
    SummaryExact
    SizeIsUsed
    DescentFindsBlock
PROPERTIES
    ImplementsPool
    CallsReturn
