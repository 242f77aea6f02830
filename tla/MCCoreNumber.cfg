SPECIFICATION Spec
CONSTANTS
    Vertices = {1, 2, 3, 4, 5}
    Graphs <- MCGraphs
    Garbage = {2}
INVARIANTS
    DegreesExact
    CoresKept
    CountersExact
    CoreNumbersExact
    KCoreNumbers
PROPERTIES
    RunReturns
