SPECIFICATION Spec
CONSTANTS
    Vertices = {1, 2, 3, 4}
    Graphs <- MCGraphs
    INF = 1000
INVARIANTS
    NothingForgotten
    DistancesExact
PROPERTY
    RunReturns
