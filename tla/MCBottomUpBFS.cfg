SPECIFICATION SpecBU
CONSTANTS
    Vertices = {1, 2, 3, 4, 5, 6}
    Graphs <- MCGraphs
    INF = INF
    Ratio = 3
INVARIANTS
    EnqueuedOnce
    DistancesExact
PROPERTIES
    RunReturns
    ImplementsSearch
