SPECIFICATION Spec
CONSTANTS
    nV = 6
    Graphs <- AllGraphs
    NO_COLOR = NO_COLOR
INVARIANTS
    ColorsFromComponent
    LargestKept
    ComponentsExact
PROPERTY RunReturns
