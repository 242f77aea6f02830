SPECIFICATION Spec
CONSTANTS
    nV = 3
    Graphs <- IsolatedGraphs
    NO_COLOR = NO_COLOR
PROPERTY RunAlwaysReturns
