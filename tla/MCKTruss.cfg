SPECIFICATION TrussSpec
CONSTANTS
    Inputs <- MCInputs
    Ks = {3, 4}
    MaxK = 7
INVARIANTS
    TrussKept
    TrussExact
PROPERTIES
    EdgesCounted
    CallsReturn
