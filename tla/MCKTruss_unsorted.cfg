SPECIFICATION TrussSpec
CONSTANTS
    Inputs <- UnpaddedInput
    Ks = {3, 4}
    MaxK = 8
INVARIANTS
    MaximalFound
