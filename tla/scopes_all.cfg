CONSTANTS
    Routine <- Names
    Code <- MCCode
    Held <- MCHeld
    Clean <- MCClean
    Tested <- MCTested
    A = A
    B = B
    Symbol = {A, B}
    Limit = 2
    MaxDepth = 2
SPECIFICATION Spec
SYMMETRY Symmetry
INVARIANTS
    ScopesAreSafe
    HeldIsExact
PROPERTIES
    Restored
    ErrorsReported
