CONSTANTS
    A = A
    B = B
    C = C
    NoClass = NoClass
    Class <- Three
    Program <- MCProgram
    MaxUse = 1
SPECIFICATION FairSpec
INVARIANTS
    TypeOK
    ActiveContent
    Generated
    WellFormed
    ValidationMatchesCalls
PROPERTIES
    FailureIsSticky
    Ends
CHECK_DEADLOCK FALSE
