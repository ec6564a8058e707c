CONSTANTS
    A = A
    B = B
    C = C
    NoClass = NoClass
    Class <- Three
    Program <- Mutual
    MaxUse = 1
SPECIFICATION Spec
INVARIANTS
    FieldsIncludeAncestors
CHECK_DEADLOCK FALSE
