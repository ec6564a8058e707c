SPECIFICATION TypeSpec
CONSTANTS
    a = a
    b = b
    c = c
    I32 = I32
    Array = Array
    Literal = Literal
    Unknown = Unknown
    Names = {a, b, c}
    Order <- MCOrder
    Programs <- MCPrograms
    Depth = 8
INVARIANTS
    OneValueAtATime
    AnswerIsRight
    DefinedOnce
    LayoutsAreExact
