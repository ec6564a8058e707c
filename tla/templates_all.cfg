SPECIFICATION Spec
CONSTANTS
    Ancestor <- MCAncestor
    Impl <- MCImpl
    Alias <- MCAlias
    Programs <- MCPrograms
    Limit = 4
INVARIANTS
    CallsAreTyped
    EndsRight
