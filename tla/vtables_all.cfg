SPECIFICATION Spec
CONSTANTS
    f = f
    g = g
    Exc = Exc
    T = T
    U = U
    Signatures = {f, g}
    Exceptions = {Exc}
    TraitNames = {T, U}
    NoTrait = NoTrait
    NoMethod = NoMethod
    Traits <- MCTraits
    Declarations <- MCDeclarations
    MaxDepth = 3
    MaxMethods = 2
    MaxLine = 3
CONSTRAINT Small
CHECK_DEADLOCK FALSE
INVARIANTS
    LayoutIsKept
    OverridesAreAllowed
    DispatchIsComplete
