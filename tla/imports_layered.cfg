CONSTANTS
    Name <- MCName
    Path <- MCPath
    Root <- M
    Core <- MCCore
    Include <- MCInclude
    CoreDir = 2
    Program <- LayeredProgram
SPECIFICATION FairSpec
INVARIANTS
    VisitedOnce
    NamesAreRight
PROPERTIES
    RegistrySpec
    DeclarationEnds
CHECK_DEADLOCK FALSE
