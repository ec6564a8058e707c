SPECIFICATION Spec
CONSTANTS
    Ancestor <- MCAncestor
    Fields <- MCFields
    Functions <- MCFunctions
    Constructors <- MCConstructors
    Statements <- MCStatements
CHECK_DEADLOCK FALSE
PROPERTIES
    NoWriteGained
    SharingIsExplicit
    TypesAgree
