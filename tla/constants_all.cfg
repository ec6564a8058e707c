CONSTANTS
  Host = 4
  Sizes = {0, 2, 4}
  LIMIT_RECURSE_CALL = 4
  Depth = 6
  NoClass = "none"
  Structs <- MCStructs
  Enums <- MCEnums
  Classes <- MCClasses
  Object = "O"
  Exception = "X"
  Programs <- AllPrograms
SPECIFICATION Spec
INVARIANTS FoldAgrees AccessesAreGuarded RecursionBounded MembersAreRight PatternsDecide OperationsAreRight
CHECK_DEADLOCK FALSE
