CONSTANTS
  Macros <- MCMacros
  Letters <- MCLetters
  Tokens <- MCTokens
  Calls <- MCCalls
  Invalid <- MCInvalid
  Writer = "w"
  MaxCalls = 2
SPECIFICATION Spec
INVARIANTS ExpansionIsADerivation RefusalsAreRight
CHECK_DEADLOCK FALSE
