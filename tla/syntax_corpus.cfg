CONSTANTS
  Decimal <- MCDecimal
  Prefixed <- MCPrefixed
  Malformed <- MCMalformed
  ActiveVersions <- MCVersions
  Identifiers <- MCIdentifiers
  Corpus <- MCCorpus
  Put <- MCPut
  Fillers <- MCFillers
SPECIFICATION Spec
CHECK_DEADLOCK FALSE
INVARIANTS EveryTextIsDecided AcceptedIsClean
