SPECIFICATION FairSpec

CONSTANTS
  Clients = {c1, c2}
  Columns = {a, b, x}
  Structs = {{a, b}, {a, x}}
  Identifiers = {a}
  NoTable = NoTable
  Nobody = Nobody
  MaxTokens = 3
  MaxFaults = 1

INVARIANTS
  EnsuredMatches
  RetrySound

PROPERTIES
  AllServed

CHECK_DEADLOCK FALSE
