SPECIFICATION FairSpec
CONSTANTS
  Requests = {r1}
  MaxPairs = 2
  MaxDepth = 2
  RefreshDies = TRUE
  NestedRefusal = TRUE
INVARIANT RefreshNotNested
PROPERTY Recovers
