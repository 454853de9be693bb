SPECIFICATION FairSpec
CONSTANTS
  Requests = {r1}
  MaxPairs = 3
  MaxDepth = 3
  RefreshDies = FALSE
  NestedRefusal = TRUE
INVARIANT PairHeld
PROPERTIES RequestEnds Recovers
