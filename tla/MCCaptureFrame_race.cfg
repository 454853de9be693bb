SPECIFICATION FairSpec
CONSTANTS
  Calls = {c1, c2}
CHECK_DEADLOCK FALSE
INVARIANTS EndsInOrder WaitsAreLive
PROPERTIES LateFailuresContained KeepsPromise
