SPECIFICATION FairSpec
CONSTANTS
  Viewers = {v1, v2}
  Refreshers = {r1, r2}
  NoOne = NoOne
  StartFails = TRUE
  StopFails = FALSE
  MaxCaptures = 1
CHECK_DEADLOCK FALSE
INVARIANT AwakeAfterRefusal
PROPERTY JoinedAnswered
