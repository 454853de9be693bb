SPECIFICATION LiveFairSpec
CONSTANTS
  Viewers = {v1, v2}
  Refreshers = {r1}
  NoOne = NoOne
  StartFails = TRUE
  StopFails = FALSE
  MaxCaptures = 1
CHECK_DEADLOCK FALSE
INVARIANT AwakeHasConsumer
PROPERTIES CameraSleepsUnwatched AbandonedCloses CloseReachesPlayer
