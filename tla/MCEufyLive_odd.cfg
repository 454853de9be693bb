SPECIFICATION LiveFairSpec
CONSTANTS
  Viewers = {v1, v2}
  Refreshers = {r1}
  NoOne = NoOne
  StartFails = FALSE
  StopFails = FALSE
  MaxCaptures = 1
CHECK_DEADLOCK FALSE
PROPERTIES CameraAlwaysSleeps PlayerIsServed TileNotices
