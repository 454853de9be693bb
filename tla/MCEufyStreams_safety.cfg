SPECIFICATION FairSpec
CONSTANTS
  Viewers = {v1, v2}
  Refreshers = {r1, r2}
  NoOne = NoOne
  StartFails = TRUE
  StopFails = TRUE
  MaxCaptures = 2
CHECK_DEADLOCK FALSE
INVARIANTS PendingIsLive OwnersAreTimed
PROPERTY RefreshAnswered
