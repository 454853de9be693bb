SPECIFICATION Spec
CONSTANTS
  Viewers = {v1, v2, v3}
  Refreshers = {r1, r2, r3}
  NoOne = NoOne
  StartFails = FALSE
  StopFails = FALSE
  MaxCaptures = 1
CHECK_DEADLOCK FALSE
INVARIANTS SessionIsOpen OneFfmpeg SingleWake
PROPERTIES LeavingEndsOwnSession SnapshotSparesViewer
