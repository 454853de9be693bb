SPECIFICATION Spec
CONSTANTS
  Calls = {c1, c2}
  Kinds = {"camera", "plug", "light", "mesh", "wallswitch", "hms", "lock", "bolt", "thermostat", "irrigation", "vacuum"}
  ApiLog = TRUE
SYMMETRY Symmetry
INVARIANTS OkIsDone RunsOnce
CHECK_DEADLOCK FALSE
