SPECIFICATION Spec
CONSTANTS
  Calls = {c1, c2}
  Kinds = {"hms", "plug", "irrigation"}
  ApiLog = TRUE
SYMMETRY Symmetry
INVARIANT EveryOkIsDone
PROPERTIES RetryOverridesNone ServedReturns
CHECK_DEADLOCK FALSE
