SPECIFICATION Spec
CONSTANTS
  Cameras = {c1, c2}
  Minutes = {1, 5}
  Requests = {0, 1, 5, 7}
  Torn = Torn
  Reorders = TRUE
  MaxWrites = 2
INVARIANT SavedWhenQuiet
