SPECIFICATION FairSpec
CONSTANTS
  Starts = {s1, s2, s3}
  None = None
CHECK_DEADLOCK FALSE
INVARIANTS LiveIsCurrent StrayNeedsOverlap
PROPERTIES StoppedStaysStopped StartsReturn
