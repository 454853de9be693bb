SPECIFICATION FairSpec
CONSTANTS
  Starts = {s1, s2}
  None = None
CHECK_DEADLOCK FALSE
INVARIANTS OpenIsHeld RemovedIsQuiet LiveHasVideo
PROPERTY ButtonComesBack
