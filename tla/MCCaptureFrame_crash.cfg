SPECIFICATION Spec
CONSTANTS
  Calls = {c1}
CHECK_DEADLOCK FALSE
INVARIANT FfmpegFailureContained
