SPECIFICATION FairSpec
CONSTANTS
  Callers = {c1, c2}
  Initial = 1
  Cap = 4
  ResetAfter = 12
  Nap = 2
  MaxLogins = 1
CHECK_DEADLOCK FALSE
PROPERTIES CallReturns NoLoginWithToken ResetOnlyAfterRest
