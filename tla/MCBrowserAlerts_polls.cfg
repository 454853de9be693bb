SPECIFICATION AlertsFairSpec
CONSTANTS
  MaxEvents = 3
  PageSize = 2
  MaxPolls = 2
  MaxAsking = 2
  InOrder = TRUE
INVARIANTS NotifiedOnce TimersAsShown NoneSkipped
PROPERTIES NothingMissed SinceOnlyGrows
