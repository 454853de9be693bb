SPECIFICATION AlertsFairSpec
CONSTANTS
  MaxEvents = 3
  PageSize = 2
  MaxPolls = 2
  MaxAsking = 1
  InOrder = TRUE
INVARIANT SeenIsShown
PROPERTIES OffIsQuiet OnlyNew NothingCrowdedOut
