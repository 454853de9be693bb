SPECIFICATION FairSpec
CONSTANTS
  MaxShots = 2
  MaxQueue = 2
  MaxLoads = 2
  MaxClients = 2
  None = None
  Asked = Asked
CHECK_DEADLOCK FALSE
INVARIANTS AutoAloneIsTimed ThumbIsLatest
PROPERTY TileAppears
