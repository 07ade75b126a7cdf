SPECIFICATION FairSpec
CONSTANTS
  TileCount = 2
  MaxDraws = 2
  QueueCap = 1
  MaxOpens = 2
INVARIANTS
  RenderTypeOK
  StaleForAReason
PROPERTY
  CanvasCatchesUp
CHECK_DEADLOCK FALSE
