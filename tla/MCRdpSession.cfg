SPECIFICATION Spec
CONSTANTS
  MaxFiles = 2
  MaxStagings = 2
  MaxReady = 1
INVARIANTS
  TypeOK
  StatusIsTrue
  NothingLeftOpen
  OffersWhatIsStaged
PROPERTIES
  ClearedWhenServed
CHECK_DEADLOCK FALSE
