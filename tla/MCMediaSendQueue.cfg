SPECIFICATION FairSpec
CONSTANTS
  Shapes <- MCShapes
  SmallCount = 1
  ShortSpread = 1
  Limit = 2
  MaxBatches = 4
INVARIANTS
  TypeOK
  UrgentFirst
  NoStrandedWork
PROPERTIES
  BulkInOrder
  EvictsLowest
  StopReachesWorker
