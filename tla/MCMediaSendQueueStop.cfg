SPECIFICATION FairSpec
CONSTANTS
  Shapes <- MCShapes
  SmallCount = 1
  ShortSpread = 1
  Limit = 2
  MaxBatches = 4
PROPERTY
  CloseStopsThreads
