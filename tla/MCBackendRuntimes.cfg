SPECIFICATION FairSpec
CONSTANT MaxRuntimes = 2
INVARIANTS
  TypeOK
  ClosedExactlyOnce
  OneConnection
PROPERTIES
  StopReturns
