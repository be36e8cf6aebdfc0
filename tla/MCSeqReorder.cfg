SPECIFICATION Spec
CONSTANTS
  NumSent = 7
  MaxCopies = 2
  FirstSeq = 29
  Modulus = 32
  GapThreshold = 2
  MaxPending = 2
INVARIANTS
  TypeOK
  PendingBound
  EveryNumberAccounted
PROPERTY
  ImplementsWindow
