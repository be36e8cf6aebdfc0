SPECIFICATION Spec
CONSTANTS
  NumFrames = 4
  Keyframes = {1, 4}
  DataCount <- MCDataCount
  ParityRows <- MCParityRows
  MaxRetrans = 1
  DropThreshold = 2
INVARIANTS
  TypeOK
  ExpiredStaysOut
  FeedsInOrder
  FirstChunkIsKey
PROPERTY
  DecodableIsKept
