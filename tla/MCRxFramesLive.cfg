SPECIFICATION FairSpec
CONSTANTS
  NumFrames = 2
  Keyframes = {1}
  DataCount <- MCWideDataCount
  ParityRows <- MCNoParityRows
  MaxRetrans = 1
  DropThreshold = 2
PROPERTY
  BufferDrains
