SPECIFICATION Spec
CONSTANTS
  NumFrames = 2
  Keyframes = {1}
  DataCount <- MCDataCount
  ParityRows <- MCParityRows
  MaxRetrans = 1
  DropThreshold = 2
INVARIANT
  DroppedWasIncomplete
