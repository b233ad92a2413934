SPECIFICATION FairSpec
CONSTANTS
  Output = 6
  MaxUnacked = 4
  ReadChunk = 1
  ToChild = 2
  ToParent = 3
  Resizes = 0
PROPERTIES
  LoopIsFreed
