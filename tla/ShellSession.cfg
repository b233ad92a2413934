SPECIFICATION FairSpec
CONSTANTS
  Output = 3
  MaxUnacked = 2
  ReadChunk = 2
  ToChild = 2
  ToParent = 8
  Resizes = 1
INVARIANTS
  TypeOK
  OutputConserved
PROPERTIES
  OutputPainted
  CloseEnds
