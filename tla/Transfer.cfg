SPECIFICATION FairMoveSpec
CONSTANTS
  NumDirs = 1
  NumFiles = 2
  Size <- OneBlock
  Paths <- MovePaths
  Dest <- MoveDest
  MaxRename = 2
  Candidates <- MoveCandidates
  Existing <- SomeExist
  NoFile = NoFile
  Concurrency = 2
  MaxRetries = 1
  Policies = {"ask", "overwrite"}
  StatErrors = TRUE
  RenameReplaces = TRUE
INVARIANTS
  TypeOK
  NoTruncatedFile
  DoneMeansDelivered
  NoLeftoverPartial
  DeletesAtRest
  EveryItemCounted
PROPERTIES
  ImplementsAtomicCopy
  FlowEnds
