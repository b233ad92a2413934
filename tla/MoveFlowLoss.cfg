SPECIFICATION MoveSpec
CONSTANTS
  NumDirs = 1
  NumFiles = 2
  Size <- OneBlock
  Paths <- MovePaths
  Dest <- MoveDest
  MaxRename = 2
  Candidates <- MoveCandidates
  Existing <- SomeExist
  NoFile = NoFile
  Concurrency = 1
  MaxRetries = 1
  Policies = {"ask"}
  StatErrors = FALSE
  RenameReplaces = TRUE
INVARIANTS
  DeletesOnlyDelivered
