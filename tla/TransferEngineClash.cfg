SPECIFICATION Spec
CONSTANTS
  NumDirs = 1
  NumFiles = 2
  Size <- OneBlock
  Paths <- ClashingPaths
  Dest <- ClashingDest
  MaxRename = 2
  Candidates <- ClashingCandidates
  Existing <- OneExists
  NoFile = NoFile
  Concurrency = 2
  MaxRetries = 1
  Policies = {"rename"}
  StatErrors = FALSE
  RenameReplaces = TRUE
INVARIANTS
  NoTruncatedFile
