SPECIFICATION Spec
CONSTANTS
  Entries <- Tree
  Folders <- TreeFolders
  Top = "t"
  Children <- Listings
  Dest = "dest"
  Slash = "/"
  Parent <- TreeParent
  Backends = {"makedirs", "ftp"}
INVARIANTS
  TypeOK
  PlanIsTree
