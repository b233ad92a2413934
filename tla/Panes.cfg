SPECIFICATION Spec
CONSTANTS
  Sides = {"left", "right"}
  Tables <- ThreeTables
  SideOf <- TwoSides
  First <- FirstTabs
  Start = "left"
  Elsewhere = "terminal"
  Nowhere = Nowhere
  Listed = {"l1"}
  Dirs <- Tree
  Root = "/"
  Parent <- TreeParent
  Dotted = {"/.c"}
  Climbers = {1, 2}
  Clickable = {"l1", "r1", "r2", "terminal"}
  MaxPending = 3
INVARIANTS
  TypeOK
  ShownIsCurrent
  NoStaleParent
