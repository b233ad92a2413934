SPECIFICATION Spec
CONSTANTS
  f1 = f1
  f2 = f2
  k1 = k1
  k2 = k2
  i1 = i1
  Flows = {f1, f2}
  HostKeys = {k1, k2}
  Ids = {i1}
  Methods = {"password"}
  FirstKey = k1
  NoId = NoId
PROPERTY VaultBeatsCache
