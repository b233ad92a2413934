SPECIFICATION Spec
CONSTANTS
  s1 = s1
  s2 = s2
  c1 = c1
  c2 = c2
  t1 = t1
  t2 = t2
  Sessions = {s1, s2}
  MaxSessions = 1
  Closers = {c1, c2}
  Transfers = {t1}
  Nobody = Nobody
SYMMETRY AnyName
INVARIANTS
  TypeOK
  OpenIffListed
  GivenUpOnce
