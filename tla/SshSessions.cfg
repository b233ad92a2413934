SPECIFICATION Spec
CONSTANTS
  c1 = c1
  c2 = c2
  x1 = x1
  h1 = h1
  h2 = h2
  w1 = w1
  w2 = w2
  Conns = {c1, c2}
  Panes = {x1}
  Shells = {h1, h2}
  Workers = {w1, w2}
  Ports = {1}
  NoOne = NoOne
SYMMETRY AnyName
CONSTRAINT FewLeaks
INVARIANTS
  TypeOK
  SessionOutlivesPanes
  
