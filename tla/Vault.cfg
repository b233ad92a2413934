SPECIFICATION Spec
CONSTANTS
  Profiles = {p1, p2}
  Passwords = {w1, w2}
  Keys = {k1, k2}
  NewColumns = 8
  None = None
INVARIANTS
  TypeOK
  SecretsReadable
  MigrationWhole
PROPERTIES
  ImplementsSecretStore
