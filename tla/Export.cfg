SPECIFICATION MCSpec
CONSTANTS
  g1 = g1
  g2 = g2
  z1 = z1
  z2 = z2
  app = app
  db = db
  v1 = v1
  v2 = v2
  full = full
  scoped = scoped
  Group = {g1, g2}
  Zone = {z1, z2}
  Row <- MCRow
  Raised = Raised
  MaxMishaps = 2
  MaxEdits = 1
  MaxUnproven = 1
  Exporter = {full, scoped}
  Scope <- MCScope
  MaxExports = 2
  MaxHandEdits = 2
  SnapshotVersion = 2
  OtherVersion = 1
  Garbled = Garbled
  Nobody = Nobody
  NoFile = NoFile
  Broken = Broken
  Off = Off
INVARIANTS
  TypeOK
  TrustedSnapshotIsWhole
PROPERTIES
  ImplementsRegister
  ExportEnds
CHECK_DEADLOCK FALSE
