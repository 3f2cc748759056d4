SPECIFICATION MCSpec
CONSTANTS
  a = a
  c = c
  x = x
  y = y
  v1 = v1
  v2 = v2
  Key = {a, c, x, y}
  Unlisted = {y}
  Managed = {a, c}
  Spelling = {1}
  MaxEdits = 1
  MaxFaults = 1
  Owner <- MCOwner
  Order <- MCOrder
  CnameKey = {c}
  Proxiable = {a, c}
  Val = {v1, v2}
  Ttl <- MCTtl
  ValidTtl <- MCValidTtl
  AutoTtl = 1
  Value <- MCValue
  Absent = Absent
INVARIANTS
  TypeOK
  NeverUnderServes
  BadTtlWritesNothing
  QuietRunSucceeds
  ReturnedMeansConverged
PROPERTIES
  OnlyManagedRecords
  RerunHeals
