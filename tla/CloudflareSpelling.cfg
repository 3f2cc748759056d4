SPECIFICATION MCSpec
CONSTANTS
  a = a
  c = c
  x = x
  y = y
  v1 = v1
  v2 = v2
  Key = {x}
  Unlisted = {}
  Managed = {x}
  Spelling = {1, 2}
  MaxEdits = 0
  MaxFaults = 0
  Owner <- MCOwner
  Order <- MCOrder
  CnameKey = {}
  Proxiable = {}
  Val = {v1, v2}
  Ttl <- MCTtl
  ValidTtl <- MCValidTtl
  AutoTtl = 1
  Value <- MCValue
  Absent = Absent
PROPERTIES
  RerunHeals
