SPECIFICATION RaceSpec
CONSTANTS
  a1 = a1
  c1 = c1
  a2 = a2
  v1 = v1
  v2 = v2
  Key = {a1, c1}
  Owner <- MCOwner
  CnameKey = {c1}
  Managed = {c1}
  Unsupported = {a1}
  Value = {v1, v2}
  Absent = Absent
  Registered = Registered
  Unreadable = Unreadable
  MaxEdits = 0
  MaxFaults = 0
INVARIANT
  QuietRunSucceeds
