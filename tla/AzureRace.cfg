SPECIFICATION RaceSpec
CONSTANTS
  a1 = a1
  c1 = c1
  a2 = a2
  v1 = v1
  v2 = v2
  Key = {a1, c1, a2}
  Owner <- MCOwner
  CnameKey = {c1}
  Managed = {a1, a2}
  Unsupported = {}
  Value = {v1, v2}
  Absent = Absent
  Registered = Registered
  Unreadable = Unreadable
  MaxEdits = 1
  MaxFaults = 1
INVARIANTS
  TypeOK
  SilenceMeansUntouched
  VettedWhole
  ReturnedMeansConverged
PROPERTIES
  WritesOnlyOverWhatWasRead
  ImplementsOwnedEdge
