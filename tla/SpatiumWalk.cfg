SPECIFICATION MCSpec
CONSTANTS
  Row <- MCRow
  MaxRows = 3
  PageSize = 2
  MaxPages = 3
  MaxEdits = 1
  Missing = Missing
  Nowhere = Nowhere
  Malformed = Malformed
INVARIANTS
  TypeOK
  CertifiedMeansWhole
  OneChangeIsNoticed
  HonestReadSucceeds
  GarbledIsNeverCertified
PROPERTIES
  WalkEnds
CHECK_DEADLOCK FALSE
