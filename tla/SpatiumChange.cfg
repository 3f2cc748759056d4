SPECIFICATION MCSpec
CONSTANTS
  Row <- MCRow
  MaxRows = 3
  PageSize = 2
  MaxPages = 3
  MaxEdits = 2
  Missing = Missing
  Nowhere = Nowhere
  Malformed = Malformed
INVARIANTS
  CertifiedHasEveryStableRow
CHECK_DEADLOCK FALSE
