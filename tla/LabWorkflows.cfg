SPECIFICATION MCSpec
CONSTANTS
  NoJob = NoJob
  Night = {n1, n2}
  MaxAttempts = 2
  MaxMain = 1
SYMMETRY MCNights
INVARIANTS
  TypeOK
  AppliedAsReviewed
  RefusedForAReason
  NightIsTrue
  OneIssueUnlessOverlapped
CHECK_DEADLOCK FALSE
