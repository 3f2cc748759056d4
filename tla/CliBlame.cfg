SPECIFICATION Spec
CONSTANTS
  N = 2
INVARIANTS
  OnlyIncompleteIsBlamed
CHECK_DEADLOCK FALSE
