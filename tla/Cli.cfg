SPECIFICATION Spec
CONSTANTS
  N = 3
INVARIANTS
  TypeOK
  AccountIsTrue
  ExitCodeIsTrue
  EdgesInTurn
  BlamedEdgeWasEntered
CHECK_DEADLOCK FALSE
