SPECIFICATION MCSpec
CONSTANTS
  hub = hub
  app = app
  VM = {hub, app}
  Order <- MCOrder
  Deadline = 1
  Budget = 13
  Stall = 1
  Poll = 1
  MaxCall = 1
  Work = 2
INVARIANTS
  TypeOK
  VerifiedMeansDeallocated
  UnverifiedIsTold
  WellServedIsVerified
PROPERTIES
  WatchdogEnds
CHECK_DEADLOCK FALSE
