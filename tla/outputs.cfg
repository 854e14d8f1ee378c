SPECIFICATION Spec
CONSTANTS
  Order <- DocumentedOrder
  MaxRuns = 3
  MaxFailures = 1
  MaxUpdates = 1
  MaxDeaths = 3
CHECK_DEADLOCK FALSE
INVARIANTS
  TypeOK
  PagedOnce
  OneThread
  PushesAnswered
  ThreadTellsStatus
