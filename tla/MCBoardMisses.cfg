\* An event committed while the subscription loads.
SPECIFICATION BoardSpec
CONSTANTS
  ReplayLimit = 2
  PageSize = 1
  MaxEvents = 2
  MaxConnections = 1
  MayFail = FALSE
INVARIANTS
  BoardMissesNothing
CHECK_DEADLOCK FALSE
