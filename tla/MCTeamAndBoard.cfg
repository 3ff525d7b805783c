\* Team: one child with a failure, a close and a restart; without them its task
\* settles.  Board: three events, a replay of at most two in pages of one, one
\* reconnect.
SPECIFICATION TeamAndBoardSpec
CONSTANTS
  a = a
  b = b
  sub = sub
  Root = Root
  Children = {a}
  Natives = {}
  Parent <- MCFlat
  MaxActive = 1
  Git = TRUE
  MayRefuse = FALSE
  MaxFollowUps = 0
  MaxCloses = 1
  MaxUpserts = 0
  MaxFailures = 1
  MaxRestarts = 1
  ReplayLimit = 2
  PageSize = 1
  MaxEvents = 3
  MaxConnections = 2
  MayFail = TRUE
INVARIANTS
  NothingTwice
  OnlyLoadingMisses
PROPERTIES
  FinalStatusesHold
  FailedSpawnsAreReported
  WorktreesFollowThreads
  EveryTaskSettles
  LaterEventsArrive
\* Tasks are settled, no event is left to commit, or the subscription failed.
CHECK_DEADLOCK FALSE
