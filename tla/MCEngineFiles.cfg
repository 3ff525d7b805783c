\* A deletion whose transaction is rolled back.
SPECIFICATION Spec
CONSTANTS
  k1 = k1
  k2 = k2
  t1 = t1
  s1 = s1
  Commands <- MCLifeCommands
  Kind <- MCLifeKind
  Target <- MCLifeTarget
  Threads = {t1}
  Callers = {k1}
  Subscribers = {s1}
  OldProjectors = 1
  NumProjectors = 2
  Required = {1, 2}
  ReadLimit = 4
  MaxDispatches = 4
  MaxCrashes = 1
INVARIANTS
  FilesFollowTheLog
\* An engine nobody dispatches to any more is at rest.
CHECK_DEADLOCK FALSE
