\* A message to a completed child.
SPECIFICATION Spec
CONSTANTS
  a = a
  b = b
  sub = sub
  Root = Root
  Children = {a}
  Natives = {}
  Parent <- MCFlat
  MaxActive = 1
  Git = TRUE
  MayRefuse = FALSE
  MaxFollowUps = 1
  MaxCloses = 0
  MaxUpserts = 0
  MaxFailures = 0
  MaxRestarts = 0
INVARIANTS
  ReopenedUntilTheTurnSettles
\* Every task may be settled and nobody spawns or writes any more.
CHECK_DEADLOCK FALSE
