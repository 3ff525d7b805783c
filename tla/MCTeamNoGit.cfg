\* A project that is not a git repository.
SPECIFICATION FairSpec
CONSTANTS
  a = a
  b = b
  sub = sub
  Root = Root
  Children = {a}
  Natives = {}
  Parent <- MCFlat
  MaxActive = 1
  Git = FALSE
  MayRefuse = FALSE
  MaxFollowUps = 0
  MaxCloses = 0
  MaxUpserts = 0
  MaxFailures = 0
  MaxRestarts = 0
PROPERTIES
  EveryTaskSettles
\* Every task may be settled and nobody spawns or writes any more.
CHECK_DEADLOCK FALSE
