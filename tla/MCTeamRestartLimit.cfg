\* The limit after a restart of the server.
SPECIFICATION Spec
CONSTANTS
  a = a
  b = b
  sub = sub
  Root = Root
  Children = {a, b}
  Natives = {}
  Parent <- MCFlat
  MaxActive = 1
  Git = FALSE
  MayRefuse = FALSE
  MaxFollowUps = 0
  MaxCloses = 0
  MaxUpserts = 0
  MaxFailures = 0
  MaxRestarts = 1
PROPERTIES
  SpawnsRespectLimit
\* Every task may be settled and nobody spawns or writes any more.
CHECK_DEADLOCK FALSE
