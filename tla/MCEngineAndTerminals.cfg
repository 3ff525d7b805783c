\* Engine: races, retries, SQL failures, a crash and an upgrade; reads return
\* the whole log.  Terminals: two of one thread that both run, of which one
\* inactive one is retained, one operation, two outputs, a trouble.
SPECIFICATION EngineAndTerminalsSpec
CONSTANTS
  k1 = k1
  k2 = k2
  t1 = t1
  s1 = s1
  u1 = u1
  u2 = u2
  home = home
  Commands <- MCCommands
  Kind <- MCKind
  Target <- MCTarget
  Threads = {t1}
  Callers = {k1, k2}
  Subscribers = {s1}
  OldProjectors = 1
  NumProjectors = 2
  Required = {1, 2}
  ReadLimit = 4
  MaxDispatches = 3
  MaxCrashes = 1
  None = None
  Terminals = {u1, u2}
  Owners = {home}
  Thread <- MCThread
  Opened <- MCOpened
  MaxRetained = 1
  MaxOperations = 1
  MaxOutputs = 2
  MaxTroubles = 1
INVARIANTS
  AtMostOnce
  AcksAreDurable
  ReadModelsAgree
  CursorsAreExact
  StreamFollowsLog
PROPERTIES
  CommandsSettleOnce
  EveryDispatchIsAnswered
  EveryEventIsProjected
  EveryOperationEnds
  ExitsAreNoticed
\* An engine nobody dispatches to any more is at rest, as are terminals nobody
\* asks anything of.
CHECK_DEADLOCK FALSE
