\* Team: a child tries to delegate, a native subagent takes the only place, a
\* message, refused turns.  Checkpoints: two turns with an edit, a revert and an
\* input that fails.  Text: four chunks, of which two fit the buffer, a failing
\* write, a change of the setting.  Terminals: two of one thread that both run,
\* of which one inactive one is retained, two operations, an output, a trouble.
\* Forks: of each kind, two edits, a move of HEAD, a copy, two steps that fail.
SPECIFICATION ThreadSpec
CONSTANTS
  a = a
  b = b
  sub = sub
  u1 = u1
  u2 = u2
  home = home
  Root = Root
  Children = {a, b}
  Natives = {sub}
  Parent <- MCNested
  MaxActive = 1
  Git = FALSE
  MayRefuse = TRUE
  MaxFollowUps = 1
  MaxCloses = 0
  MaxUpserts = 3
  MaxFailures = 1
  MaxRestarts = 0
  Outcomes = {"ready", "missing"}
  MaxTurns = 2
  MaxEdits = 1
  MaxReverts = 1
  MaxFaults = 1
  MaxBuffered = 2
  MaxSaid = 4
  MaxFailedWrites = 1
  MaxSwitches = 1
  None = None
  Terminals = {u1, u2}
  Owners = {home}
  Thread <- MCThread
  Opened <- MCOpened
  MaxRetained = 1
  MaxOperations = 2
  MaxOutputs = 1
  MaxTroubles = 1
  Kinds = {"worktree", "local", "turn"}
  MaxSaved = 2
  MaxMoves = 1
  MaxClones = 1
  MaxSlips = 2
INVARIANTS
  NoGrandchildren
  CheckpointsAreStored
  PlaceholdersAreReplaced
  TextIsKept
  TurnsEndClean
  LiveProcessesAreHeld
  HistoryIsKept
  ForksAreSnapshots
  FailuresAreUndone
PROPERTIES
  SpawnsRespectLimit
  NativeFinalsAreSticky
\* Every task may be settled, the turn over, and nobody spawns, writes or asks
\* for anything.
CHECK_DEADLOCK FALSE
