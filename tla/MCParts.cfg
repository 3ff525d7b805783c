\* Worker: three keys, no bound on what is enqueued.  Backend: two starts,
\* three failures, the stop of a quit and the timed one of an update.  Shell:
\* two threads, three events, two faults.  Sessions: two instances, two calls
\* beside the reactor, no bound on what happens.  Status: two viewers, a fiber
\* that refreshes, one change of git or of the setting.
SPECIFICATION PartsSpec
CONSTANTS
  k1 = k1
  k2 = k2
  k3 = k3
  c1 = c1
  None = None
  Nothing = Nothing
  Keys = {k1, k2, k3}
  Values <- MCValues
  Merge <- MCMerge
  Callers = {c1}
  quit = quit
  update = update
  Stops = {quit, update}
  Timed = {update}
  MaxRequests = 2
  MaxFailures = 3
  t1 = t1
  t2 = t2
  Threads = {t1, t2}
  MaxEvents = 3
  MaxFaults = 2
  codex = codex
  claude = claude
  c2 = c2
  Instances = {codex, claude}
  Calls = {c1, c2}
  s1 = s1
  s2 = s2
  r1 = r1
  Viewers = {s1, s2}
  Refreshers = {r1}
  Statuses = {1, 2}
  Unknown = Unknown
  MaxChanges = 1
INVARIANTS
  NothingIsForgotten
  NoBackendIsLeftBehind
  StoppedStaysStopped
  ShellShowsTheRows
  SessionsAreBound
  ViewersShowTheCache
PROPERTIES
  DrainedIsIdle
  WorksAsPromised
  DrainsReturn
  BackendComesBack
  LaterChangesAreShown
  RemoteIsFollowed
\* The bounds of the backend and of the shell come to an end.
CHECK_DEADLOCK FALSE
