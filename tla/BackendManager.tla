--------------------------- MODULE BackendManager ---------------------------
(***************************************************************************)
(* The desktop application's backend manager: it starts the server as a    *)
(* child process, starts it again after a delay when it ends, and stops    *)
(* it.  start, stop and the end of a run exclude each other by a mutex,    *)
(* but a restart's delay, a process, the probe of its readiness and the    *)
(* closing of a run that was stopped go on outside of it.                  *)
(***************************************************************************)
EXTENDS Naturals, Sequences

CONSTANTS
  Stops,         \* calls of stop
  Timed,         \* those with a timeout
  MaxRequests,   \* bound on the calls of start by the application
  MaxFailures    \* bound on missing entries, failing spawns and exits

VARIABLES
  desired,       \* desiredRunning
  configured,    \* a configuration was resolved once
  ready,         \* what the windows are told
  activeRun,     \* the run that is active, or 0
  restartFiber,  \* the fiber that sleeps until a restart, or 0
  mutex,         \* "free", or held by a "start" or the "end" of a run
  fibers,        \* where every call of start is, by the application or a restart
  runs,          \* every run there was
  stops,         \* [Stops -> where it is, and the run it closes]
  stopped,       \* a stop took effect; no start waited for the mutex then or was asked for since
  counts         \* requests and failures so far

backendVars == <<desired, configured, ready, activeRun, restartFiber, mutex, fibers, runs,
          stops, stopped, counts>>

BackendInit ==
  /\ desired = FALSE /\ configured = FALSE /\ ready = FALSE
  /\ activeRun = 0 /\ restartFiber = 0 /\ mutex = "free"
  /\ fibers = << >> /\ runs = << >>
  /\ stops = [s \in Stops |-> [at |-> "none", run |-> 0]]
  /\ stopped = FALSE /\ counts = [requests |-> 0, failures |-> 0]

Failure == counts.failures < MaxFailures /\ counts' = [counts EXCEPT !.failures = @ + 1]

-----------------------------------------------------------------------------
(* start.                                                                  *)

Request ==
  /\ counts.requests < MaxRequests /\ counts' = [counts EXCEPT !.requests = @ + 1]
  /\ fibers' = Append(fibers, "waiting") /\ stopped' = FALSE
  /\ UNCHANGED <<desired, configured, ready, activeRun, restartFiber, mutex, runs, stops>>

\* A start that has the mutex looks for an active run.
BeginStart(i) ==
  /\ fibers[i] = "waiting" /\ mutex = "free"
  /\ IF activeRun # 0
       THEN fibers' = [fibers EXCEPT ![i] = "done"] /\ UNCHANGED <<mutex, ready>>
       ELSE fibers' = [fibers EXCEPT ![i] = "preparing"] /\ mutex' = "start" /\ ready' = FALSE
  /\ UNCHANGED <<desired, configured, activeRun, restartFiber, runs, stops, stopped, counts>>

\* There is no configuration: it can only be the first time.
Unconfigured(i) ==
  /\ fibers[i] = "preparing" /\ ~configured
  /\ fibers' = [fibers EXCEPT ![i] = "done"] /\ mutex' = "free"
  /\ UNCHANGED <<desired, configured, ready, activeRun, restartFiber, runs, stops, stopped, counts>>

\* scheduleRestart, where the fibers are fs and f sleeps: one sleeps at most.
Schedule(fs, f) ==
  IF f = 0 THEN fibers' = Append(fs, "sleeping") /\ restartFiber' = Len(fs) + 1
           ELSE fibers' = fs /\ restartFiber' = f

NotCancelled(i) == [j \in 1..Len(fibers) |-> IF j = i THEN "done" ELSE fibers[j]]

\* The fibers, after fiber i of them is done and the one that sleeps, unless
\* it is 0, is interrupted.
Cancelled(i) == [j \in 1..Len(fibers) |-> IF j \in {i, restartFiber} THEN "done" ELSE fibers[j]]

\* The server's entry is not there: a restart is scheduled.
EntryMissing(i) ==
  /\ fibers[i] = "preparing" /\ Failure
  /\ desired' = TRUE /\ configured' = TRUE /\ ready' = FALSE
  /\ Schedule(Cancelled(i), 0) /\ mutex' = "free"
  /\ UNCHANGED <<activeRun, runs, stops, stopped>>

Launch(i) ==
  /\ fibers[i] = "preparing"
  /\ desired' = TRUE /\ configured' = TRUE /\ ready' = FALSE
  /\ fibers' = Cancelled(i) /\ restartFiber' = 0 /\ mutex' = "free"
  /\ runs' = Append(runs, [process |-> "spawning", at |-> "running", closed |-> FALSE])
  /\ activeRun' = Len(runs) + 1
  /\ UNCHANGED <<stops, stopped, counts>>

Wakes == desired

\* The delay of a restart has passed.
Wake(i) ==
  /\ fibers[i] = "sleeping"
  /\ fibers' = [fibers EXCEPT ![i] = IF Wakes THEN "waiting" ELSE "done"]
  /\ restartFiber' = 0
  /\ UNCHANGED <<desired, configured, ready, activeRun, mutex, runs, stops, stopped, counts>>

-----------------------------------------------------------------------------
(* A run: its process, the probe, and its end.                             *)

Spawned(r) ==
  /\ runs[r].process = "spawning"
  /\ runs' = [runs EXCEPT ![r].process = "up"]
  /\ UNCHANGED <<desired, configured, ready, activeRun, restartFiber, mutex, fibers, stops, stopped, counts>>

\* The spawn fails, or the process ends; one whose run was closed is killed,
\* also when it was spawned after that.
ProcessEnds(r) ==
  /\ runs[r].process # "ended"
  /\ IF runs[r].closed /\ runs[r].process = "up" THEN UNCHANGED counts ELSE Failure
  /\ runs' = [runs EXCEPT ![r].process = "ended", ![r].at = "ending"]
  /\ UNCHANGED <<desired, configured, ready, activeRun, restartFiber, mutex, fibers, stops, stopped>>

IsActiveAlways(r) == TRUE
IsActive(r) == activeRun = r

\* The probe is answered, which may be late: its fiber ends with the run's
\* scope.
Ready(r) ==
  /\ runs[r].process # "spawning" /\ runs[r].at # "ended" /\ ~runs[r].closed
  /\ activeRun = r /\ ready' = TRUE
  /\ UNCHANGED <<desired, configured, activeRun, restartFiber, mutex, fibers, runs, stops, stopped, counts>>

\* finalizeRun, of the active run or of one that was stopped.
End(r) ==
  /\ runs[r].at = "ending" /\ mutex = "free"
  /\ IF IsActive(r)
       THEN /\ activeRun' = 0 /\ mutex' = "end"
            /\ runs' = [runs EXCEPT ![r].at = "finalizing"]
       ELSE /\ runs' = [runs EXCEPT ![r].at = "ended", ![r].closed = TRUE]
            /\ UNCHANGED <<activeRun, mutex>>
  /\ UNCHANGED <<desired, configured, ready, restartFiber, fibers, stops, stopped, counts>>

NeverAgain == FALSE
Again == desired

\* The end is logged and told to the windows, and a restart is scheduled.
Finalized(r) ==
  /\ runs[r].at = "finalizing"
  /\ runs' = [runs EXCEPT ![r].at = "ended", ![r].closed = TRUE]
  /\ ready' = FALSE /\ mutex' = "free"
  /\ IF Again THEN Schedule(fibers, restartFiber) ELSE UNCHANGED <<fibers, restartFiber>>
  /\ UNCHANGED <<desired, configured, activeRun, stops, stopped, counts>>

-----------------------------------------------------------------------------
(* stop.                                                                   *)

RequestStop(s) ==
  /\ stops[s].at = "none"
  /\ stops' = [stops EXCEPT ![s].at = "waiting"]
  /\ UNCHANGED <<desired, configured, ready, activeRun, restartFiber, mutex, fibers, runs, stopped, counts>>

\* The state is reset in the mutex; then the sleeping fiber is interrupted
\* and the scope of the run closed.
Stop(s) ==
  /\ stops[s].at = "waiting" /\ mutex = "free"
  /\ desired' = FALSE /\ ready' = FALSE
  /\ activeRun' = 0 /\ restartFiber' = 0
  /\ fibers' = Cancelled(0)
  /\ runs' = [r \in 1..Len(runs) |-> IF r = activeRun THEN [runs[r] EXCEPT !.closed = TRUE] ELSE runs[r]]
  /\ stops' = [stops EXCEPT ![s] = [at |-> "closing", run |-> activeRun]]
  /\ stopped' = \A i \in 1..Len(fibers) : fibers[i] # "waiting"
  /\ UNCHANGED <<configured, mutex, counts>>

\* The run it closed has ended, or the time is up.
StopReturns(s) ==
  /\ stops[s].at = "closing"
  /\ stops[s].run # 0 => runs[stops[s].run].at = "ended" \/ s \in Timed
  /\ stops' = [stops EXCEPT ![s].at = "done"]
  /\ UNCHANGED <<desired, configured, ready, activeRun, restartFiber, mutex, fibers, runs, stopped, counts>>

-----------------------------------------------------------------------------
Starting(i) == BeginStart(i) \/ Unconfigured(i) \/ EntryMissing(i) \/ Launch(i) \/ Wake(i)
Run(r) == Spawned(r) \/ ProcessEnds(r) \/ Ready(r) \/ End(r) \/ Finalized(r)

BackendNext ==
  \/ Request
  \/ \E i \in 1..Len(fibers) : Starting(i)
  \/ \E r \in 1..Len(runs) : Run(r)
  \/ \E s \in Stops : RequestStop(s) \/ Stop(s) \/ StopReturns(s)

BackendSpec == BackendInit /\ [][BackendNext]_backendVars

\* What the manager itself does goes on: its fibers, the ends of runs, and
\* the kill of a process whose run was closed.  No process has to end, and
\* nobody to ask for a start or a stop.
Managed ==
  \/ \E i \in 1..Len(fibers) : BeginStart(i) \/ Launch(i) \/ Wake(i)
  \/ \E r \in 1..Len(runs) : Spawned(r) \/ End(r) \/ Finalized(r)
                             \/ (runs[r].closed /\ ProcessEnds(r))
  \/ \E s \in Stops : Stop(s) \/ StopReturns(s)
FairBackendSpec == BackendSpec /\ WF_backendVars(Managed)

-----------------------------------------------------------------------------
(* Properties.                                                             *)

\* No backend is left behind: a process that runs or is being spawned, and
\* whose run was not closed, is the process of the active run, so that the
\* next stop reaches it and no second one is started beside it.
NoBackendIsLeftBehind ==
  \A r \in 1..Len(runs) : runs[r].process # "ended" /\ ~runs[r].closed => activeRun = r

\* "does not restart after stop": from the moment a stop has taken effect
\* nothing runs, sleeps or waits that would start a backend, unless a start
\* waited for the mutex then (a restart whose delay had passed, too) or is
\* asked for later.
StoppedStaysStopped ==
  stopped => /\ ~desired /\ ~ready /\ activeRun = 0 /\ restartFiber = 0
             /\ \A i \in 1..Len(fibers) : fibers[i] = "done"
             /\ \A r \in 1..Len(runs) : runs[r].process # "ended" => runs[r].closed

\* A backend that is wanted comes back, for as long as it fails.
BackendComesBack == []<>(desired => activeRun # 0)
=============================================================================
