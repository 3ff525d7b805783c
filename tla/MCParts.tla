------------------------------ MODULE MCParts ------------------------------
(***************************************************************************)
(* Small instances of five parts that share no state, for one run of TLC:  *)
(* the coalescing worker, the backend manager of the desktop application,  *)
(* a browser's subscription to the shell, the provider sessions of a       *)
(* thread and the status of a working directory.  A behaviour is one of a  *)
(* single part, and the fairness is that part's own.                       *)
(***************************************************************************)
EXTENDS KeyedCoalescingWorker, BackendManager, ShellSubscription, ProviderSessions,
        VcsStatusBroadcaster, TLC

CONSTANTS k1, k2, k3, c1, quit, update, t1, t2, codex, claude, c2,
          s1, s2, r1

VARIABLE part  \* the part the behaviour is about

allVars == <<vars, backendVars, shellVars, sessionsVars, statusVars, part>>

\* The merge of the terminals: the newest history; what was to be written at
\* once still is.  A value is whether it is to be written at once.
MCMerge(current, next_) == [n |-> next_.n, immediate |-> current.immediate \/ next_.immediate]
MCGit == [p \in Parts |-> CHOOSE v \in Statuses : TRUE]
MCValues == [n : {1, 2}, immediate : BOOLEAN]

InWorker(A) == part = "worker" /\ A /\ UNCHANGED <<backendVars, shellVars, sessionsVars, statusVars, part>>
InBackend(A) == part = "backend" /\ A /\ UNCHANGED <<vars, shellVars, sessionsVars, statusVars, part>>
InShell(A) == part = "shell" /\ A /\ UNCHANGED <<vars, backendVars, sessionsVars, statusVars, part>>
InSessions(A) == part = "sessions" /\ A /\ UNCHANGED <<vars, backendVars, shellVars, statusVars, part>>
InStatus(A) == part = "status" /\ A /\ UNCHANGED <<vars, backendVars, shellVars, sessionsVars, part>>

PartsInit ==
  /\ part \in {"worker", "backend", "shell", "sessions", "status"}
  /\ Init /\ BackendInit /\ ShellInit /\ SessionsInit /\ StatusInit
  \* Which status git has at first makes no difference.
  /\ git = MCGit /\ (part # "status" => automatic)

PartsNext ==
  \/ InWorker(Next) \/ InBackend(BackendNext) \/ InShell(ShellNext) \/ InSessions(SessionsNext)
  \/ InStatus(StatusNext)

PartsSpec ==
  /\ PartsInit /\ [][PartsNext]_allVars
  /\ WF_allVars(InWorker(Work)) /\ \A c \in Callers : WF_allVars(InWorker(DrainReturns(c)))
  /\ WF_allVars(InBackend(Managed))
  /\ WF_allVars(InShell(Publish)) /\ WF_allVars(InShell(LoadSnapshot))
  /\ WF_allVars(InShell(GoLive)) /\ WF_allVars(InShell(Send))
  /\ WF_allVars(InStatus(Poll)) /\ \A s \in Viewers : WF_allVars(InStatus(Receive(s)))
=============================================================================
