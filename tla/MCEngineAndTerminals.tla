------------------------ MODULE MCEngineAndTerminals -----------------------
(***************************************************************************)
(* Small instances of the orchestration engine and of the terminals, which *)
(* share no state, for one run of TLC.  A behaviour is one of a single     *)
(* part, and the fairness is that part's own.                              *)
(***************************************************************************)
EXTENDS MCOrchestrationEngine, TerminalSessions

CONSTANTS u1, u2, home

VARIABLE part  \* the part the behaviour is about

engineAndTerminalVars == <<vars, terminalVars, part>>

\* Both terminals are of one thread, so that closing it closes two, and both
\* run, so that one of them is evicted when both have ended.
MCThread == [t \in Terminals |-> home]
MCOpened == <<u1, u2>>

InEngine(A) == part = "engine" /\ A /\ UNCHANGED <<terminalVars, part>>
InTerminals(A) == part = "terminals" /\ A /\ UNCHANGED <<vars, part>>

EngineAndTerminalsInit == part \in {"engine", "terminals"} /\ Init /\ TerminalsInit

EngineAndTerminalsNext == InEngine(Next) \/ InTerminals(TerminalsNext)

EngineAndTerminalsSpec ==
  /\ EngineAndTerminalsInit /\ [][EngineAndTerminalsNext]_engineAndTerminalVars
  /\ WF_engineAndTerminalVars(InEngine(WorkerStep)) /\ WF_engineAndTerminalVars(InEngine(StartUp))
  /\ \A th \in Owners : WF_engineAndTerminalVars(InTerminals(Operation(th)))
  /\ WF_engineAndTerminalVars(InTerminals(Drains))
  /\ WF_engineAndTerminalVars(InTerminals(PersistStarts \/ PersistWrites))
=============================================================================
