--------------------------- MODULE MCThreadParts ---------------------------
(***************************************************************************)
(* Small instances of five parts that share no state here, for one run of  *)
(* TLC: the team tasks, and of a thread its checkpoints, the text of a     *)
(* turn, its terminals and how it is forked.  A behaviour is one of a      *)
(* single part; only safety is checked.                                    *)
(***************************************************************************)
EXTENDS MCTeamTasks, Checkpoints, AssistantText, TerminalSessions, ThreadForks

CONSTANTS u1, u2, home

VARIABLE part  \* the part the behaviour is about

threadVars == <<vars, checkpointVars, textVars, terminalVars, forkVars, part>>

\* Both terminals are of one thread, so that closing it closes two, and both
\* run, so that one of them is evicted when both have ended.
MCThread == [t \in Terminals |-> home]
MCOpened == <<u1, u2>>

InTeam(A) == part = "team" /\ A /\ UNCHANGED <<checkpointVars, textVars, terminalVars, forkVars, part>>
InCheckpoints(A) == part = "checkpoints" /\ A /\ UNCHANGED <<vars, textVars, terminalVars, forkVars, part>>
InText(A) == part = "text" /\ A /\ UNCHANGED <<vars, checkpointVars, terminalVars, forkVars, part>>
InTerminals(A) == part = "terminals" /\ A /\ UNCHANGED <<vars, checkpointVars, textVars, forkVars, part>>
InForks(A) == part = "forks" /\ A /\ UNCHANGED <<vars, checkpointVars, textVars, terminalVars, part>>

ThreadInit ==
  /\ part \in {"team", "checkpoints", "text", "terminals", "forks"}
  /\ Init /\ CheckpointsInit /\ TextInit /\ TerminalsInit /\ ForksInit
  /\ part # "text" => streaming
  /\ part # "forks" => kind = "local"

ThreadNext ==
  \/ InTeam(Next) \/ InCheckpoints(CheckpointsNext) \/ InText(TextNext) \/ InTerminals(TerminalsNext)
  \/ InForks(ForksNext)

ThreadSpec == ThreadInit /\ [][ThreadNext]_threadVars
=============================================================================
