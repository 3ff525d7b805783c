-------------------------- MODULE MCTeamAndBoard ---------------------------
(***************************************************************************)
(* Small instances of the team tasks and of a subscription to the board,   *)
(* which share no state, for one run of TLC.  A behaviour is one of a      *)
(* single part, and the fairness is that part's own.                       *)
(***************************************************************************)
EXTENDS MCTeamTasks, BoardSubscription

VARIABLE part  \* the part the behaviour is about

teamAndBoardVars == <<vars, boardVars, part>>

InTeam(A) == part = "team" /\ A /\ UNCHANGED <<boardVars, part>>
InBoard(A) == part = "board" /\ A /\ UNCHANGED <<vars, part>>

TeamAndBoardInit == part \in {"team", "board"} /\ Init /\ BoardInit

TeamAndBoardNext == InTeam(Next) \/ InBoard(BoardNext)

\* The fairness of TeamTasks and of BoardSubscription.
TeamAndBoardSpec ==
  /\ TeamAndBoardInit /\ [][TeamAndBoardNext]_teamAndBoardVars
  /\ \A c \in Children :
       /\ WF_teamAndBoardVars(InTeam(coord[c] # "idle" /\ SpawnChild(c)))
       /\ WF_teamAndBoardVars(InTeam(FollowUpTurn(c) \/ StopSession(c) \/ MarkCancelled(c)))
       /\ WF_teamAndBoardVars(InTeam(SessionStarts(c) \/ TurnStarts(c)))
       /\ WF_teamAndBoardVars(InTeam(TurnEnds(c))) /\ WF_teamAndBoardVars(InTeam(Resolves(c)))
       /\ WF_teamAndBoardVars(InTeam(SessionStopped(c))) /\ WF_teamAndBoardVars(InTeam(Capture(c)))
  /\ WF_teamAndBoardVars(InTeam(ReadChild \/ MarkChild))
  /\ WF_teamAndBoardVars(InBoard(Publish)) /\ WF_teamAndBoardVars(InBoard(GoLive))
  /\ WF_teamAndBoardVars(InBoard(FilterLive))
  /\ \A s \in Streams : WF_teamAndBoardVars(InBoard(Deliver(s)))
=============================================================================
