-------------------------- MODULE ProviderSessions --------------------------
(***************************************************************************)
(* The provider sessions of one thread: which adapters of agents have one, *)
(* and the binding in the directory that all calls are routed by.  The     *)
(* command reactor starts sessions one after the other, on the instance    *)
(* the user chose last.  Turns, interrupts, answers and rollbacks, which   *)
(* start a session that is not there again, and the stops of the reaper    *)
(* and of a deleted thread run beside it: each looks the binding up first  *)
(* and writes it last.                                                     *)
(*                                                                         *)
(* Resume cursors, directories and models of a session are left out: a     *)
(* recovery may fail at any time.  So is when the reaper finds a session   *)
(* idle: stops come at any time.                                           *)
(***************************************************************************)
CONSTANTS
  Instances,  \* provider instances
  Calls,      \* fibers of routed calls
  Nothing

VARIABLES
  live,       \* the instances whose adapter has a session
  binding,    \* the instance of the directory's binding, or Nothing
  reactor,    \* where the start of a session is, for which instance, and the adapters left to visit
  calls,      \* [Calls -> where the call is, which it is and its instance]
  overlapped, \* since the last start began, a call routed to another instance met it
  failed      \* since then, a stop of a stale session or the writing of the binding failed

sessionsVars == <<live, binding, reactor, calls, overlapped, failed>>

NoStart == [at |-> "idle", instance |-> Nothing, stale |-> {}]
NoCall == [at |-> "idle", kind |-> Nothing, instance |-> Nothing]

SessionsInit ==
  /\ live = {} /\ binding = Nothing
  /\ reactor = NoStart /\ calls = [c \in Calls |-> NoCall]
  /\ overlapped = FALSE /\ failed = FALSE

-----------------------------------------------------------------------------
(* startSession, by the command reactor.                                   *)

\* listSessions dies if a live session is not the one of the binding.
Listed == binding # Nothing => live \subseteq {binding}

RoutedElsewhere(i) ==
  \E c \in Calls : calls[c].at # "idle" /\ (calls[c].instance # i \/ binding # i)

\* ensureSessionForThread: there is no session, or another one is wanted.
Ensure(i) ==
  /\ reactor.at = "idle" /\ Listed
  /\ reactor' = [at |-> "starting", instance |-> i, stale |-> {}]
  /\ overlapped' = RoutedElsewhere(i) /\ failed' = FALSE
  /\ UNCHANGED <<live, binding, calls>>

NoneIsStale(i) == {}
Stale(i) == Instances \ {i}

\* The adapter has started the session, in place of one of its own.
Started ==
  /\ reactor.at = "starting"
  /\ live' = live \cup {reactor.instance}
  /\ reactor' = [reactor EXCEPT !.at = "started", !.stale = Stale(reactor.instance)]
  /\ UNCHANGED <<binding, calls, overlapped, failed>>

StartFails ==
  /\ reactor.at = "starting" /\ reactor' = NoStart
  /\ UNCHANGED <<live, binding, calls, overlapped, failed>>

\* stopStaleSessionsForThread: a stop that fails is logged.
StopStale(i) ==
  /\ i \in reactor.stale
  /\ reactor' = [reactor EXCEPT !.stale = @ \ {i}]
  /\ \/ live' = live \ {i} /\ UNCHANGED failed
     \/ i \in live /\ failed' = TRUE /\ UNCHANGED live
  /\ UNCHANGED <<binding, calls, overlapped>>

Bind ==
  /\ reactor.at = "started" /\ reactor.stale = {}
  /\ reactor' = NoStart
  /\ \/ binding' = reactor.instance /\ UNCHANGED failed
     \/ failed' = TRUE /\ UNCHANGED binding
  /\ UNCHANGED <<live, calls, overlapped>>

-----------------------------------------------------------------------------
(* Routed calls.                                                           *)

Moves(c, at) == calls' = [calls EXCEPT ![c].at = at]
Ends(c) == calls' = [calls EXCEPT ![c] = NoCall]

\* resolveRoutableSession reads the binding.
Route(c, kind) ==
  /\ calls[c].at = "idle" /\ binding # Nothing
  /\ calls' = [calls EXCEPT ![c] = [at |-> "routed", kind |-> kind, instance |-> binding]]
  /\ overlapped' = (overlapped \/ (reactor.at # "idle" /\ reactor.instance # binding))
  /\ UNCHANGED <<live, binding, reactor, failed>>

\* Is there a session?  A stop does not bring it back.
Check(c) ==
  /\ calls[c].at = "routed"
  /\ IF calls[c].instance \in live THEN Moves(c, "ready")
     ELSE Moves(c, IF calls[c].kind = "stop" THEN "done" ELSE "recovering")
  /\ UNCHANGED <<live, binding, reactor, overlapped, failed>>

\* recoverSessionForThread adopts a session that has appeared or resumes one.
Recover(c) ==
  /\ calls[c].at = "recovering"
  /\ live' = live \cup {calls[c].instance} /\ Moves(c, "recovered")
  /\ UNCHANGED <<binding, reactor, overlapped, failed>>

Adopt(c) ==
  /\ calls[c].at = "recovered"
  /\ binding' = calls[c].instance /\ Moves(c, "ready")
  /\ UNCHANGED <<live, reactor, overlapped, failed>>

\* The adapter is called; a turn and a stop are recorded in the binding.
Call(c) ==
  /\ calls[c].at = "ready" /\ calls[c].instance \in live
  /\ IF calls[c].kind = "other" THEN Ends(c) ELSE Moves(c, "done")
  /\ live' = IF calls[c].kind = "stop" THEN live \ {calls[c].instance} ELSE live
  /\ UNCHANGED <<binding, reactor, overlapped, failed>>

Record(c) ==
  /\ calls[c].at = "done"
  /\ binding' = calls[c].instance /\ Ends(c)
  /\ UNCHANGED <<live, reactor, overlapped, failed>>

\* Whatever fails ends the call.
CallFails(c) ==
  /\ calls[c].at # "idle" /\ Ends(c)
  /\ UNCHANGED <<live, binding, reactor, overlapped, failed>>

-----------------------------------------------------------------------------
(* The agents and the server.                                              *)

\* The agent of a session exits.
Exit(i) ==
  /\ i \in live /\ live' = live \ {i}
  /\ UNCHANGED <<binding, reactor, calls, overlapped, failed>>

\* The server stops, after runStopAll bound the sessions that were live, or
\* without, and starts again.
Restart ==
  /\ live' = {} /\ binding' \in live \cup {binding}
  /\ reactor' = NoStart /\ calls' = [c \in Calls |-> NoCall]
  /\ UNCHANGED <<overlapped, failed>>

-----------------------------------------------------------------------------
Start == (\E i \in Instances : Ensure(i) \/ StopStale(i)) \/ Started \/ StartFails \/ Bind

Routed(c) ==
  \/ \E kind \in {"turn", "other", "stop"} : Route(c, kind)
  \/ Check(c) \/ Recover(c) \/ Adopt(c) \/ Call(c) \/ Record(c) \/ CallFails(c)

SessionsNext == Start \/ (\E c \in Calls : Routed(c)) \/ (\E i \in Instances : Exit(i)) \/ Restart

SessionsSpec == SessionsInit /\ [][SessionsNext]_sessionsVars

-----------------------------------------------------------------------------
(* Properties.                                                             *)

\* "thread is active on provider instance ... but persisted binding names":
\* listSessions, and with it every start of a session and every checkpoint,
\* does not die between two starts, whatever exits, is stopped, recovered or
\* interrupted.  The exceptions are all there are: since the last start began,
\* a call that was routed to another instance overlapped it, or a stop of a
\* stale session or the writing of the binding failed.
SessionsAreBound ==
  reactor.at = "idle" /\ ~overlapped /\ ~failed => Listed
=============================================================================
