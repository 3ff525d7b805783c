----------------------------- MODULE TeamTasks -----------------------------
(***************************************************************************)
(* Team agents: a coordinator thread spawns child threads and follows them *)
(* through team tasks.  The tasks are SQL rows and, in the engine's read   *)
(* model, a list per parent thread; the decider guards every command by    *)
(* the list.  The actors are the service behind the coordinator's tools    *)
(* (spawn, follow-up, close), the reactor that derives a task's status     *)
(* from its child thread, the provider that runs the child's turns, and    *)
(* provider-native subagents that are mirrored as tasks.                   *)
(*                                                                         *)
(* A dispatch is one atomic step (see OrchestrationEngine) and may fail.   *)
(* The child thread of a task carries the name of the task.                *)
(***************************************************************************)
EXTENDS Naturals, Sequences, FiniteSets

CONSTANTS
  Children,      \* tasks with a child thread of their own
  Natives,       \* mirrors of provider-native subagents
  Root,          \* the thread of the coordinator
  Parent,        \* [Children \cup Natives -> threads], who owns a task
  MaxActive,     \* teamAgents.maxActiveChildren
  Git,           \* the project is a git repository
  MayRefuse,     \* the provider may fail to start a turn
  MaxFollowUps,  \* bound: messages to children
  MaxCloses,     \* bound: close requests
  MaxUpserts,    \* bound: reports about native subagents
  MaxFailures,   \* bound: steps that fail
  MaxRestarts    \* bound: restarts of the server

Tasks == Children \cup Natives

ASSUME ConstantsAssumption ==
  /\ Root \notin Tasks /\ Children \cap Natives = {}
  /\ Parent \in [Tasks -> Children \cup {Root}]
  /\ \A t \in Children : Parent[t] # t
  /\ Git \in BOOLEAN /\ MayRefuse \in BOOLEAN
  /\ MaxActive \in Nat /\ MaxFollowUps \in Nat /\ MaxCloses \in Nat
  /\ MaxUpserts \in Nat /\ MaxFailures \in Nat /\ MaxRestarts \in Nat

Final == {"completed", "failed", "cancelled"}
Active == {"queued", "starting", "running", "waiting"}

VARIABLES
  rows,       \* [Tasks -> status], projection_thread_team_tasks
  known,      \* tasks the read model of the engine lists
  threads,    \* child threads that exist
  linked,     \* threads whose teamParent is set in the read model
  worktrees,  \* git worktrees made for children
  child,      \* [Children -> the session and the latest turn of the thread]
  requests,   \* [Children -> turns requested and not started yet]
  stops,      \* children whose session is to be stopped
  coord,      \* [Children -> where spawnChild is]
  mail,       \* children whose follow-up turn is about to be requested
  reopened,   \* history: final tasks reopened by a message, its turn not started
  closing,    \* [Children -> where closeChild is]
  inbox, sync,  \* the reactor: child events to look at, a status to report
  followUps, closes, upserts, failures, restarts

team == <<rows, known, threads, linked, worktrees>>
provider == <<child, requests, stops>>
service == <<coord, mail, reopened, closing>>
reactor == <<inbox, sync>>
bounds == <<followUps, closes, upserts, failures, restarts>>
vars == <<team, provider, service, reactor, bounds>>

Idle == [session |-> "none", turn |-> "none", diff |-> "none", asks |-> FALSE, asked |-> FALSE, exited |-> FALSE]

-----------------------------------------------------------------------------
(* The decider, against the read model.                                    *)

Exists(t) == t = Root \/ t \in threads

\* The tasks of thread t that count against the limit.
ActiveChildren(t) == {k \in known : Parent[k] = t /\ rows[k] \in Active}

BelowLimit(t) == Cardinality(ActiveChildren(t)) < MaxActive

\* Only a top-level thread delegates.
MayDelegate(t) == Exists(t) /\ t \notin linked

\* thread.team-task.spawn
UnlimitedSpawn(c) == MayDelegate(Parent[c]) /\ c \notin threads /\ c \notin known
MaySpawn(c) == MayDelegate(Parent[c]) /\ c \notin threads /\ c \notin known
               /\ BelowLimit(Parent[c])

\* thread.team-task.mark-*: a final task takes the same status only.
AnyMark(t, s) == t \in known /\ Exists(Parent[t])
MayMark(t, s) == t \in known /\ Exists(Parent[t]) /\ (rows[t] \in Final => s = rows[t])

\* thread.team-task.send-message and thread.team-task.close
Reachable(c) == c \in known /\ Exists(Parent[c]) /\ c \in threads

\* The mark that was dispatched, or nothing if the decider rejects it.
Marked(t, s) == IF MayMark(t, s) THEN [rows EXCEPT ![t] = s] ELSE rows

\* thread.created: a thread some task names as its child gets a teamParent.
LinkNever(c) == linked
Link(c) == IF c \in known THEN linked \cup {c} ELSE linked

\* thread.team-task.upsert-native: a known final task keeps its status.
LastReport(n, s) == s
Report(n, s) == IF n \in known /\ rows[n] \in Final THEN rows[n] ELSE s

-----------------------------------------------------------------------------
Init ==
  /\ rows = [t \in Tasks |-> "absent"] /\ known = {}
  /\ threads = {} /\ linked = {} /\ worktrees = {}
  /\ child = [c \in Children |-> Idle] /\ requests = [c \in Children |-> 0] /\ stops = {}
  /\ coord = [c \in Children |-> "idle"] /\ mail = {} /\ reopened = {}
  /\ closing = [c \in Children |-> "idle"]
  /\ inbox = << >> /\ sync = << >>
  /\ followUps = 0 /\ closes = 0 /\ upserts = 0 /\ failures = 0 /\ restarts = 0

At(c, from, to) == coord[c] = from /\ coord' = [coord EXCEPT ![c] = to]

FailOnce == failures < MaxFailures /\ failures' = failures + 1
            /\ UNCHANGED <<followUps, closes, upserts, restarts>>

-----------------------------------------------------------------------------
(* spawnChild, from its checks to the first turn of the child.             *)

\* The service looks at the read model, then asks git and the providers.
CheckSpawn(c) ==
  /\ MayDelegate(Parent[c]) /\ BelowLimit(Parent[c])
  /\ At(c, "idle", "checked")
  /\ UNCHANGED <<team, provider, mail, reopened, closing, reactor, bounds>>

SpawnTask(c) ==
  /\ MaySpawn(c) /\ At(c, "checked", "queued")
  /\ rows' = [rows EXCEPT ![c] = "queued"] /\ known' = known \cup {c}
  /\ UNCHANGED <<threads, linked, worktrees, provider, mail, reopened, closing, reactor, bounds>>

SpawnRefused(c) ==
  /\ At(c, "checked", "refused")
  /\ \/ ~MaySpawn(c) /\ UNCHANGED bounds
     \/ FailOnce
  /\ UNCHANGED <<team, provider, mail, reopened, closing, reactor>>

\* A worktree of its own, or the workspace of the parent.
PrepareWorkspace(c) ==
  /\ At(c, "queued", "prepared")
  /\ \/ Git /\ worktrees' = worktrees \cup {c}
     \/ UNCHANGED worktrees
  /\ UNCHANGED <<rows, known, threads, linked, provider, mail, reopened, closing, reactor, bounds>>

CreateThread(c) ==
  /\ At(c, "prepared", "created")
  /\ threads' = threads \cup {c} /\ linked' = Link(c)
  /\ UNCHANGED <<rows, known, worktrees, provider, mail, reopened, closing, reactor, bounds>>

MarkStarting(c) ==
  /\ MayMark(c, "starting") /\ At(c, "created", "started")
  /\ rows' = Marked(c, "starting")
  /\ UNCHANGED <<known, threads, linked, worktrees, provider, mail, reopened, closing, reactor, bounds>>

\* A user message and a turn request: the reactor looks at the child twice.
RequestTurn(c) ==
  /\ requests' = [requests EXCEPT ![c] = @ + 1]
  /\ inbox' = inbox \o <<c, c>>
  /\ UNCHANGED <<child, stops, sync>>

StartTurn(c) ==
  /\ At(c, "started", "done") /\ RequestTurn(c)
  /\ UNCHANGED <<team, mail, reopened, closing, bounds>>

\* A step fails, or the task was cancelled in the meantime.
SpawnFails(c) ==
  /\ \/ /\ \E pc \in {"queued", "prepared", "created", "started"} : At(c, pc, "failing")
        /\ FailOnce
     \/ At(c, "created", "failing") /\ ~MayMark(c, "starting") /\ UNCHANGED bounds
  /\ UNCHANGED <<team, provider, mail, reopened, closing, reactor>>

\* The worktree goes unless its thread exists; a failure is ignored.
WorktreeKept(c) == worktrees
WithoutWorktree(c) == IF c \in threads THEN worktrees ELSE worktrees \ {c}

RemoveWorktree(c) ==
  /\ At(c, "failing", "reporting")
  /\ \/ worktrees' = WithoutWorktree(c) /\ UNCHANGED bounds
     \/ c \in worktrees \ threads /\ FailOnce /\ UNCHANGED worktrees
  /\ UNCHANGED <<rows, known, threads, linked, provider, mail, reopened, closing, reactor>>

\* mark-failed; that this is rejected or fails is ignored.
Unreported(c) == rows
Reported(c) == Marked(c, "failed")

ReportFailure(c) ==
  /\ At(c, "reporting", "failed")
  /\ \/ rows' = Reported(c) /\ UNCHANGED bounds
     \/ FailOnce /\ UNCHANGED rows
  /\ UNCHANGED <<known, threads, linked, worktrees, provider, mail, reopened, closing, reactor>>

SpawnChild(c) ==
  CheckSpawn(c) \/ SpawnTask(c) \/ SpawnRefused(c) \/ PrepareWorkspace(c) \/ CreateThread(c)
  \/ MarkStarting(c) \/ StartTurn(c) \/ SpawnFails(c) \/ RemoveWorktree(c) \/ ReportFailure(c)

-----------------------------------------------------------------------------
(* sendChildMessage and closeChild.                                        *)

\* A message reopens a final task.
SendMessage(c) ==
  /\ followUps < MaxFollowUps /\ followUps' = followUps + 1
  /\ Reachable(c) /\ c \notin mail /\ mail' = mail \cup {c}
  /\ rows' = [rows EXCEPT ![c] = IF @ \in Final THEN "running" ELSE @]
  /\ reopened' = IF rows[c] \in Final THEN reopened \cup {c} ELSE reopened
  /\ UNCHANGED <<known, threads, linked, worktrees, provider, coord, closing, reactor,
                 closes, upserts, failures, restarts>>

FollowUpTurn(c) ==
  /\ c \in mail /\ mail' = mail \ {c}
  /\ \/ RequestTurn(c) /\ UNCHANGED bounds
     \/ FailOnce /\ UNCHANGED <<provider, reactor>>
  /\ UNCHANGED <<team, coord, reopened, closing>>

ClosingAt(c, from, to) == closing[c] = from /\ closing' = [closing EXCEPT ![c] = to]

CloseTask(c) ==
  /\ closes < MaxCloses /\ closes' = closes + 1
  /\ Reachable(c) /\ ClosingAt(c, "idle", "requested")
  /\ UNCHANGED <<team, provider, coord, mail, reopened, reactor, followUps, upserts, failures, restarts>>

StopSession(c) ==
  /\ ClosingAt(c, "requested", "stopped") /\ stops' = stops \cup {c}
  /\ UNCHANGED <<team, child, requests, coord, mail, reopened, reactor, bounds>>

MarkCancelled(c) ==
  /\ ClosingAt(c, "stopped", "idle") /\ rows' = Marked(c, "cancelled")
  /\ UNCHANGED <<known, threads, linked, worktrees, provider, coord, mail, reopened, reactor, bounds>>

CloseFails(c) ==
  /\ \E pc \in {"requested", "stopped"} : ClosingAt(c, pc, "idle")
  /\ FailOnce
  /\ UNCHANGED <<team, provider, coord, mail, reopened, reactor>>

Steer(c) ==
  SendMessage(c) \/ FollowUpTurn(c) \/ CloseTask(c) \/ StopSession(c) \/ MarkCancelled(c)
  \/ CloseFails(c)

-----------------------------------------------------------------------------
(* The reactor: one event at a time, from what the read model says by now. *)

\* deriveStatus
FinalOnly(c) == IF rows[c] \in Final THEN rows[c] ELSE "running"
Derived(c) ==
  LET t == child[c] IN
  CASE rows[c] \in Final -> rows[c]
    [] rows[c] \notin Final /\ t.asks -> "waiting"
    [] rows[c] \notin Final /\ ~t.asks ->
         IF t.turn = "error" \/ t.session = "error" THEN "failed"
         ELSE IF t.session = "stopped" THEN "cancelled"
         ELSE IF t.session = "starting" THEN "starting"
         ELSE IF t.turn = "running" \/ t.session = "running" THEN "running"
         ELSE IF t.turn = "completed" THEN "completed"
         ELSE rows[c]

ReadChild ==
  /\ sync = << >> /\ inbox # << >> /\ inbox' = Tail(inbox)
  /\ LET c == Head(inbox) IN
       sync' = IF c \in linked /\ c \in known /\ Derived(c) # rows[c]
                 THEN <<c, Derived(c)>> ELSE << >>
  /\ UNCHANGED <<team, provider, service, bounds>>

MarkChild ==
  /\ sync # << >> /\ sync' = << >>
  /\ rows' = Marked(sync[1], sync[2])
  /\ UNCHANGED <<known, threads, linked, worktrees, provider, service, inbox, bounds>>

\* The dispatch fails, which is logged.
MarkChildFails ==
  /\ sync # << >> /\ sync' = << >> /\ FailOnce
  /\ UNCHANGED <<team, provider, service, inbox>>

Reactor == ReadChild \/ MarkChild \/ MarkChildFails

-----------------------------------------------------------------------------
(* The provider: what it makes of the child thread, each change an event.  *)

Becomes(c, t) == /\ child' = [child EXCEPT ![c] = t]
                 /\ inbox' = Append(inbox, c)
                 /\ UNCHANGED <<team, coord, mail, closing, sync, bounds>>

\* A turn is requested that has not started yet.
AtAnyTime(c) == TRUE
Requested(c) == requests[c] > 0

\* The provider command reactor binds a session for a requested turn.
SessionStarts(c) ==
  /\ Requested(c) /\ child[c].session \in {"none", "stopped", "error"}
  /\ \E s \in {"starting", "ready"} : Becomes(c, [child[c] EXCEPT !.session = s])
  /\ UNCHANGED <<requests, stops, reopened>>

TurnStarts(c) ==
  /\ Requested(c) /\ child[c].session \in {"starting", "ready"}
  /\ Becomes(c, [child[c] EXCEPT !.session = "running", !.turn = "running", !.diff = "none"])
  /\ requests' = [requests EXCEPT ![c] = @ - 1] /\ reopened' = reopened \ {c}
  /\ UNCHANGED stops

\* The turn cannot be started: an activity says so, a session that is not
\* stopped is ready again.
TurnRefused(c) ==
  /\ MayRefuse /\ Requested(c)
  /\ Becomes(c, [child[c] EXCEPT !.session = IF @ \in {"none", "stopped"} THEN @ ELSE "ready"])
  /\ requests' = [requests EXCEPT ![c] = @ - 1]
  /\ UNCHANGED <<stops, reopened>>

\* turn.completed ends the session's turn, not the latest turn of the thread:
\* that is what the checkpoint is for, which is due now unless it exists.
TurnEnds(c) ==
  /\ child[c].session = "running" /\ ~child[c].asks
  /\ \E s \in {"ready", "error"} :
       Becomes(c, [child[c] EXCEPT !.session = s, !.diff = IF @ = "real" THEN @ ELSE "due"])
  /\ UNCHANGED <<requests, stops, reopened>>

\* A diff of the running turn: a placeholder checkpoint, once.
Placeholder(c) ==
  /\ Git /\ child[c].session = "running" /\ child[c].diff = "none"
  /\ Becomes(c, [child[c] EXCEPT !.turn = "completed", !.diff = "placeholder"])
  /\ UNCHANGED <<requests, stops, reopened>>

\* The session reports again that its turn runs.
TurnGoesOn(c) ==
  /\ child[c].session = "running" /\ child[c].diff = "placeholder" /\ child[c].turn = "completed"
  /\ Becomes(c, [child[c] EXCEPT !.turn = "running"])
  /\ UNCHANGED <<requests, stops, reopened>>

\* The checkpoint is captured, which takes a git repository.
Capture(c) ==
  /\ Git /\ child[c].diff \in {"placeholder", "due"}
  /\ \E s \in {"completed", "error"} :
       /\ s = "error" => child[c].diff = "due"
       /\ Becomes(c, [child[c] EXCEPT !.turn = s, !.diff = "real"])
  /\ UNCHANGED <<requests, stops, reopened>>

\* An approval or an answer is asked for (once per child), and given.
Asks(c) ==
  /\ child[c].session = "running" /\ ~child[c].asked
  /\ Becomes(c, [child[c] EXCEPT !.asks = TRUE, !.asked = TRUE])
  /\ UNCHANGED <<requests, stops, reopened>>

Resolves(c) ==
  /\ child[c].asks /\ Becomes(c, [child[c] EXCEPT !.asks = FALSE])
  /\ UNCHANGED <<requests, stops, reopened>>

\* The provider process exits (once per child).
SessionExits(c) ==
  /\ child[c].session \in {"starting", "ready", "running"} /\ ~child[c].exited
  /\ Becomes(c, [child[c] EXCEPT !.session = "stopped", !.exited = TRUE])
  /\ UNCHANGED <<requests, stops, reopened>>

SessionStopped(c) ==
  /\ c \in stops /\ stops' = stops \ {c}
  /\ Becomes(c, [child[c] EXCEPT !.session = "stopped"])
  /\ UNCHANGED <<requests, reopened>>

Provider(c) ==
  SessionStarts(c) \/ TurnStarts(c) \/ TurnRefused(c) \/ TurnEnds(c) \/ Placeholder(c)
  \/ TurnGoesOn(c) \/ Capture(c) \/ Asks(c) \/ Resolves(c) \/ SessionExits(c) \/ SessionStopped(c)

\* The provider reports on a subagent of its own.
UpsertNative(n, s) ==
  /\ upserts < MaxUpserts /\ upserts' = upserts + 1
  /\ MayDelegate(Parent[n])
  /\ rows' = [rows EXCEPT ![n] = Report(n, s)] /\ known' = known \cup {n}
  /\ UNCHANGED <<threads, linked, worktrees, provider, service, reactor,
                 followUps, closes, failures, restarts>>

-----------------------------------------------------------------------------
\* The server restarts: getCommandReadModel loads threads without team tasks,
\* team parents and activities; queued events and running calls are gone.
Restart ==
  /\ restarts < MaxRestarts /\ restarts' = restarts + 1
  /\ known' = {} /\ linked' = {}
  /\ child' = [c \in Children |-> [child[c] EXCEPT !.asks = FALSE]]
  /\ requests' = [c \in Children |-> 0] /\ stops' = {}
  /\ coord' = [c \in Children |-> IF coord[c] = "idle" THEN "idle" ELSE "gone"]
  /\ mail' = {} /\ reopened' = {} /\ closing' = [c \in Children |-> "idle"]
  /\ inbox' = << >> /\ sync' = << >>
  /\ UNCHANGED <<rows, threads, worktrees, followUps, closes, upserts, failures>>

Next ==
  \/ \E c \in Children : SpawnChild(c) \/ Steer(c) \/ Provider(c)
  \/ \E n \in Natives, s \in {"running", "completed", "failed"} : UpsertNative(n, s)
  \/ Reactor \/ Restart

Spec == Init /\ [][Next]_vars

\* A call that began runs on, the reactor takes its events, a provider starts
\* what was requested, ends it and, in a repository, a checkpoint is captured;
\* a question is answered.  Nobody is made to spawn, write or close.
Fairness ==
  /\ \A c \in Children :
       /\ WF_vars(coord[c] # "idle" /\ SpawnChild(c))
       /\ WF_vars(FollowUpTurn(c) \/ StopSession(c) \/ MarkCancelled(c))
       /\ WF_vars(SessionStarts(c) \/ TurnStarts(c)) /\ WF_vars(TurnEnds(c))
       /\ WF_vars(Resolves(c)) /\ WF_vars(SessionStopped(c))
       /\ WF_vars(Capture(c))
  /\ WF_vars(ReadChild \/ MarkChild)
FairSpec == Spec /\ Fairness

-----------------------------------------------------------------------------
(* Properties.                                                             *)

\* What every variable may hold; a task the read model lists has a row, a
\* spawn that has its task has the row, and a linked thread exists.
TypeOK ==
  /\ rows \in [Tasks -> Final \cup Active \cup {"absent"}]
  /\ known \subseteq {t \in Tasks : rows[t] # "absent"}
  /\ threads \subseteq {c \in Children : rows[c] # "absent"}
  /\ linked \subseteq threads /\ worktrees \subseteq Children
  /\ child \in [Children -> [session : {"none", "starting", "ready", "running", "error", "stopped"},
                             turn : {"none", "running", "completed", "error"},
                             diff : {"none", "placeholder", "due", "real"},
                             asks : BOOLEAN, asked : BOOLEAN, exited : BOOLEAN]]
  /\ requests \in [Children -> Nat] /\ stops \subseteq Children
  /\ coord \in [Children -> {"idle", "checked", "refused", "queued", "prepared", "created",
                             "started", "done", "failing", "reporting", "failed", "gone"}]
  /\ \A c \in Children :
       /\ coord[c] \in {"idle", "checked", "refused"} => rows[c] = "absent"
       /\ coord[c] \in {"queued", "prepared", "created", "started", "done", "failing", "reporting"}
            => c \in known
       /\ coord[c] \in {"created", "started", "done"} => c \in threads
       /\ coord[c] \in {"queued", "prepared"} => c \notin threads
  /\ mail \subseteq Children /\ reopened \subseteq Children
  /\ closing \in [Children -> {"idle", "requested", "stopped"}]
  /\ inbox \in Seq(Children)
  /\ sync \in {<< >>} \cup (Children \X (Final \cup Active))
  /\ followUps \in Nat /\ closes \in Nat /\ upserts \in Nat
  /\ failures \in Nat /\ restarts \in Nat

\* A spawn is accepted only while fewer than MaxActive tasks of the thread are
\* active, however many coordinators passed the check of the service at once:
\* "Team child limits are enforced under concurrent/direct dispatch."
SpawnsRespectLimit ==
  [][\A c \in Children : rows[c] = "absent" /\ rows'[c] # "absent" =>
       Cardinality({t \in Tasks : Parent[t] = Parent[c] /\ rows[t] \in Active}) < MaxActive]_vars

\* No thread that is itself a child gets one: "child threads must not
\* recursively delegate in v1."
NoGrandchildren == \A t \in Tasks : rows[t] # "absent" => Parent[t] = Root

\* Only a follow-up message takes a child's task out of a final status, and it
\* takes it to "running": a status derived from a stale read never does.
FinalStatusesHold ==
  [][\A c \in Children : rows[c] \in Final /\ rows'[c] # rows[c] =>
       rows'[c] = "running" /\ c \in mail' \ mail]_vars

\* "Native-provider task final states are sticky."
NativeFinalsAreSticky ==
  [][\A n \in Natives : rows[n] \in Final => rows'[n] = rows[n]]_vars

\* A spawn that fails leaves no task that counts as active, unless the report
\* of the failure fails as well.
FailedSpawnsAreReported ==
  [][\A c \in Children : coord[c] = "reporting" /\ coord'[c] = "failed" =>
       rows'[c] \in Final \/ failures' > failures]_vars

\* A failed spawn leaves no worktree behind unless its removal failed, and the
\* worktree of a thread that exists is not removed.
WorktreesFollowThreads ==
  [][\A c \in worktrees :
       /\ c \in threads => c \in worktrees'
       /\ coord[c] = "failing" /\ coord'[c] = "reporting" /\ c \notin threads =>
            c \notin worktrees' \/ failures' > failures]_vars

\* A message to a final task reopens it "as running until the new child turn
\* settles": it is not completed again before that turn has started.
ReopenedUntilTheTurnSettles ==
  \A c \in reopened : rows[c] # "completed" 

\* Every task of a child comes to a final status, unless a step failed or the
\* server restarted: waiting for it ends, none is unsettled for ever.
Unsettled(c) == rows[c] \in Active /\ failures = 0 /\ restarts = 0
EveryTaskSettles == \A c \in Children : []<>~Unsettled(c)
=============================================================================
