# A TLA+ model of AgentDynamo

AgentDynamo is a web and desktop front end for coding agents (Codex, Claude,
Cursor, OpenCode). Its server is event sourced: every change of a project,
thread, board or team task is a command to one *orchestration engine*, which
appends events to a log in SQLite and projects them into tables; *reactors*
follow the events and drive providers, git and team tasks; browsers follow
them over a web socket. This directory models the parts in which processes,
crashes and reads that age meet, checks them with TLC on small instances, and
proves the most important results with TLAPS for all values of the constants.

Paths below are relative to `src/apps/server/src` unless they start with `src/`.

## 1. Inventory

### The components and how they interact

| Component (code) | State | Operations | What is hard | What makes it correct | Here |
|---|---|---|---|---|---|
| **Orchestration engine** (`orchestration/Layers/OrchestrationEngine.ts`, `decider.ts`, `projector.ts`) | command queue, in-memory read model, event PubSub | dispatch, subscribe, `processEnvelope`, reconcile after a failure, bootstrap | retries of a command id, failure or crash between append, projection, receipt, read model, publish and answer | a command takes effect at most once; what was acknowledged is durable; log, tables, read model and stream agree | `OrchestrationEngine`, `CommandLog` |
| **Event log and receipts** (`persistence/Layers/OrchestrationEventStore.ts`, `OrchestrationCommandReceipts.ts`, `ProjectionState.ts`) | log, receipts, a cursor per projector | append, `readFromSequence` in pages with a limit of 1000 | paging, the limit | log only grows, reads are consecutive | in `OrchestrationEngine`, `BoardSubscription` |
| **Projections** (`ProjectionPipeline.ts`, `ProjectionSnapshotQuery.ts`) | the `projection_*` tables | project one event, bootstrap, build the read model | replay limit, side effects on files outside the transaction, smallest cursor standing for all | every event applied once, in order, by each projector | in `OrchestrationEngine`; rows of team tasks in `TeamTasks`, of checkpoints in `Checkpoints`, of an agent's messages in `AssistantText`; cards are left |
| **Team tasks** (`team/Layers/TeamOrchestrationService.ts`, `TeamTaskReactor.ts`, `team/http.ts`) | `teamTasks`, `teamParent` in the read model, rows in SQL, worktrees | spawn, send message, close, wait; the reactor's sync; upsert of native subagents | checks made before long calls, statuses derived from stale reads, failures half way, restarts that forget | limit and nesting hold, final statuses stay, failed spawns are cleaned up, every task settles | `TeamTasks` |
| **Board subscription** (`ws.ts` 1007-1105, `src/apps/web/src/boardStore.ts`) | live queue, two cursors, replay position; the browser's board | subscribe, snapshot, merged replay and live stream, reconnect | events between the reads of a snapshot, two streams overtaking each other | nothing twice, nothing missed | `BoardSubscription` |
| Board cards (`ProjectionBoardCards.ts`, `decider.ts`) | cards, dismissed ghosts | create, move, link, archive, delete | decided from live rows, not from the read model | a thread is linked to one active card | not yet |
| **Shell subscription** (`ws.ts` 825-935, `src/apps/web/src/orchestrationRecovery.ts`) | rows read per event, the browser's applied version | snapshot, live rows, reconnect | gap between snapshot and live stream, a failing read, rows newer than their event | what the browser shows is the row, but for what it cannot know it missed | `ShellSubscription`; the detail of one thread is left |
| **Provider commands** (`ProviderCommandReactor.ts`) | session bindings, context hand-offs | start turn, interrupt, approvals, stop | turn requests of a session that changes | one session per thread, each request answered | partly in `TeamTasks` and `ProviderSessions` |
| **Runtime ingestion** (`ProviderRuntimeIngestion.ts`) | buffered text, segments, active turns | events of turns, items and sessions of the provider | text that leaves a buffer before it is written, pauses, items with deltas and a whole text | what was said is shown once and in order, a turn leaves nothing behind | `AssistantText`; turns in `TeamTasks` and `Checkpoints` |
| **Checkpoints** (`CheckpointReactor.ts`, `checkpointing/`) | git refs per turn | capture, baseline, revert | provider events and domain events racing for one turn, a revert that fails half way | a listed checkpoint is in git, a placeholder does not stay | `Checkpoints` |
| **Forks and first turns** (`ThreadForkDispatcher.ts`, `ws.ts` 423-612, `ThreadDeletionReactor.ts`) | what a fork has made so far, and whether it is to be undone | read the source, make worktree, copies and thread, undo; close terminals of a deleted thread | a step or its undoing fails, the connection breaks, the source changes while it is read | a fork is a snapshot, a failure leaves nothing | `ThreadForks`; the imported history is left |
| **Worker queues** (`src/packages/shared/src/KeyedCoalescingWorker.ts`, `DrainableWorker.ts`) | latest value, queued and active keys | enqueue, drain | failures, drains racing enqueues | a value that waits is worked on, a drain means done | `KeyedCoalescingWorker`, `CoalescingWork` |
| **Terminals** (`terminal/Layers/Manager.ts`) | sessions, history, event queue per process | open, clear, restart, close, evict | process events and calls between two awaits | no process without a session, history is what was shown | `TerminalSessions` |
| **Provider sessions** (`provider/Layers/ProviderService.ts`, `ProviderSessionDirectory.ts`, `ProviderSessionReaper.ts`) | directory of bindings, sessions of the adapters | start, resume, route, stop | routed calls and stops overlapping a switch of provider | no live session contradicts the binding | `ProviderSessions` |
| Provider instances and adapters (`provider/`, `src/packages/effect-*`) | snapshots of external programs | probe, refresh, translate | external behaviour | – | not modelled |
| Authentication and team access (`auth/`, `team/Layers/TeamCoordinatorAccess.ts`) | pairing links, sessions, grants | issue, consume, revoke, connect | one-time use, expiry | consumed once, revoked stays revoked | not yet |
| Start-up and settings (`serverRuntimeStartup.ts`, `serverSettings.ts`, `keybindings.ts`) | readiness gate, cached files | enqueue commands until ready, watch | order of start-up | a command waits until the layers are up | the engine's bootstrap only |
| **Version control status** (`vcs/VcsStatusBroadcaster.ts`) | cached status of a directory, one poller for its viewers | stream, refresh, poll | reads that overtake each other, a first load beside a refresh, counting subscribers | viewers show what is cached and follow the remote | `VcsStatusBroadcaster` |
| Git and source control hosts (`git/`, `sourceControl/`) | – | commit, pull request | – | – | calls of external programs, not modelled |
| Text generation, workspace, project, observability | – | – | – | – | not modelled |
| Web client (`src/apps/web/src`) | stores, `wsTransport` sessions | subscribe, reconnect, reduce events | reconnects chained while closing | each subscription runs on the last session | transport in `BoardSubscription` and `ShellSubscription` as far as it matters; its sessions not yet |
| **Desktop** (`src/apps/desktop/src/backend/DesktopBackendManager.ts`) | supervised backend process | start, restart with back-off, stop, stop with a timeout | exit racing a stop, a start waiting for the mutex | one backend at a time, none left behind, a stop holds | `BackendManager` |
| Contracts, ssh, tailscale, marketing, scripts | – | – | – | – | not modelled |

Interaction: everything that changes shared state goes through `dispatch` of
the engine (a call that returns when the worker answers) and comes back as
events on `streamDomainEvents` (a PubSub). Reactors and web socket handlers
read `getReadModel()` or SQL between awaits, so what they know may be old when
they dispatch. This is why `TeamTasks` and `BoardSubscription` may use a
dispatch, or a commit followed by a publish, as atomic steps:
`OrchestrationEngine` shows that a command settles atomically and once, that
the stream follows the log, and that the read model of a subscriber is not
behind the event it got.

### The hazards

They are listed at their lines in `PROJECT.json`. The properties below are
derived from that list; a hazard without a property has a note.

## 2. Modules

| Module | What it is |
|---|---|
| `CommandLog` | what the engine promises: a command id is settled once and atomically |
| `OrchestrationEngine` | the engine with its log, projectors, receipts, crash and upgrade; refines `CommandLog` |
| `TeamTasks` | spawn, follow-up, close, the reactor, native subagents, a restart |
| `BoardSubscription` | the subscription of one browser to one board |
| `ShellSubscription` | the subscription of one browser to the list of threads |
| `VcsStatusBroadcaster` | the status of one working directory, its viewers, refreshes and poller |
| `CoalescingWork` | what a coalescing worker promises |
| `KeyedCoalescingWorker` | the worker with its sets of keys and its queue; refines `CoalescingWork` |
| `TerminalSessions` | the terminals of a thread, their processes and histories, over `CoalescingWork` |
| `ProviderSessions` | the provider sessions of one thread and the binding its calls are routed by |
| `Checkpoints` | the checkpoints of one thread: ingestion, checkpoint reactor, git refs, revert |
| `AssistantText` | how the text of one turn becomes messages |
| `ThreadForks` | how a thread is made in several steps, and undone |
| `BackendManager` | the desktop application's supervision of the server process |
| `*Proofs` | TLAPS theorems about the module of that name; `TeamAndBoardProofs` about `TeamTasks` and `BoardSubscription`, `SubscriptionProofs` about `ShellSubscription` and `VcsStatusBroadcaster`, `ThreadProofs` about `Checkpoints` and `ThreadForks`, `ProcessProofs` about `BackendManager` and `ProviderSessions` |
| `MC*` | constants for TLC; `MCEngineAndTerminals`, `MCTeamAndBoard`, `MCThreadParts` and `MCParts` put several parts into one run |

Operators called `...Inclusive`, `Unlimited...`, `PassesAgain` and the like,
each just before a definition of the code, are *mutants*: the definition with a
plausible bug. No specification uses them; `PROJECT.json` says which property
each must violate.

Parts that share no state are checked in one run where that saves one: a
variable `part`, chosen at the start, says which of them the behaviour is about,
only its actions are taken, and the fairness is its own. The states of such a
run are the sum of those of its parts, not their product.

### OrchestrationEngine

`log`, `receipts`, `rows` (per projector the sequence of event numbers applied),
`cursor` and `files` survive a crash; `queue`, `readModel`, `got` (what each
subscriber received) and the worker's `pc` do not. The steps of the worker are
the awaits of `processEnvelope` (147-334): take a command, answer from its
receipt, decide, append and project one event at a time inside the
transaction, commit with the receipt, install the read model, publish one event
at a time, answer. Any SQL step may fail (`SqlFails`); the failure path
reconciles the read model from the snapshot, publishes what it had missed, stores
a rejection and answers. The decider is reduced to what the engine can tell
apart: a command is permitted or not, and yields no, one or two events.
`Crash` may happen at any step; `Start`, `BootstrapEvent`,
`BootstrapNextProjector` and `Serve` are the start-up; `Upgrade` starts a
release that has one projector more.

### TeamTasks

A dispatch is one step. The three calls of the service that await between
checks and commands (`spawnChild`, `sendChildMessage`, `closeChild`) are one
action per await, with their program counters in `coord`, `mail` and `closing`.
The reactor (`inbox`, `sync`) reads a child, awaits, and marks what it derived.
`child` is what `deriveStatus` looks at: session, latest turn, pending
questions, and the turn diff that alone completes a turn. The provider, ingestion
and the checkpoint reactor are reduced to what they do to that. Two sources of
truth are kept apart: `rows` in SQL and `known`/`linked`, the lists of the
decider's read model, which `Restart` empties because `getCommandReadModel`
does not load them.

### BoardSubscription

`pc` walks through the four reads of `subscribeProject` (1017-1042) and the
snapshot to `open`; commits may happen between any two. `GoLive` is the forked
fiber. `replay` is the position in the page being streamed and what the limit
leaves; `FilterReplay` and `FilterLive` are `toBoardStreamEvent` on either side of
the merge, `Deliver` sends what passed. Filtering and sending are two steps,
because the other side may run in between. An event is its sequence number.
`board` is the set of events the browser's board reflects. Left out: optimistic
updates of the browser, commands of several events, and attaching to another
environment.

### ShellSubscription

`LoadSnapshot` reads rows and sequence in one transaction and sends them,
`GoLive` subscribes afterwards, `Send` reads the row of the thread an event is
about as it is by then and sends it with the event's sequence. The browser keeps
`version`, the sequence and the time of what it applied, over lost connections
and restarts, and skips what is not newer; a snapshot replaces all it shows. Times
are the clients', so `stamp` may go back. `missed` remembers the threads with an
event that fell between snapshot and live stream or whose row could not be read,
until something later shows the row. The six queries of a row are one step.

### VcsStatusBroadcaster

A read of git has two moments: when git was looked at and when the answer is
cached. `Publishes` changes the cache and offers the change to every viewer's
queue in one step, because nothing is awaited in between. `View`, `LoadReads`,
`LoadEnds` and `Receive` are `streamStatus`; `Poll` is the poller that the first
viewer forks and the last one interrupts; `Refresh...` is `refreshStatus` and
`refreshLocalStatus` as requests, reactors and git actions call them. `misled`
remembers viewers under whose eyes a first load replaced the cached local part
without publishing it. Left out: GitManager's cache of one second and the length
of the back-off; `getStatus`, which nothing calls.

### KeyedCoalescingWorker and CoalescingWork

Every action is one transaction of the code: `Enqueue`, `Drain` and
`DrainReturns` of the callers, `Take`, `Begin`, `Succeed`, `Fail`, `Cleanup` and
`Requeue` of the fiber. `CoalescingWork` says of the same values only that their
merge waits, that one is worked on at a time, and that the worker does not rest
while one waits; the terminals use it in the place of the worker.

### TerminalSessions

An action is what happens between two suspensions of an operation (`op`, which
holds the lock of its thread), of a drain of process events (`fibers`) or of the
persist worker. Sessions and processes are never forgotten by the model (`sess`,
`procs`), so that one that nothing holds is seen. A history is the sequence of
outputs in it. `strays`, `discarded` and `unwritten` name what the code is known
to lose: a session evicted while it was being started, events cleared with the
history, a write that failed. Left out: `write` and `resize` (calls of the
process), polling for subprocesses, the escalation of signals, the cap on a
history, old files, the shutdown.

### ProviderSessions

`reactor` is the start of a session by the command reactor, which stops the stale
ones of other adapters and writes the binding last; `calls` are turns, interrupts,
answers, roll-backs and stops, each of which looks the binding up, may resume a
session, and writes the binding. `listSessions` dies when a live session
contradicts the binding (906-919): the model asks when that can be. `overlapped`
and `failed` remember, since the last start began, a routed call of another
instance and a failing stop or write; nothing else may break the agreement. Left
out: resume cursors, directories, models, and changes of the set of instances.

### Checkpoints

The provider's events reach ingestion (`ingest`) and the reactor (`runtime`)
separately, and what ingestion and the reactor dispatch comes back to the reactor
as `domain` events; the reactor takes from its two inputs in either order. A
workspace is the number of the edit that made it, a ref holds one. A capture, a
record and each step of a revert are steps of their own and may fail. Refs are
deleted one by one, as `deleteCheckpointRefs` does: git may refuse to delete one,
which is ignored, or the call fails, having deleted it or not, and the turns stay on
the list. `torn` remembers the counts whose refs a failed revert has deleted, until
they are captured again; of these alone `CheckpointsAreStored` asks nothing, and
while a revert is under way of what it is about to take off the list. A restore is
one step: one that fails half-way is not told from one that was followed by a
failure. A thread in a git repository; only Codex reports diffs; a user asks for a
turn, and the browser for a revert, only while no turn is active. Left out: diffs
between checkpoints and the rollback of the provider's conversation.

### AssistantText

The ingestion worker takes one event at a time, so an event is one step, but its
writes may fail at any point and the rest of the event is then skipped: `Handle`
chooses how many writes succeed. `store` holds the rows of messages and the three
caches (buffered text, ids of the turn, segment). A message is an item and a
segment. `excuses` names why the text shown may differ from what was said: a
"failure", a "switch" to streaming while text was buffered (its order), and a
"blank" (finding 8). Left out: cache sizes and their two hours, text without a
turn, proposed plans, activities. `turn.aborted` has no handler in the code, and
so no action here.

### ThreadForks

`at` is the next step of a fork in a worktree of its own, of one that shares its
source's workspace, or of a first turn (`After`); `EndEarly` lets any step fail or be
interrupted, and says what it may leave; `AfterUndoing` is `cleanupForkAttempt`,
each step of which may fail (`SkipDrop`) and is then skipped. `cleanup` is what the
code has noted to undo: a worktree once git has made it, the thread once the engine
has answered. Others edit, commit and move HEAD in the source, the user deletes the
thread, and the deletion reactor closes its terminals. `slips` names what is excused:
a worktree or branch of a call of git that ended early, a thread whose creation
nobody waited for (its worktree and copies are then removed, and it stays), a failed
step of the undoing, a terminal opened for a thread that was deleted before. The
terminal of the setup script also stays when the thread was never made. A first
turn is one with all its steps; its worktree is not removed when it fails.
Left out: the history a fork imports, and the provider session and the grants of a
deleted thread.

### BackendManager

`fibers` are the calls of `start` (the application's or a restart's), `runs` the
runs with their process and scope, `mutex` the lock that `start`, `stop` and the
end of a run hold. What goes on without it (the delay of a restart, the process,
the readiness probe, the closing of a stopped run) are steps of their own. The
application calls `start` once, `stop` at quit, and `stop` with a timeout before it
installs an update; a second start is in the bounds because the manager's interface
allows it. A start that waits for the mutex when a stop takes effect starts the
backend after it. The length of delays is left out.

## 3. What is checked

Each run finishes within three minutes with two workers on most machines.
`CHECK_DEADLOCK FALSE` in each configuration is for behaviours that end because
nobody asks for anything more.

| Run | Question | Bounds and why they are enough |
|---|---|---|
| `engine_and_terminals` | Engine: do retries, failures, a crash and an upgrade at every step ever repeat, lose or half-apply a command, let read model, tables or stream diverge from the log, or break `CommandLog`? Is every caller answered and every event projected? Terminals: does every operation end, is every exit noticed? | two callers, one thread, commands that create it (two of them race), append two events, or repeat; three dispatches (so an id is sent again after its answer), one crash, two projectors of which one comes with the upgrade, one subscriber. Two terminals of one thread that both run, one retained, one operation, two outputs, one trouble. 494 327 states |
| `team_and_board` | Team: do final statuses hold and failed spawns leave nothing behind, with a failure, a close and a restart anywhere, and does a task that meets neither failure nor restart settle? Board: do replay and live stream together deliver nothing twice, miss nothing that was not committed while loading, and deliver what comes later? | one child in git: its task, thread, reactor and closer are five processes already. Three events of any kind, a replay limit of two in pages of one (so the limit is hit and the page loop runs), one reconnect, failing reads. 508 828 states |
| `thread_parts` | Do the decider's guards hold the limit, the nesting rule and native final states? Is every listed checkpoint in git, and every placeholder replaced? Is the text of a turn shown once and in order, and does a turn leave nothing behind? Are processes held by a session, and histories kept? Is a fork a snapshot of its source, and a failure undone? | a child, a would-be grandchild and a native subagent, limit one, three reports, a message, refused turns. Two turns, one edit, one revert, one failed input. Four chunks of text of which two fit the buffer, a failing write, a change of the setting. Two terminals as above with two operations and one output. A fork of each kind with one copy, two edits (a read that is torn needs both), one move of HEAD and two steps that fail (one and one of its undoing). Safety only, 1 868 273 states |
| `parts` | Worker: are values that wait worked on, do drains return, and only when done? Backend: is none left behind, does a wanted one come back, does a stop hold? Shell: does the browser show the rows? Sessions: does `listSessions` live? Status: do viewers show what is cached and follow the remote? | three keys, two values, one drain, enqueues without bound; two starts, three failures, both stops; two threads, three events, two faults; two instances, two routed calls, without bound; two viewers, one refreshing fiber, one change of git or of the setting. 488 905 states |
| `engine_replay_limit`, `engine_files`, `team_restart_limit`, `team_reopened`, `team_no_git`, `board_misses`, `checkpoint_mid_turn`, `assistant_text_twice` (violated) | see Findings | the smallest instance each; a read limit of one stands for more than 1000 events |

Fairness.
- `OrchestrationEngine`: the worker and the start-up keep running (`WorkerStep`,
  `StartUp`): the worker is `Effect.forever` on a queue, and an answer needs
  nothing else. Nothing is assumed of callers or crashes.
- `TeamTasks`: each fiber of the service, the reactor and the checkpoint reactor
  keep running, the provider ends a turn it began and starts what was requested,
  a user answers a question; nothing forces a spawn, message, close or failure.
- `BoardSubscription`: the engine's worker publishes, the forked fiber starts, and
  the live half of the merge and both senders run; the replay is not assumed to
  make progress, nothing is assumed of commits or connections.
- `ShellSubscription`: the engine publishes; an open connection loads its snapshot
  (or the load fails and is given up), goes live and sends; nothing makes the browser reconnect sooner or the reads
  succeed. `LaterChangesAreShown` excuses a subscription that was given up.
- `VcsStatusBroadcaster`: the poller's fiber runs and each stream sends what it
  has. `RemoteIsFollowed` excuses behaviours in which polls fail again and again.
- `KeyedCoalescingWorker`: its one fiber runs, and a drain that may return does.
  `DrainsReturn` excuses behaviours in which values keep coming in for the key of
  the drain, or for one that the fiber then never leaves: the code starves the
  others in that case.
- `BackendManager`: what the manager does by itself goes on; a process need not
  end nor become ready.
- `TerminalSessions`: an operation, the drains and the persist worker go on; a
  process need not exit.

### Findings

Eight runs show that the code departs from what the repository says:

1. `engine_replay_limit`: bootstrap replays at most 1000 events per projector, so
   a new or reset projector serves with a gap that its cursor later jumps over.
2. `engine_files`: attachment files are removed while the transaction is still
   open; a rollback leaves a thread without its files.
3. `team_restart_limit`: the decider's read model loses team tasks and parents at
   a restart; limit, nesting rule and sticky final states are gone until new
   events bring them back.
4. `team_reopened`: a follow-up to a completed child is completed again from the
   previous turn before the new one starts.
5. `team_no_git`: outside git nothing completes a child's turn, and its task runs
   for ever.
6. `board_misses`: the snapshot's rows are read before its cursors; an event
   between the two is in no row and the filter drops it.
7. `checkpoint_mid_turn`: a diff reported while a turn still edits makes the reactor
   capture its checkpoint then, and the capture at the end of the turn is skipped.
8. `assistant_text_twice`: an item whose blank beginning is dropped at a pause has
   no first segment; the end of the item writes its whole text once more.

## 4. What is proved

`tlapm` checks every leaf; no obligation is assumed. The assumptions on
constants are the named ASSUMEs, which TLC evaluates in every run: ranges, the
outcomes a capture can have, that the terminals a client opens are different ones
and that no history is the value that stands for none.

**OrchestrationEngineProofs.** `TypeCorrect` by induction over the actions.
`CommandsAtMostOnce` and `AcknowledgedIsDurable` follow from the inductive
`SettleInv = TypeOK /\ WorkerHoldsFreshCommand /\ AtMostOnce /\ AcksAreDurable`.
`AtMostOnce` alone is not inductive: it says nothing of a transaction under way,
and a commit could append events of a command that has a receipt.
`WorkerHoldsFreshCommand` (`WorkerIsFresh`) supplies that an open transaction
belongs to a command without a receipt and holds its events 1, 2, ... in order.
`EngineImplementsCommandLog` is the refinement: under `SettleInv` a commit is
`CommandLog!Accept`, a stored rejection `CommandLog!Reject`, all else stutters.
`CursorsExact` adds to it that what a projector applied is increasing and ends at
its cursor, and that no cursor is beyond the log (`GrowthInv`); `HistoryStays` is
the action property read off the same invariant: the log is only extended, a
receipt never changes, a cursor never goes back.
`ModelsAgree`, `StreamFollows` and `ReplayIsWhole` assume `WithinOneRead`, that no
start finds a projector further behind than the `ReadLimit` events of one read. The
run `engine_replay_limit` shows that without it the third is false, and the others
with it. Their invariant `AgreeInv` says that a projection holds every event up to
its cursor (`RowsAreWhole`), that the replay may still read what the projectors
after the current one lack (`CaughtUp`), that read model, installed events and log
belong together at each step of the worker (`ReadModelFollows`) and that a
subscriber has what was published since it came (`SubscribersFollow`).
`AgreesWithoutUpgrade` discharges the hypothesis when no release adds a projector:
then no crash leaves a projector behind (`NoneBehind`), whatever `ReadLimit` is.

**TeamAndBoardProofs.** Of the team tasks: `TeamTypeCorrect` includes where a spawn may be while its
task and thread exist. `OnlyMessagesReopen` needs only the types: every mark
goes through the decider. `ChildrenDoNotDelegate`, `SpawnsAreLimited` and
`NativeFinalsHold` assume `MaxRestarts = 0`, that is, a behaviour up to the first
restart; the run `team_restart_limit` shows why. Their invariant `FirstRun`
adds that the read model lists every task that has a row and knows the parent
of every linked thread. `FailuresAreReported` and `WorktreesAreKept` hold of every
behaviour, restarts included. The first needs that the threads of the parents of
all known tasks exist (`OwnersExist`), or the decider could refuse the report.

Of the board's subscription: `BoardTypeCorrect`, `DeliveredOnce` and
`MissesOnlyWhileLoading` for every limit, page size, interleaving, reconnect and
failure. The invariant `IInv` says that the queue holds consecutive events since
the subscription is live (`QueueFollows`), that a cursor is not behind the rows of
its projection (`RowsBeforeCursors`), that an event past the filter is new
(`Fresh`), that everything either stream consumed is at most the cursor of its
kind (`Consumed`), and that everything up to that cursor is in the browser,
on its way, or was committed while loading (`Kept`). `Consumed` is what makes
the overtaking harmless: when the filter lets an event through, the events it
passes over were seen, or were published before the subscription was live.

**KeyedCoalescingWorkerProofs.** `WorkerTypeCorrect` and `NothingForgotten` by
one induction: together they are inductive. `DrainsAreIdle` and
`WorkerImplementsCoalescingWork` (the safety part of the refinement) follow.

**SubscriptionProofs.** `ShellIsShown`: a row that is not shown as it is, and not
missed, has its last event, or its removal, still to come (`ToldOrPending`):
newer than the browser's version and not passed by the live stream.
`ViewersAreTold`: the last queued change of a part is what is cached, or none is
queued and the viewer shows it (`WillShow`); `LiveIsLoaded` says that nobody is
live before a local status is cached, so that a first load of another viewer
cannot disturb it.

**ProcessProofs.** `NoneLeftBehind` and `StopHolds` of the backend, for every
number of starts, stops and failures. The invariant adds that at most one start
prepares and at most one run is finalized, each in the mutex and the first while no
run is active (`OneStarts`, `OneEnds`), that a run ends after its process, and that
the one fiber that sleeps is the one a stop interrupts (`OneSleeps`).
`SessionsBound` of the provider sessions: while no call of another instance
overlapped the last start and nothing of it failed, all calls under way are
routed to the binding, during a start that is its instance too, and the sessions
that are live are that instance's or among those it is about to stop (`Agreed`).

**TerminalSessionsProofs.** `ProcessesAreHeld`: a live process is the one of its
session, and that session is in the map, or is a stray: it was evicted while it was
starting. The inductive `HeldInv` says what may be relied on by a session
(`SessionOK`: a stopped one has no process, one whose process runs is in the map or a
stray), by a process (`ProcsOK`) and by an operation that waits (`OpOK`: what it is
about to start, persist or delete). These are stated with the map and the sessions as
parameters, because most actions first change a session and then evict others:
`MayBecome` is what a session may turn into, `Ready` what the map must satisfy
before the eviction, and `Evicted` that it satisfies it after. `HistoriesAreKept`
builds on it (`KeptInv`): if the last write of a terminal's history did not fail and
it has no stray, the newest of what is on disk, being written or queued is the
history of its last session. `TerminalsImplementCoalescingWork`: the persist worker
is used as `CoalescingWork` promises to serve its callers; with
`WorkerImplementsCoalescingWork` this joins the manager to the worker's code.

**ThreadProofs.** `ListedCheckpointsAreStored`: a capture is in git before it
is recorded, a revert deletes only later refs than it keeps, and what is listed
without a ref is among those the revert deletes or a failed one has deleted
(`StoredInv`); a failure adds the former to the latter, and a revert that completes
takes them off the list. `NoPlaceholderStays`:
while nothing failed, the event of each placeholder that is listed is in the
reactor's queue or is the job it works on (`Awaited`); a job that ends does so
with the placeholder replaced. A queued end of the turn would not do, for it may
be refused. `ForksSnapshot`: while
HEAD is the commit that was read, and did not come back to it, what was read is what
the workspace was (`SnapshotInv`); a commit is always a new one.
`ForkFailuresUndone`: what exists is noted for undoing or excused, and what a step of
the undoing removed stays so (`UndoInv`). It needs `SnapshotInv` where the patch is
applied: there is a worktree then.

**AssistantTextProofs.** `EndedTurnsAreClean`: while a turn runs, every message
that has text in the buffer, streams or is active is among those remembered for the
end of the turn, whichever writes failed (`CleanTurn`), and a turn that ends without
a failure takes each of these out of the buffer and ends it. `SaidTextIsKept` needs
more (`KeptTurn`). `Whole`: only the active message has text that waits; no two
messages have one id; the messages and that text, in this order, hold what was said.
`Segments`: the message it waits for is the last one or is yet to be written, no
message has an id that a later segment of the item will get, and the item's first
segment is written before a second one starts, which is what `item.completed`
looks at. The last part fails when a pause drops a blank beginning (finding 8), so
that `KeptTurn` says it only of a turn without that excuse. Every write is shown to
let the messages grow at their end by the text that waited, or not at all
(`Grows`). `FlushAll` and `OnTurnCompleted` write once for each remembered message,
and the first write that fails skips the rest. The provers do not instantiate the
library's induction theorems, which take an operator, so the induction is over a
set: `SetInduction` says that a set with 0 and every successor of its members holds
all naturals (if it lacked n, k -> k - 1 would be an injection of the finite set of
what it lacks up to n into itself that never reaches n), and `Iteration` that the
recursive function of a loop exists. For this the model writes its loops as recursive
functions and its properties over the entries of texts, without folds.

Only model-checked: liveness and the fair part of `WorksAsPromised`, which TLAPS
cannot prove. Every invariant that a passing run checks is stated by a theorem,
some under a hypothesis that the theorem names.

## 5. What is left

In this order; each with the theorem that is worth its while:

1. The detail of a thread: `subscribeThread` (`ws.ts` 876-935) sends live events
   without the versions of the shell, so streamed text may be lost or doubled
   between snapshot and live stream; and the retained subscriptions of the browser.
2. `BoardCards`: link and archive rules over live rows.
3. `SessionCredentials`: pairing links used once, expiry, revocation, connection
   counts, and with it the grants of the coordinator's tools.
4. The gate of `serverRuntimeStartup.ts` (81-123), `DrainableWorker`, the sessions of
   `WsTransport`, the files of settings and keybindings.
5. Theorems: type correctness of the parts whose invariants do not need it.

### Not modelled

Provider adapters, agent protocol clients, provider instances, git and source
control hosts are calls of programs whose behaviour the repository does not
define; most of `src/packages/effect-*` is generated from schemas. Text generation,
projects and workspaces, remote access packages, marketing, scripts, contracts
have no state that interacts; reactor wiring starts what is modelled elsewhere;
observability observes. The user interface, by far the largest part of the
code, reduces events to views and keeps drafts, dialogs and layout in one thread of
execution. That is why the modules, which were chosen for the code in which
processes meet, cover only a few percent of the repository's lines.
