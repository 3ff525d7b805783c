------------------------ MODULE OrchestrationEngine ------------------------
(***************************************************************************)
(* The orchestration engine: callers dispatch commands into an unbounded   *)
(* queue; one worker takes them in order, looks for a receipt, decides     *)
(* against the in-memory read model, and in one SQL transaction appends    *)
(* the events, runs the projectors on each and stores the receipt; then it *)
(* installs the new read model, publishes the events and answers.  The     *)
(* process may crash at any step and restart, which replays the log into   *)
(* the projectors that are behind and reloads the read model from them.    *)
(*                                                                         *)
(* An event's sequence number is its index in log.  A projection is the    *)
(* sequence of event numbers applied to it, so that a skipped, repeated or *)
(* reordered event shows.                                                  *)
(***************************************************************************)
EXTENDS Naturals, Sequences, FiniteSets

CONSTANTS
  Commands,       \* command ids
  Kind,           \* [Commands -> Kinds], what a command asks for
  Target,         \* [Commands -> Threads], the thread it is about
  Threads,        \* thread ids
  Callers,        \* fibers that dispatch (web socket handlers, reactors)
  Subscribers,    \* consumers of streamDomainEvents
  OldProjectors,  \* projectors of the release that is running first
  NumProjectors,  \* projectors of the release it may be upgraded to
  Required,       \* the projectors computeSnapshotSequence looks at
  ReadLimit,      \* DEFAULT_READ_FROM_SEQUENCE_LIMIT
  MaxDispatches,  \* bound: dispatches in a behaviour
  MaxCrashes      \* bound: crashes in a behaviour

Kinds == {"create", "update", "delete", "upsert"}
Projectors == 1..NumProjectors

ASSUME ConstantsAssumption ==
  /\ Kind \in [Commands -> Kinds]
  /\ Target \in [Commands -> Threads]
  /\ NumProjectors \in Nat \ {0}
  /\ OldProjectors \in 1..NumProjectors
  /\ Required \subseteq Projectors /\ \E p \in Required : p \in 1..OldProjectors
  /\ ReadLimit \in Nat \ {0}
  /\ MaxDispatches \in Nat
  /\ MaxCrashes \in Nat

VARIABLES
  \* In the database and on disk: survive a crash.
  log, receipts, rows, cursor, files, known,
  \* In memory.
  phase, boot, queue, readModel, got,
  \* The worker and its transaction.
  pc, current, startSequence, todo, txEvents, published, error,
  \* The callers, and bounds.
  callers, acks, dispatches, crashes

disk == <<log, receipts, rows, cursor, files, known>>
memory == <<phase, boot, queue, readModel, got>>
worker == <<pc, current, startSequence, todo, txEvents, published, error>>
clients == <<callers, acks, dispatches, crashes>>
vars == <<disk, memory, worker, clients>>

NoReceipt == [status |-> "none", seq |-> 0]
NotSubscribed == [on |-> FALSE, events |-> << >>]

Event == [cmd : Commands, n : Nat \ {0}, kind : Kinds, target : Threads]
Model == [rows : [Projectors -> Seq(Nat)], seq : Nat]
EmptyModel == [rows |-> [p \in Projectors |-> << >>], seq |-> 0]

-----------------------------------------------------------------------------
(* The decider and the projections, as far as the engine can tell.         *)

\* The thread t exists in the read model the decider looks at (a deleted
\* thread is still there, with deletedAt set).
Exists(t) == \E i \in 1..Len(readModel.rows[1]) :
               LET e == log[readModel.rows[1][i]] IN e.kind = "create" /\ e.target = t

\* requireThreadAbsent for a creation, requireThread for everything else.
Permitted(c) == (Kind[c] = "create") # Exists(Target[c])

\* How many events the decider returns: a turn start is a user message and
\* a turn request, an upsert that changes nothing is no event at all.
Produced(c) ==
  IF Kind[c] = "update" THEN 2
  ELSE IF Kind[c] = "upsert" /\ \E i \in 1..Len(readModel.rows[1]) :
                                   LET e == log[readModel.rows[1][i]]
                                   IN  e.kind = "upsert" /\ e.target = Target[c]
       THEN 0
  ELSE 1

EventOf(c, k) == [cmd |-> c, n |-> k, kind |-> Kind[c], target |-> Target[c]]

\* Every projector of the running release applies the events numbered seqs.
Applied(r, seqs) == [p \in Projectors |-> IF p \in 1..known THEN r[p] \o seqs ELSE r[p]]

\* computeSnapshotSequence: n is the smallest cursor of the projectors that
\* the running release requires.
RequiredNow == Required \cap 1..known
IsSnapshotSequence(n) == \A p \in RequiredNow : n <= cursor[p]

\* The numbers of up to ReadLimit events after s, as readFromSequence(s).
ReadFromInclusive(s) ==
  [i \in 1..(IF s = 0 THEN 0 ELSE Len(log) - s + 1) |-> s + i - 1]
ReadFrom(s) == [i \in 1..(IF Len(log) - s > ReadLimit THEN ReadLimit
                          ELSE IF Len(log) > s THEN Len(log) - s ELSE 0) |-> s + i]

\* The files of the thread go with the event that deletes it.
FilesAfter(e) == IF e.kind = "delete" THEN files \ {e.target} ELSE files

\* The numbers of the events of the open transaction, the log being n long.
Numbers(n) == [i \in 1..todo |-> n + i]

\* The cursors once every projector has applied event n.
CursorKept(n) == cursor
CursorAt(n) == [p \in Projectors |-> IF p \in 1..known THEN n ELSE cursor[p]]

\* nextCommandReadModel.
StaleReadModel == readModel
NextReadModel ==
  [rows |-> Applied(readModel.rows, Numbers(Len(log) - todo)), seq |-> Len(log)]

-----------------------------------------------------------------------------
Init ==
  /\ log = << >> /\ receipts = [c \in Commands |-> NoReceipt]
  /\ rows = [p \in Projectors |-> << >>] /\ cursor = [p \in Projectors |-> 0]
  /\ files = Threads /\ known = OldProjectors
  /\ phase = "stopped" /\ boot = [p |-> 1, left |-> ReadLimit] /\ queue = << >>
  /\ readModel = EmptyModel /\ got = [s \in Subscribers |-> NotSubscribed]
  /\ pc = "idle" /\ current = << >> /\ startSequence = 0 /\ todo = 0
  /\ txEvents = << >> /\ published = 0 /\ error = "none"
  /\ callers = [k \in Callers |-> "idle"] /\ acks = {}
  /\ dispatches = 0 /\ crashes = 0

-----------------------------------------------------------------------------
(* Callers and subscribers.                                                *)

\* A caller that is not waiting dispatches c, perhaps once more after a
\* failure or a lost answer.
Dispatch(k, c) ==
  /\ phase = "serving" /\ callers[k] # "waiting" /\ dispatches < MaxDispatches
  /\ queue' = Append(queue, [caller |-> k, cmd |-> c])
  /\ callers' = [callers EXCEPT ![k] = "waiting"]
  /\ dispatches' = dispatches + 1
  /\ UNCHANGED <<disk, phase, boot, readModel, got, worker, acks, crashes>>

Subscribe(s) ==
  /\ phase = "serving" /\ ~got[s].on
  /\ got' = [got EXCEPT ![s] = [on |-> TRUE, events |-> << >>]]
  /\ UNCHANGED <<disk, phase, boot, queue, readModel, worker, clients>>

\* Every current subscription receives the events numbered seqs.
Publish(seqs) == got' = [s \in Subscribers |->
  IF got[s].on THEN [got[s] EXCEPT !.events = @ \o seqs] ELSE got[s]]

AnswerNobody(st) == pc' = "idle" /\ UNCHANGED callers

\* The worker resolves the deferred of the command it holds and is free.
Answer(st) ==
  /\ callers' = [callers EXCEPT ![current.caller] = st]
  /\ pc' = "idle"

-----------------------------------------------------------------------------
(* The worker: processEnvelope.                                            *)

TakeCommand ==
  /\ phase = "serving" /\ pc = "idle" /\ queue # << >>
  /\ current' = Head(queue) /\ queue' = Tail(queue)
  /\ startSequence' = readModel.seq
  /\ pc' = "receipt"
  /\ UNCHANGED <<disk, phase, boot, readModel, got, todo, txEvents, published, error, clients>>

ReceiptIgnored == NoReceipt
ReceiptIfAccepted ==
  IF receipts[current.cmd].status = "accepted" THEN receipts[current.cmd] ELSE NoReceipt
Receipt == receipts[current.cmd]

\* A command with a receipt is not processed again: an accepted one answers
\* with the stored sequence, a rejected one fails as previously rejected.
AnswerFromReceipt ==
  /\ pc = "receipt" /\ Receipt.status # "none"
  /\ IF Receipt.status = "accepted"
       THEN Answer("ok") /\ acks' = acks \cup {[cmd |-> current.cmd, seq |-> Receipt.seq]}
       ELSE Answer("rejected") /\ UNCHANGED acks
  /\ UNCHANGED <<disk, memory, current, startSequence, todo, txEvents, published, error, dispatches, crashes>>

Decide ==
  /\ pc = "receipt" /\ Receipt.status = "none" /\ Permitted(current.cmd)
  /\ todo' = Produced(current.cmd)
  /\ txEvents' = << >>
  /\ pc' = "tx"
  /\ UNCHANGED <<disk, memory, current, startSequence, published, error, clients>>

\* A failing step of processEnvelope: a transaction it happens in is rolled
\* back, which the txEvents that are dropped here model.
Fail(e) ==
  /\ pc' = "failed" /\ error' = e /\ txEvents' = << >>
  /\ UNCHANGED <<disk, memory, current, startSequence, todo,
                 published, clients>>

DeciderRejects == pc = "receipt" /\ Receipt.status = "none"
                  /\ ~Permitted(current.cmd) /\ Fail("invariant")

\* A query or the transaction, its commit included, fails in the database.
SqlFails == pc \in {"receipt", "tx"} /\ Fail("sql")

\* "Command produced no events."
NoEvents == pc = "tx" /\ todo = 0 /\ Fail("invariant")

\* Append one event, project it in memory and run every projector on it.
\* Attachment files are removed right here, before the commit.
AppendEvent ==
  /\ pc = "tx" /\ Len(txEvents) < todo
  /\ LET e == EventOf(current.cmd, Len(txEvents) + 1)
     IN  /\ txEvents' = Append(txEvents, e)
         /\ files' = FilesAfter(e)
  /\ UNCHANGED <<log, receipts, rows, cursor, known, memory, pc, current,
                 startSequence, todo, published, error, clients>>

\* The result of a command is the sequence of its last event.
FirstSequence == Len(log) + 1
LastSequence == Len(log) + todo

\* The commit makes events, rows, cursors and the receipt durable at once.
Commit ==
  /\ pc = "tx" /\ todo > 0 /\ Len(txEvents) = todo
  /\ log' = log \o txEvents
  /\ rows' = Applied(rows, Numbers(Len(log)))
  /\ cursor' = CursorAt(Len(log) + todo)
  /\ receipts' = [receipts EXCEPT ![current.cmd] =
                    [status |-> "accepted", seq |-> LastSequence]]
  /\ pc' = "committed"
  /\ UNCHANGED <<files, known, memory, current, startSequence, todo, txEvents, published, error, clients>>

InstallReadModel ==
  /\ pc = "committed"
  /\ readModel' = NextReadModel
  /\ published' = 0
  /\ pc' = "publish"
  /\ UNCHANGED <<disk, phase, boot, queue, got, current, startSequence, todo, txEvents, error, clients>>

PublishEvent ==
  /\ pc = "publish" /\ published < todo
  /\ Publish(<<Len(log) - todo + published + 1>>)
  /\ published' = published + 1
  /\ UNCHANGED <<disk, phase, boot, queue, readModel, pc, current, startSequence, todo,
                 txEvents, error, clients>>

AnswerAccepted ==
  /\ pc = "publish" /\ published = todo
  /\ Answer("ok")
  /\ acks' = acks \cup {[cmd |-> current.cmd, seq |-> Len(log)]}
  /\ UNCHANGED <<disk, memory, current, startSequence, todo, txEvents, published, error, dispatches, crashes>>

\* reconcileReadModelAfterDispatchFailure: whatever is in the log after the
\* sequence the command started from is applied and published.
Reconcile ==
  /\ pc = "failed"
  /\ LET found == ReadFrom(startSequence) IN
     IF found = << >> THEN UNCHANGED <<readModel, got>>
     ELSE /\ readModel' =
               [rows |-> Applied(readModel.rows, found), seq |-> startSequence + Len(found)]
          /\ Publish(found)
  /\ pc' = IF error = "invariant" THEN "reject" ELSE "fail"
  /\ UNCHANGED <<disk, phase, boot, queue, current, startSequence, todo, txEvents, published, error, clients>>

\* The reconciliation itself fails; the failure is logged.
ReconcileFails ==
  /\ pc = "failed"
  /\ pc' = IF error = "invariant" THEN "reject" ELSE "fail"
  /\ UNCHANGED <<disk, memory, current, startSequence, todo, txEvents, published, error, clients>>

RecordRejection ==
  /\ pc = "reject"
  /\ receipts' = [receipts EXCEPT ![current.cmd] =
                    [status |-> "rejected", seq |-> readModel.seq]]
  /\ pc' = "fail"
  /\ UNCHANGED <<log, rows, cursor, files, known, memory, current, startSequence, todo,
                 txEvents, published, error, clients>>

\* Storing the rejection fails; the failure is swallowed.
RecordRejectionFails ==
  /\ pc = "reject" /\ pc' = "fail"
  /\ UNCHANGED <<disk, memory, current, startSequence, todo, txEvents, published, error, clients>>

AnswerFailed ==
  /\ pc = "fail"
  /\ Answer(IF error = "invariant" THEN "rejected" ELSE "failed")
  /\ UNCHANGED <<disk, memory, current, startSequence, todo, txEvents, published, error, acks, dispatches, crashes>>

-----------------------------------------------------------------------------
(* Start-up, crash, upgrade.                                               *)

Start ==
  /\ phase = "stopped"
  /\ phase' = "bootstrap" /\ boot' = [p |-> 1, left |-> ReadLimit]
  /\ UNCHANGED <<disk, queue, readModel, got, worker, clients>>

\* The projector of the replay has events left to read.
BehindIfStored(p) == boot.left > 0 /\ cursor[p] > 0 /\ cursor[p] < Len(log)
Behind(p) == boot.left > 0 /\ cursor[p] < Len(log)

\* bootstrapProjector: one event, in a transaction of its own.
BootstrapEvent ==
  /\ phase = "bootstrap" /\ boot.p <= known /\ Behind(boot.p)
  /\ LET p == boot.p
         s == cursor[p] + 1
     IN  /\ rows' = [rows EXCEPT ![p] = Append(@, s)]
         /\ cursor' = [cursor EXCEPT ![p] = s]
         /\ files' = FilesAfter(log[s])
  /\ boot' = [boot EXCEPT !.left = @ - 1]
  /\ UNCHANGED <<log, receipts, known, phase, queue, readModel, got, worker, clients>>

BootstrapNextProjector ==
  /\ phase = "bootstrap" /\ boot.p <= known /\ ~Behind(boot.p)
  /\ boot' = [p |-> boot.p + 1, left |-> ReadLimit]
  /\ UNCHANGED <<disk, phase, queue, readModel, got, worker, clients>>

\* getCommandReadModel, and the worker is forked.
Serve ==
  /\ phase = "bootstrap" /\ boot.p > known
  /\ \E p \in RequiredNow : /\ IsSnapshotSequence(cursor[p])
                            /\ readModel' = [rows |-> rows, seq |-> cursor[p]]
  /\ phase' = "serving"
  /\ UNCHANGED <<disk, boot, queue, got, worker, clients>>

\* The worker fiber dies with the process.
WorkerGone == pc' = "idle" /\ current' = << >>

\* The process ends: the queue, the read model, the subscriptions and an
\* open transaction are gone, and nobody will answer the waiting callers.
Crash ==
  /\ phase # "stopped" /\ crashes < MaxCrashes
  /\ crashes' = crashes + 1
  /\ phase' = "stopped" /\ queue' = << >> /\ readModel' = EmptyModel
  /\ got' = [s \in Subscribers |-> NotSubscribed]
  /\ WorkerGone /\ startSequence' = 0 /\ todo' = 0
  /\ txEvents' = << >> /\ published' = 0 /\ error' = "none"
  /\ callers' = [k \in Callers |->
       IF callers[k] = "waiting" THEN "lost" ELSE callers[k]]
  /\ UNCHANGED <<disk, boot, acks, dispatches>>

\* The next release, with more projectors, is installed.
Upgrade ==
  /\ phase = "stopped" /\ known < NumProjectors
  /\ known' = NumProjectors
  /\ UNCHANGED <<log, receipts, rows, cursor, files, memory, worker, clients>>

-----------------------------------------------------------------------------
WorkerStep ==
  \/ TakeCommand \/ AnswerFromReceipt \/ Decide \/ DeciderRejects \/ SqlFails
  \/ AppendEvent \/ NoEvents \/ Commit \/ InstallReadModel \/ PublishEvent
  \/ AnswerAccepted \/ Reconcile \/ ReconcileFails \/ RecordRejection
  \/ RecordRejectionFails \/ AnswerFailed

StartUp == Start \/ BootstrapEvent \/ BootstrapNextProjector \/ Serve

Next ==
  \/ \E k \in Callers, c \in Commands : Dispatch(k, c)
  \/ \E s \in Subscribers : Subscribe(s)
  \/ WorkerStep \/ StartUp \/ Crash \/ Upgrade

Spec == Init /\ [][Next]_vars

\* The worker fiber and the start-up run whenever they can; nothing makes
\* callers dispatch, the database fail or the process crash.
Fairness == WF_vars(WorkerStep) /\ WF_vars(StartUp)
FairSpec == Spec /\ Fairness

-----------------------------------------------------------------------------
(* Properties.                                                             *)

\* What every variable may hold; while the worker is busy it holds an
\* envelope, and outside "serving" it is idle with an empty queue.
TypeOK ==
  /\ log \in Seq(Event)
  /\ receipts \in [Commands -> [status : {"none", "accepted", "rejected"}, seq : Nat]]
  /\ rows \in [Projectors -> Seq(Nat)]
  /\ cursor \in [Projectors -> Nat]
  /\ files \subseteq Threads
  /\ known \in 1..NumProjectors
  /\ phase \in {"stopped", "bootstrap", "serving"}
  /\ boot \in [p : Nat \ {0}, left : Nat]
  /\ queue \in Seq([caller : Callers, cmd : Commands])
  /\ readModel \in Model
  /\ got \in [Subscribers -> [on : BOOLEAN, events : Seq(Nat)]]
  /\ pc \in {"idle", "receipt", "tx", "committed", "publish", "failed", "reject", "fail"}
  /\ pc # "idle" => phase = "serving" /\ current \in [caller : Callers, cmd : Commands]
  /\ startSequence \in Nat /\ todo \in Nat /\ published \in Nat
  /\ pc \in {"committed", "publish"} => todo <= Len(log)
  /\ txEvents \in Seq(Event)
  /\ error \in {"none", "invariant", "sql"}
  /\ callers \in [Callers -> {"idle", "waiting", "ok", "rejected", "failed", "lost"}]
  /\ acks \subseteq [cmd : Commands, seq : Nat]
  /\ dispatches \in Nat /\ crashes \in Nat

\* The events of a command are in the log at most once, all of them or none:
\* they are consecutive, numbered 1, 2, ... and end at the sequence its accepted
\* receipt names, whatever retries, failures and crashes came between.
AtMostOnce ==
  \A c \in Commands :
    LET q == receipts[c].seq IN
    IF receipts[c].status = "accepted"
      THEN /\ q \in 1..Len(log) /\ log[q].n <= q
           /\ \A i \in 1..Len(log) :
                IF q < i + log[q].n /\ i <= q
                  THEN log[i].cmd = c /\ log[i].n + q = log[q].n + i
                  ELSE log[i].cmd # c
      ELSE \A i \in 1..Len(log) : log[i].cmd # c

\* A success a caller was told of is in the log, with the sequence it was
\* told, and stays there across crashes; two callers of one command id were
\* told the same.
AcksAreDurable ==
  \A a \in acks : /\ receipts[a.cmd] = [status |-> "accepted", seq |-> a.seq]
                  /\ a.seq \in 1..Len(log) /\ log[a.seq].cmd = a.cmd

\* What the worker holds between its steps: a command whose transaction is
\* open, or whose rejection is about to be stored, has no receipt yet; the
\* open transaction holds the first events of that command; a command about
\* to be published and answered has the receipt of the last event.
WorkerHoldsFreshCommand ==
  /\ pc \in {"tx", "reject"} \/ (pc = "failed" /\ error = "invariant") => Receipt.status = "none"
  /\ pc = "tx" => /\ Len(txEvents) <= todo
                 /\ \A i \in 1..Len(txEvents) : /\ txEvents[i].cmd = current.cmd
                                                /\ txEvents[i].n = i
  /\ pc \in {"committed", "publish"} => Receipt = [status |-> "accepted", seq |-> Len(log)]

Upto(n) == [i \in 1..n |-> i]

\* Between two commands the read model of the engine, the rows of every
\* projector that counts and the log say the same: each event applied once,
\* in order, none missing.
ReadModelsAgree ==
  phase = "serving" /\ pc # "committed" =>
    /\ readModel.seq = Len(log)
    /\ \A p \in RequiredNow : rows[p] = Upto(Len(log)) /\ readModel.rows[p] = rows[p]

\* A projector's stored cursor is the last event it applied, and it never
\* applied one twice or out of order.
CursorsAreExact ==
  \A p \in Projectors :
    /\ cursor[p] = IF rows[p] = << >> THEN 0 ELSE rows[p][Len(rows[p])]
    /\ \A i, j \in 1..Len(rows[p]) : i < j => rows[p][i] < rows[p][j]

\* A subscriber receives consecutive events of the log, each once, never one
\* that the read model it may look at does not contain yet; when the worker
\* is free it has received the log to its end.
StreamFollowsLog ==
  \A s \in Subscribers :
    LET e == got[s].events IN e # << >> =>
      /\ \A i \in 1..Len(e) : e[i] = e[1] + i - 1
      /\ e[Len(e)] <= readModel.seq
      /\ pc = "idle" => e[Len(e)] = Len(log)

\* Start-up ends only when every projector has every event of the log:
\* "Bootstrap projections by replaying persisted events."
BootstrapCatchesUp ==
  phase = "serving" /\ pc = "idle" => \A p \in 1..known : rows[p] = Upto(Len(log))

\* The attachment files of a thread are gone only if its deletion is in the
\* log, or is in the transaction under way.
FilesFollowTheLog ==
  \A t \in Threads \ files :
    \/ \E i \in 1..Len(log) : log[i].kind = "delete" /\ log[i].target = t
    \/ \E i \in 1..Len(txEvents) : txEvents[i].kind = "delete" /\ txEvents[i].target = t

\* What is stored stays: the log is only extended, a receipt never changes,
\* a projector's cursor never goes back.
HistoryStep ==
  /\ Len(log') >= Len(log) /\ \A i \in 1..Len(log) : log'[i] = log[i]
  /\ \A c \in Commands : receipts[c].status # "none" => receipts'[c] = receipts[c]
  /\ \A p \in Projectors : cursor'[p] >= cursor[p]
History == [][HistoryStep]_vars

\* Commands settle as CommandLog says: atomically and once.
Commits == INSTANCE CommandLog WITH outcome <- [c \in Commands |-> receipts[c].status]
CommandsSettleOnce == Commits!Spec

\* Every dispatch is answered, unless the process crashes first.
EveryDispatchIsAnswered ==
  \A k \in Callers : []<>(callers[k] # "waiting")

\* Whatever is committed reaches every projector of the running release,
\* as long as the process does not stay down.
EveryEventIsProjected ==
  \A p \in Projectors, n \in 1..MaxDispatches :
    []<>(Len(log) >= n /\ p <= known => \E i \in 1..Len(rows[p]) : rows[p][i] = n)

=============================================================================
