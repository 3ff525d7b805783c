-------------------------- MODULE TerminalSessions --------------------------
(***************************************************************************)
(* The terminal manager.  A terminal has at most one session in a map; a   *)
(* session has a process, whose output a drain fiber appends to the        *)
(* session's history, and the history is written to a file by a coalescing *)
(* worker.  Operations hold the lock of their thread; the process events,  *)
(* the worker and the eviction of inactive sessions do not take it.        *)
(*                                                                         *)
(* An action is what happens between two suspensions: of an operation that *)
(* waits for the worker, a file or a spawn, and of a drain whose listeners *)
(* may take their time between two events.  A history is the sequence of   *)
(* the outputs in it, numbered in the order the processes wrote them.      *)
(***************************************************************************)
EXTENDS Naturals, Sequences, FiniteSets

CONSTANTS
  Terminals, Owners,
  Thread,         \* [Terminals -> Owners]
  Opened,         \* << t1, t2, ... >>, terminals that run when we begin to look
  MaxRetained,    \* maxRetainedInactiveSessions
  None,           \* no history waits to be written
  MaxOperations, MaxOutputs, MaxTroubles  \* bounds; a fault is an interrupt or a failed write

ASSUME TerminalsAssumption ==
  /\ Thread \in [Terminals -> Owners] /\ MaxRetained \in Nat \ {0} /\ None \notin Seq(Nat)
  /\ Opened \in Seq(Terminals) /\ \A i, j \in 1..Len(Opened) : Opened[i] = Opened[j] => i = j

VARIABLES
  map,       \* [Terminals -> index into sess, or 0], the manager's sessions
  sess,      \* every session object there ever was
  procs,     \* every process there ever was
  fibers,    \* <<session, process>> of the drains under way
  op,        \* [Owners -> the operation that holds the lock]
  pending, doing,  \* the persist worker
  histories, \* [Terminals -> the history on disk], at first one of an earlier run
  recent,    \* terminals in the map, the least recently updated first
  counts,    \* operations, outputs and faults so far
  \* What really happened, for the properties.
  last,      \* [Terminals -> the session that was last in the map, or 0]
  strays,    \* sessions evicted while an operation was starting them
  discarded, \* sessions that lost queued events of a process they had
  unwritten  \* terminals whose last write failed

manager == <<map, sess, procs, fibers, recent, last, strays, discarded>>
persistWorker == <<pending, doing, histories, unwritten>>
terminalVars == <<manager, persistWorker, op, counts>>

Persist == INSTANCE CoalescingWork
  WITH Keys <- Terminals, Values <- Seq(Nat), Merge <- LAMBDA current, next : next

NoOp == [at |-> "none", t |-> None, s |-> 0, next |-> "none", left |-> {}, targets |-> {}]
Exit == 0

Fresh(t, h) == [terminal |-> t, status |-> "starting", proc |-> 0, history |-> h,
                events |-> << >>, draining |-> FALSE]

\* The terminals in Opened run a process each that has written nothing yet.
OpenedAt(t) == {i \in 1..Len(Opened) : Opened[i] = t}
TerminalsInit ==
  /\ sess = [i \in 1..Len(Opened) |-> [Fresh(Opened[i], <<0>>) EXCEPT !.status = "running", !.proc = i]]
  /\ procs = [i \in 1..Len(Opened) |-> [session |-> i, state |-> "alive"]]
  /\ map = [t \in Terminals |-> IF OpenedAt(t) = {} THEN 0 ELSE CHOOSE i \in OpenedAt(t) : TRUE]
  /\ last = map /\ recent = Opened
  /\ fibers = {} /\ op = [th \in Owners |-> NoOp]
  /\ Persist!Init /\ histories = [t \in Terminals |-> <<0>>]
  /\ counts = [ops |-> 0, outputs |-> 0, faults |-> 0]
  /\ strays = {} /\ discarded = {} /\ unwritten = {}

-----------------------------------------------------------------------------
(* Sessions and processes.                                                 *)

\* The events that are queued are forgotten, and that a drain is under way.
StillDraining(r) == [r EXCEPT !.events = << >>]
Drained(r) == [r EXCEPT !.events = << >>, !.draining = FALSE]

\* stopProcess, on the session, and on the process it has.
Stopped(r) == IF r.proc = 0 THEN r ELSE Drained([r EXCEPT !.status = "exited", !.proc = 0])
NotSignalled(ps, r) == ps
Signalled(ps, r) == IF r.proc = 0 THEN ps ELSE [ps EXCEPT ![r.proc].state = "killed"]

\* An empty transcript.
Emptied(r) == Drained([r EXCEPT !.history = << >>])

\* The first half of startSession.
Starting(r) == Drained([r EXCEPT !.status = "starting"])

Touched(order, t) == Append(SelectSeq(order, LAMBDA u : u # t), t)

\* evictInactiveSessionsIfNeeded: the least recently updated sessions that do
\* not run, as many as there are too many.
TooMany(ss, m, order) ==
  LET Inactive(i) == ss[m[order[i]]].status # "running"
      Newer(i) == {j \in i + 1..Len(order) : Inactive(j)}
  IN  {order[i] : i \in {j \in 1..Len(order) : Inactive(j) /\ Cardinality(Newer(j)) >= MaxRetained}}

\* The sessions become ss and the map becomes m, with order, less out.
Update(ss, m, order, out) ==
  /\ sess' = ss
  /\ map' = [t \in Terminals |-> IF t \in out THEN 0 ELSE m[t]]
  /\ recent' = SelectSeq(order, LAMBDA t : t \notin out)
  /\ last' = [t \in Terminals |-> IF m[t] # 0 THEN m[t] ELSE last[t]]
  /\ strays' = strays \cup {m[t] : t \in {u \in out : \E th \in Owners :
                              op'[th].s = m[u] /\ op'[th].next = "start"}}

\* Events of a process the session still has are thrown away.
Discard(s, r) ==
  discarded' = IF sess[s].proc # 0 /\ r.proc = sess[s].proc /\ sess[s].events # << >> /\ r.events = << >>
               THEN discarded \cup {s} ELSE discarded

\* A stop of s, after which its record is r.
StopWith(s, r) ==
  LET ss == [sess EXCEPT ![s] = r]
      t == sess[s].terminal
  IN  IF sess[s].proc = 0
        THEN Update(ss, map, recent, {})
        ELSE Update(ss, map, Touched(recent, t), TooMany(ss, map, Touched(recent, t)))

\* An update of s that touches it, and evicts or not.
TouchWith(s, r, evicts) ==
  LET ss == [sess EXCEPT ![s] = r]
      t == sess[s].terminal
      order == IF map[t] = s THEN Touched(recent, t) ELSE recent
  IN  Update(ss, map, order, IF evicts THEN TooMany(ss, map, order) ELSE {})

Faults == counts.faults < MaxTroubles /\ counts' = [counts EXCEPT !.faults = @ + 1]

-----------------------------------------------------------------------------
(* The persist worker.                                                     *)

FlushedOnceWritten(t) == pending[t] = None /\ ~(doing # << >> /\ doing[1] = t) /\ t \notin unwritten
Flushed(t) == pending[t] = None /\ ~(doing # << >> /\ doing[1] = t)

\* Waits for nothing else: the key's next value is taken, or another key's.
PersistStarts ==
  /\ \E t \in Terminals : Persist!Start(t)
  /\ UNCHANGED <<manager, histories, unwritten, op, counts>>

\* The file is written, or the failure is logged, and the worker goes on.
PersistWrites ==
  /\ doing # << >>
  /\ \/ histories' = [histories EXCEPT ![doing[1]] = doing[2]] /\ unwritten' = unwritten \ {doing[1]}
        /\ UNCHANGED counts
     \/ Faults /\ unwritten' = unwritten \cup {doing[1]} /\ UNCHANGED histories
  /\ IF pending[doing[1]] # None THEN Persist!GoOn ELSE Persist!Finish
  /\ UNCHANGED <<manager, op>>

-----------------------------------------------------------------------------
(* The operations.  Each takes the lock of its thread, in "at" it waits    *)
(* for the worker, a file or a spawn, and "next" is what follows.          *)

Begins(th) ==
  /\ op[th].at = "none" /\ counts.ops < MaxOperations
  /\ counts' = [counts EXCEPT !.ops = @ + 1]

Waits(th, t, s, at, next) ==
  op' = [op EXCEPT ![th].at = at, ![th].t = t, ![th].s = s, ![th].next = next]
Ends(th) == op' = [op EXCEPT ![th] = NoOp]

\* open of a terminal without a session: its history is flushed first.
OpenNew(t) ==
  LET th == Thread[t] IN
  /\ Begins(th) /\ map[t] = 0
  /\ Waits(th, t, 0, "flush", "read")
  /\ UNCHANGED <<manager, persistWorker>>

HistoryForgotten(t) == << >>
HistoryRead(t) == histories[t]

\* The history is read, the session enters the map, and its start begins.
\* Of a terminal without a session nobody else writes the file, so that the
\* wait and the read are one step.
OpenRead(th) ==
  LET t == op[th].t
      ss == Append(sess, Fresh(t, HistoryRead(t)))
      m == [map EXCEPT ![t] = Len(ss)]
      order == Touched(recent, t)
  IN
  /\ op[th].at = "flush" /\ Flushed(t)
  /\ Waits(th, t, Len(ss), "spawn", "start")
  /\ Update(ss, m, order, TooMany(ss, m, order))
  /\ UNCHANGED <<procs, fibers, discarded, persistWorker, counts>>

\* open of a terminal with a session that has ended, or for another directory,
\* environment or command: a process is stopped, and the history starts anew.
OpenAnew(t) ==
  LET th == Thread[t]
      s == map[t]
      r == Emptied(Stopped(sess[s]))
  IN
  /\ map[t] # 0 /\ Begins(th)
  /\ Waits(th, t, s, "persist", "start")
  /\ StopWith(s, r) /\ procs' = Signalled(procs, sess[s])
  /\ Persist!Submit(t, << >>)
  /\ UNCHANGED <<fibers, discarded, histories, unwritten>>

\* open of a session whose start was interrupted.
OpenUnstarted(t) ==
  LET th == Thread[t]
      s == map[t]
  IN
  /\ map[t] # 0 /\ sess[s].status = "starting" /\ Begins(th)
  /\ Waits(th, t, s, "spawn", "start")
  /\ TouchWith(s, Starting(sess[s]), FALSE)
  /\ UNCHANGED <<procs, fibers, discarded, persistWorker>>

Clear(t) ==
  LET th == Thread[t]
      s == map[t]
  IN
  /\ map[t] # 0 /\ Begins(th)
  /\ Waits(th, t, s, "persist", "end")
  /\ TouchWith(s, Emptied(sess[s]), FALSE) /\ Discard(s, Emptied(sess[s]))
  /\ Persist!Submit(t, << >>)
  /\ UNCHANGED <<procs, fibers, histories, unwritten>>

\* restart, with the session there is or a new one.
RestartTerminal(t) ==
  LET th == Thread[t] IN
  /\ Begins(th)
  /\ IF map[t] = 0
       THEN LET ss == Append(sess, Fresh(t, << >>))
                m == [map EXCEPT ![t] = Len(ss)]
            IN  /\ Waits(th, t, Len(ss), "persist", "start")
                /\ Update(ss, m, Touched(recent, t), TooMany(ss, m, Touched(recent, t)))
                /\ UNCHANGED procs
       ELSE LET s == map[t] IN
                /\ Waits(th, t, s, "persist", "start")
                /\ StopWith(s, Emptied(Stopped(sess[s])))
                /\ procs' = Signalled(procs, sess[s])
  /\ Persist!Submit(t, << >>)
  /\ UNCHANGED <<fibers, discarded, histories, unwritten>>

\* The empty history is written: the session is started, or all is done.
Persisted(th) ==
  /\ op[th].at = "persist" /\ Flushed(op[th].t)
  /\ \/ /\ op[th].next = "start"
        /\ op' = [op EXCEPT ![th].at = "spawn"]
        /\ TouchWith(op[th].s, Starting(sess[op[th].s]), FALSE)
        /\ UNCHANGED <<procs, fibers, discarded>>
     \/ /\ op[th].next = "end" /\ Ends(th)
        /\ UNCHANGED manager
  /\ UNCHANGED <<persistWorker, counts>>

\* The process of the session is there.
Spawned(th) ==
  LET s == op[th].s
      p == Len(procs) + 1
  IN
  /\ op[th].at = "spawn" /\ Ends(th)
  /\ procs' = Append(procs, [session |-> s, state |-> "alive"])
  /\ TouchWith(s, [sess[s] EXCEPT !.status = "running", !.proc = p], FALSE)
  /\ UNCHANGED <<fibers, discarded, persistWorker, counts>>

TerminalSpawnFails(th) ==
  LET s == op[th].s IN
  /\ op[th].at = "spawn" /\ Ends(th)
  /\ TouchWith(s, Drained([sess[s] EXCEPT !.status = "error"]), TRUE)
  /\ UNCHANGED <<procs, fibers, discarded, persistWorker, counts>>

\* closeSession: the process is stopped and the history written.
CloseSession(th, t, left, targets) ==
  /\ op' = [op EXCEPT ![th] = [at |-> "persist", t |-> t, s |-> map[t], next |-> "remove",
                              left |-> left, targets |-> targets]]
  /\ IF map[t] = 0 THEN UNCHANGED <<manager, pending, doing>>
     ELSE LET s == map[t] IN
          /\ StopWith(s, Stopped(sess[s])) /\ procs' = Signalled(procs, sess[s])
          /\ Persist!Submit(t, sess[s].history)
          /\ UNCHANGED <<fibers, discarded>>

\* close of one terminal, or of all sessions of a thread; targets are the
\* terminals whose histories are deleted at the end.
Close(t) ==
  /\ Begins(Thread[t])
  /\ \E targets \in {{}, {t}} : CloseSession(Thread[t], t, {}, targets)
  /\ UNCHANGED <<histories, unwritten>>

CloseThread(th) ==
  LET mine == {t \in Terminals : Thread[t] = th}
      open == {t \in mine : map[t] # 0}
  IN
  /\ Begins(th)
  /\ \/ \E t \in open, targets \in {{}, mine} : CloseSession(th, t, open \ {t}, targets)
     \/ /\ open = {}
        /\ op' = [op EXCEPT ![th] = [NoOp EXCEPT !.at = "delete", !.targets = mine]]
        /\ UNCHANGED <<manager, pending, doing>>
  /\ UNCHANGED <<histories, unwritten>>

CloseRemoves(th) ==
  LET o == op[th] IN
  /\ o.at = "persist" /\ o.next = "remove" /\ Flushed(o.t)
  /\ op' = [op EXCEPT ![th] =
       IF o.left # {} THEN [@ EXCEPT !.at = "closing"]
       ELSE IF o.targets # {} THEN [NoOp EXCEPT !.at = "delete", !.targets = o.targets]
       ELSE NoOp]
  /\ Update(sess, map, recent, {o.t})
  /\ UNCHANGED <<procs, fibers, discarded, persistWorker, counts>>

CloseNext(th) ==
  /\ op[th].at = "closing"
  /\ \E t \in op[th].left : CloseSession(th, t, op[th].left \ {t}, op[th].targets)
  /\ UNCHANGED <<histories, unwritten, counts>>

\* The files are deleted, or the failure is logged.
CloseDeletes(th) ==
  /\ op[th].at = "delete" /\ Ends(th)
  /\ \E deleted \in {{}, op[th].targets} :
       /\ histories' = [t \in Terminals |-> IF t \in deleted THEN << >> ELSE histories[t]]
       /\ last' = [t \in Terminals |-> IF t \in deleted THEN 0 ELSE last[t]]
  /\ UNCHANGED <<map, sess, procs, fibers, recent, strays, discarded, pending, doing, unwritten, counts>>

\* The request is interrupted where it waits, or the history cannot be read.
Interrupted(th) ==
  /\ op[th].at # "none" /\ Faults
  /\ Ends(th)
  /\ UNCHANGED <<manager, persistWorker>>

-----------------------------------------------------------------------------
(* The processes and the drains of their events.                           *)

\* The callback of a process that is subscribed to: the event is queued, and
\* a drain forked if none is under way.
Queued(p, e) ==
  LET s == procs[p].session IN
  /\ procs[p].state = "alive" /\ sess[s].proc = p /\ sess[s].status = "running"
  /\ sess' = [sess EXCEPT ![s].events = Append(@, e), ![s].draining = TRUE]
  /\ fibers' = IF sess[s].draining THEN fibers ELSE fibers \cup {<<s, p>>}
  /\ UNCHANGED <<map, recent, last, strays, discarded, op, persistWorker>>

Outputs(p) ==
  /\ counts.outputs < MaxOutputs /\ counts' = [counts EXCEPT !.outputs = @ + 1]
  /\ Queued(p, counts.outputs + 1) /\ UNCHANGED procs

Exits(p) ==
  /\ Queued(p, Exit) /\ procs' = [procs EXCEPT ![p].state = "exited"]
  /\ UNCHANGED counts

HasProcess(s, p) == sess[s].proc = p

\* The drain finds nothing, or another process than its own.
DrainIdles(s, p) ==
  /\ <<s, p>> \in fibers /\ (~HasProcess(s, p) \/ sess[s].events = << >>)
  /\ sess' = [sess EXCEPT ![s] = Drained(@)] /\ Discard(s, Drained(sess[s]))
  /\ fibers' = fibers \ {<<s, p>>}
  /\ UNCHANGED <<map, procs, recent, last, strays, op, persistWorker, counts>>

\* An output is appended to the history, which is queued for the disk; one
\* that is all control sequences leaves both alone.
DrainOutput(s, p) ==
  LET r == [sess[s] EXCEPT !.events = Tail(@)]
      h == Append(sess[s].history, Head(sess[s].events))
      t == sess[s].terminal
  IN
  /\ <<s, p>> \in fibers /\ HasProcess(s, p)
  /\ sess[s].events # << >> /\ Head(sess[s].events) # Exit
  /\ UNCHANGED op
  /\ \/ TouchWith(s, [r EXCEPT !.history = h], FALSE) /\ Persist!Submit(t, h)
     \/ TouchWith(s, r, FALSE) /\ UNCHANGED <<pending, doing>>
  /\ UNCHANGED <<procs, fibers, discarded, histories, unwritten, counts>>

DrainExit(s, p) ==
  /\ <<s, p>> \in fibers /\ HasProcess(s, p)
  /\ sess[s].events # << >> /\ Head(sess[s].events) = Exit
  /\ UNCHANGED op
  /\ TouchWith(s, Stopped(sess[s]), TRUE)
  /\ fibers' = fibers \ {<<s, p>>}
  /\ UNCHANGED <<procs, discarded, persistWorker, counts>>

Drain(s, p) == DrainIdles(s, p) \/ DrainOutput(s, p) \/ DrainExit(s, p)

-----------------------------------------------------------------------------
Operation(th) ==
  OpenRead(th) \/ Persisted(th) \/ Spawned(th) \/ TerminalSpawnFails(th)
  \/ CloseNext(th) \/ CloseRemoves(th) \/ CloseDeletes(th)

Drains == \E f \in fibers : Drain(f[1], f[2])

TerminalsNext ==
  \/ \E t \in Terminals : OpenNew(t) \/ OpenAnew(t) \/ OpenUnstarted(t)
                          \/ Clear(t) \/ RestartTerminal(t) \/ Close(t)
  \/ \E th \in Owners : CloseThread(th) \/ Operation(th) \/ Interrupted(th)
  \/ \E p \in 1..Len(procs) : Outputs(p) \/ Exits(p)
  \/ Drains \/ PersistStarts \/ PersistWrites

TerminalsSpec == TerminalsInit /\ [][TerminalsNext]_terminalVars

\* The fibers run, and what they wait for, a write, a read or a spawn, comes
\* back; no process is made to write or exit, nobody to ask for anything.
FairTerminalsSpec ==
  /\ TerminalsSpec
  /\ \A th \in Owners : WF_terminalVars(Operation(th))
  /\ WF_terminalVars(Drains) /\ WF_terminalVars(PersistStarts \/ PersistWrites)

-----------------------------------------------------------------------------
(* Properties.                                                             *)

\* A terminal has one process: one that lives and was not told to end is the
\* process of the session in the map, or of one that was evicted while an
\* operation was starting it.
LiveProcessesAreHeld ==
  \A p \in 1..Len(procs) : procs[p].state = "alive" =>
    LET s == procs[p].session IN
    sess[s].proc = p /\ (map[sess[s].terminal] = s \/ s \in strays)

Newest(t) == IF pending[t] # None THEN pending[t]
             ELSE IF doing # << >> /\ doing[1] = t THEN doing[2] ELSE histories[t]

\* What was queued for the disk, is being written or is there is the history
\* of the terminal's last session, in the map, evicted or closed: so a new
\* session "restores persisted history on first open".
HistoryIsKept ==
  \A t \in Terminals :
    last[t] # 0 /\ t \notin unwritten /\ (\A s \in strays : sess[s].terminal # t)
      => Newest(t) = sess[last[t]].history

\* Every operation comes to an end and lets go of the lock of its thread.
EveryOperationEnds == \A th \in Owners : []<>(op[th].at = "none")

\* The exit of a process ends its session, unless a clear, or the drain of an
\* earlier process, threw away the events that were queued.
Unnoticed ==
  {p \in 1..Len(procs) : /\ procs[p].state = "exited" /\ sess[procs[p].session].proc = p
                         /\ procs[p].session \notin discarded}
ExitsAreNoticed == []<>(Unnoticed = {})
=============================================================================
