----------------------- MODULE KeyedCoalescingWorker -----------------------
(***************************************************************************)
(* The keyed coalescing worker: callers enqueue values for keys, a value   *)
(* for a key that has one waiting is merged with it, and one fiber works   *)
(* on the keys in the order in which they became due.  Every action is one *)
(* transaction on the worker's state or on its queue.                      *)
(***************************************************************************)
EXTENDS Naturals, Sequences

CONSTANTS
  Keys, Values,
  None,           \* no value
  Merge(_, _),    \* options.merge
  Callers         \* fibers that wait in drainKey

ASSUME ValuesAssumption ==
  None \notin Values /\ \A v, w \in Values : Merge(v, w) \in Values

VARIABLES
  latest,    \* latestByKey
  queued,    \* queuedKeys
  active,    \* activeKeys
  queue,     \* the keys that are due
  worker,    \* where the worker fiber is, and the key and value it holds
  drains     \* [Callers -> Keys or None], the keys that callers wait for

state == <<latest, queued, active>>
vars == <<state, queue, worker, drains>>

Idle == [at |-> "idle", key |-> None, value |-> None]
Holds(k, v, at) == [at |-> at, key |-> k, value |-> v]

Init ==
  /\ latest = [k \in Keys |-> None] /\ queued = {} /\ active = {}
  /\ queue = << >> /\ worker = Idle /\ drains = [c \in Callers |-> None]

-----------------------------------------------------------------------------
(* The callers.                                                            *)

Newest(k, v) == IF latest[k] = None THEN v ELSE Merge(latest[k], v)

\* The key of an active or a queued value is not queued again.
Due(k) == k \notin queued /\ k \notin active

\* enqueue: the state and the queue change in one transaction.
Enqueue(k, v) ==
  /\ latest' = [latest EXCEPT ![k] = Newest(k, v)]
  /\ IF Due(k) THEN queued' = queued \cup {k} /\ queue' = Append(queue, k)
               ELSE UNCHANGED <<queued, queue>>
  /\ UNCHANGED <<active, worker, drains>>

\* drainKey begins to wait, and returns.
Drain(c, k) ==
  /\ drains[c] = None
  /\ drains' = [drains EXCEPT ![c] = k]
  /\ UNCHANGED <<state, queue, worker>>

Quiet(k) == latest[k] = None /\ k \notin queued /\ k \notin active

DrainReturns(c) ==
  /\ drains[c] # None /\ Quiet(drains[c])
  /\ drains' = [drains EXCEPT ![c] = None]
  /\ UNCHANGED <<state, queue, worker>>

-----------------------------------------------------------------------------
(* The worker.                                                             *)

Take ==
  /\ worker.at = "idle" /\ queue # << >>
  /\ worker' = Holds(Head(queue), None, "taken")
  /\ queue' = Tail(queue)
  /\ UNCHANGED <<state, drains>>

ActiveAsBefore(k) == active
ActiveWith(k) == active \cup {k}

\* The value of the key that was taken becomes the active one.
Begin ==
  /\ worker.at = "taken"
  /\ LET k == worker.key IN
       /\ queued' = queued \ {k}
       /\ IF latest[k] = None
            THEN worker' = Idle /\ UNCHANGED <<latest, active>>
            ELSE /\ worker' = Holds(k, latest[k], "busy")
                 /\ latest' = [latest EXCEPT ![k] = None]
                 /\ active' = ActiveWith(k)
  /\ UNCHANGED <<queue, drains>>

GoesOn(k) == latest[k] # None

\* The processing succeeded: the next value of the same key, if there is one.
Succeed ==
  /\ worker.at = "busy"
  /\ LET k == worker.key IN
       IF GoesOn(k)
         THEN /\ worker' = Holds(k, latest[k], "busy")
              /\ latest' = [latest EXCEPT ![k] = None]
              /\ UNCHANGED active
         ELSE worker' = Idle /\ active' = active \ {k} /\ UNCHANGED latest
  /\ UNCHANGED <<queued, queue, drains>>

\* The processing failed or died.
Fail ==
  /\ worker.at = "busy"
  /\ worker' = Holds(worker.key, None, "failed")
  /\ UNCHANGED <<state, queue, drains>>

NeverRequeues(k) == FALSE
Requeues(k) == latest[k] # None /\ k \notin queued

\* cleanupFailedKey: the key is no longer active, and due again if a newer
\* value waits; the key enters the queue in a transaction of its own.
Cleanup ==
  /\ worker.at = "failed"
  /\ LET k == worker.key IN
       /\ active' = active \ {k}
       /\ IF Requeues(k) THEN queued' = queued \cup {k} /\ worker' = Holds(k, None, "requeue")
                         ELSE worker' = Idle /\ UNCHANGED queued
  /\ UNCHANGED <<latest, queue, drains>>

Requeue ==
  /\ worker.at = "requeue"
  /\ queue' = Append(queue, worker.key) /\ worker' = Idle
  /\ UNCHANGED <<state, drains>>

Work == Take \/ Begin \/ Succeed \/ Fail \/ Cleanup \/ Requeue

Next ==
  \/ \E k \in Keys, v \in Values : Enqueue(k, v)
  \/ \E c \in Callers : (\E k \in Keys : Drain(c, k)) \/ DrainReturns(c)
  \/ Work

Spec == Init /\ [][Next]_vars

\* The worker fiber runs and what it processes ends, in a failure or not; a
\* waiting transaction is tried again whenever the state has changed, but it
\* may find the key busy again each time (WF, not SF).
FairSpec == Spec /\ WF_vars(Work) /\ \A c \in Callers : WF_vars(DrainReturns(c))

-----------------------------------------------------------------------------
(* Properties.                                                             *)

\* What every variable may hold; a fiber that is not idle holds a key, and a
\* value exactly while it is busy.
TypeOK ==
  /\ latest \in [Keys -> Values \cup {None}]
  /\ queued \subseteq Keys /\ active \subseteq Keys /\ queue \in Seq(Keys)
  /\ worker.at \in {"idle", "taken", "busy", "failed", "requeue"}
  /\ worker = Holds(worker.key, worker.value, worker.at)
  /\ worker.at = "idle" => worker = Idle
  /\ worker.at # "idle" => worker.key \in Keys
  /\ worker.at = "busy" => worker.value \in Values
  /\ drains \in [Callers -> Keys \cup {None}]

\* The three sets say what the queue and the fiber really hold: "without
\* creating duplicate queued items", and a value that waits has a key that
\* is due or active, so that no wake-up is lost.
NothingIsForgotten ==
  /\ \A i, j \in 1..Len(queue) : queue[i] = queue[j] => i = j
  /\ \A k \in Keys :
       /\ k \in queued <=> (\E i \in 1..Len(queue) : queue[i] = k)
                             \/ (worker.key = k /\ worker.at \in {"taken", "requeue"})
       /\ k \in active <=> worker.key = k /\ worker.at \in {"busy", "failed"}
       /\ latest[k] # None => k \in queued \cup active
  /\ worker.at \in {"taken", "requeue"} => \A i \in 1..Len(queue) : queue[i] # worker.key

\* "drainKey() resolves only when that key has no queued, pending, or active
\* work left": neither the queue nor the fiber holds the key when it returns.
DrainedStep ==
  \A c \in Callers : drains[c] # None /\ drains'[c] = None =>
    worker.key # drains[c] /\ \A i \in 1..Len(queue) : queue[i] # drains[c]
DrainedIsIdle == [][DrainedStep]_vars

\* The worker implements CoalescingWork: the value it is busy with is the
\* one that is worked on, nothing is worked on that was not handed over, and
\* the worker does not rest while a value waits.
Promise == INSTANCE CoalescingWork
  WITH pending <- latest,
       doing <- IF worker.at = "busy" THEN <<worker.key, worker.value>> ELSE << >>
WorksAsPromised == Promise!FairSpec

\* A drain returns, unless values keep coming in, for this key or, while they
\* are worked on, for one that the worker then never leaves.
DrainsReturn ==
  (\A c \in Callers : []<>(drains[c] = None))
    \/ []<>(worker.at = "busy" /\ latest[worker.key] # None)
    \/ []<><<\E c \in Callers, v \in Values : drains[c] # None /\ Enqueue(drains[c], v)>>_vars
=============================================================================
