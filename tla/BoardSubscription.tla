------------------------- MODULE BoardSubscription -------------------------
(***************************************************************************)
(* One browser following the board of one project (board.subscribeProject  *)
(* in ws.ts).  The server forks a subscription to the engine's events into *)
(* a queue, loads the cards, the dismissed ghosts and the cursors of their *)
(* two projections one read after the other, sends them as a snapshot and  *)
(* then merges a replay of the log with the queue.  Both pass a filter     *)
(* that lets an event through when its sequence is above the last one of   *)
(* its kind.                                                               *)
(*                                                                         *)
(* An event is its sequence number, the position in log, and there only    *)
(* its kind counts: a card event or a ghost event of this board, or any    *)
(* other.  A projection's rows stand for the events applied to them.  The  *)
(* engine commits an event with its projections in one transaction and     *)
(* publishes it before it takes the next command.  Commands of several     *)
(* events and the browser's optimistic updates are left out.               *)
(***************************************************************************)
EXTENDS Naturals, Sequences

CONSTANTS
  ReplayLimit,             \* events a replay reads at most (1000 in the code)
  PageSize,                \* events a page of it has at most (500 in the code)
  MaxEvents,               \* bound: events committed
  MaxConnections,          \* bound: times the browser subscribes
  MayFail                  \* TRUE: a read of the database may fail

ASSUME BoardAssumption == /\ ReplayLimit \in Nat \ {0}
                          /\ PageSize \in Nat \ {0}
                          /\ MaxEvents \in Nat
                          /\ MaxConnections \in Nat
                          /\ MayFail \in BOOLEAN

Kinds == {"card", "ghost"}
Streams == {"replay", "live"}
Loading == {"cards", "ghosts", "cardState", "ghostState", "snapshot"}

VARIABLES
  log,                     \* the kinds of the committed events
  published,               \* the events up to this one are published
  pc,                      \* of the handler: off, its next read, open, failed
  connections,             \* subscriptions begun
  live,                    \* the forked fiber has subscribed to the engine
  liveFrom,                \* what was published when it did
  queue,                   \* liveQueue
  loadedRows,              \* the events each projection's rows contain
  cursor,                  \* lastAppliedSequence as read for each projection
  last,                    \* lastCardSequence and lastDismissedGhostSequence
  replay,                  \* page being streamed: at+1 .. upto; still to read
  pending,                 \* per stream, the event that passed; 0: none
  board                    \* the events the browser's board reflects

engine == <<log, published>>
loaded == <<liveFrom, loadedRows, cursor>>
boardVars == <<engine, pc, connections, live, queue, loaded, last, replay, pending,
          board>>

Zero == [k \in Kinds |-> 0]
NoReplay == [at |-> 0, upto |-> 0, left |-> 0]
NothingPending == [s \in Streams |-> 0]

Smaller(m, n) == IF m < n THEN m ELSE n
Larger(m, n) == IF m < n THEN n ELSE m

BoardInit ==
  /\ log = << >> /\ published = 0
  /\ pc = "off" /\ connections = 0
  /\ live = FALSE /\ liveFrom = 0 /\ queue = << >>
  /\ loadedRows = Zero /\ cursor = Zero /\ last = Zero
  /\ replay = NoReplay /\ pending = NothingPending
  /\ board = {}
-----------------------------------------------------------------------------
(* The engine. *)

Commit(k) ==
  /\ published = Len(log)
  /\ Len(log) < MaxEvents
  /\ log' = Append(log, k)
  /\ UNCHANGED <<published, pc, connections, live, queue, loaded, last, replay,
                 pending, board>>

Publish ==
  /\ published < Len(log)
  /\ published' = published + 1
  /\ queue' = IF live THEN Append(queue, published + 1) ELSE queue
  /\ UNCHANGED <<log, pc, connections, live, loaded, last, replay, pending, board>>
-----------------------------------------------------------------------------
(* The handler up to the snapshot. *)

Connect ==
  /\ pc = "off"
  /\ connections < MaxConnections
  /\ connections' = connections + 1
  /\ pc' = "cards"
  /\ UNCHANGED <<engine, live, queue, loaded, last, replay, pending, board>>

\* The forked fiber runs when it is scheduled, beside the handler's reads.
GoLive ==
  /\ pc \in Loading \cup {"open"}
  /\ ~live
  /\ live' = TRUE
  /\ liveFrom' = published
  /\ UNCHANGED <<engine, pc, connections, queue, loadedRows, cursor, last, replay,
                 pending, board>>

ReadRows(at, k, next) ==
  /\ pc = at
  /\ pc' = next
  /\ loadedRows' = [loadedRows EXCEPT ![k] = Len(log)]
  /\ UNCHANGED <<engine, connections, live, liveFrom, queue, cursor, last, replay,
                 pending, board>>

ReadState(at, k, next) ==
  /\ pc = at
  /\ pc' = next
  /\ cursor' = [cursor EXCEPT ![k] = Len(log)]
  /\ UNCHANGED <<engine, connections, live, liveFrom, queue, loadedRows, last, replay,
                 pending, board>>

Read == \/ ReadRows("cards", "card", "ghosts")
        \/ ReadRows("ghosts", "ghost", "cardState")
        \/ ReadState("cardState", "card", "ghostState")
        \/ ReadState("ghostState", "ghost", "snapshot")

\* The events the rows of both projections contain.
Snapshot == {e \in 1..Len(log) : log[e] \in Kinds /\ e <= loadedRows[log[e]]}

\* Mutant: one cursor for both projections, the later of the two.
OpenOneCursor ==
  /\ pc = "snapshot"
  /\ pc' = "open"
  /\ board' = Snapshot
  /\ last' = [k \in Kinds |-> Larger(cursor["card"], cursor["ghost"])]
  /\ LET from == Smaller(cursor["card"], cursor["ghost"]) IN
       replay' = [at |-> from, upto |-> from, left |-> ReplayLimit]
  /\ UNCHANGED <<engine, connections, live, queue, loaded, pending>>

\* The snapshot replaces the browser's board; the streams start.
Open ==
  /\ pc = "snapshot"
  /\ pc' = "open"
  /\ board' = Snapshot
  /\ last' = cursor
  /\ LET from == Smaller(cursor["card"], cursor["ghost"]) IN
       replay' = [at |-> from, upto |-> from, left |-> ReplayLimit]
  /\ UNCHANGED <<engine, connections, live, queue, loaded, pending>>
-----------------------------------------------------------------------------
(* The merged streams.  Fibers start in the order they are forked, so the  *)
(* replay reads its first page when the live subscription is there.        *)

\* Mutant: every page is taken to be full.
FullPages ==
  /\ pc = "open" /\ live
  /\ replay.at = replay.upto
  /\ replay.left > 0
  /\ LET n == Smaller(replay.left, PageSize)
     IN replay' = [replay EXCEPT !.upto = @ + n, !.left = @ - n]
  /\ UNCHANGED <<engine, pc, connections, live, queue, loaded, last, pending, board>>

ReadPage ==
  /\ pc = "open" /\ live
  /\ replay.at = replay.upto
  /\ replay.left > 0
  /\ LET n == Smaller(Smaller(replay.left, PageSize), Len(log) - replay.at)
     IN replay' = IF n = 0 THEN [replay EXCEPT !.left = 0]
                  ELSE [replay EXCEPT !.upto = @ + n, !.left = @ - n]
  /\ UNCHANGED <<engine, pc, connections, live, queue, loaded, last, pending, board>>

\* Mutant: isBoardDismissedGhostEvent is left out of the filter.
CardsOnly(e) == log[e] = "card"

\* toBoardStreamEvent
Relevant(e) == log[e] \in Kinds
\* Mutant: >= where the filter compares with >.
PassesAgain(e) == e >= last[log[e]]

Passes(e) == e > last[log[e]]

Filter(s, e) ==
  /\ pc = "open" /\ live
  /\ pending[s] = 0
  /\ IF Relevant(e) /\ Passes(e)
     THEN /\ last' = [last EXCEPT ![log[e]] = e]
          /\ pending' = [pending EXCEPT ![s] = e]
     ELSE UNCHANGED <<last, pending>>
  /\ UNCHANGED <<engine, pc, connections, live, loaded, board>>

FilterReplay ==
  /\ replay.at < replay.upto
  /\ Filter("replay", replay.at + 1)
  /\ replay' = [replay EXCEPT !.at = @ + 1]
  /\ UNCHANGED queue

FilterLive ==
  /\ queue /= << >>
  /\ Filter("live", Head(queue))
  /\ queue' = Tail(queue)
  /\ UNCHANGED replay

\* What passed goes out and the browser applies it.
Deliver(s) ==
  /\ pending[s] /= 0
  /\ board' = board \cup {pending[s]}
  /\ pending' = [pending EXCEPT ![s] = 0]
  /\ UNCHANGED <<engine, pc, connections, live, queue, loaded, last, replay>>

\* The scope of the subscription closes; the browser keeps what it shows.
Close(next) ==
  /\ pc' = next
  /\ live' = FALSE /\ liveFrom' = 0 /\ queue' = << >>
  /\ loadedRows' = Zero /\ cursor' = Zero /\ last' = Zero
  /\ replay' = NoReplay /\ pending' = NothingPending
  /\ UNCHANGED <<engine, connections, board>>

\* The connection is lost; the browser's transport subscribes again.
Disconnect == pc \in Loading \cup {"open"} /\ Close("off")

\* A read of the rows, the cursors or the log fails: the stream ends with
\* BoardSubscribeProjectError, on which the transport gives the subscription up.
ReadFails ==
  /\ MayFail
  /\ pc \in Loading \ {"snapshot"} \/ (pc = "open" /\ replay.left > 0)
  /\ Close("failed")

Server == \/ Publish \/ GoLive \/ Read \/ Open \/ ReadPage
          \/ FilterReplay \/ FilterLive \/ \E s \in Streams : Deliver(s)

BoardNext == \/ \E k \in Kinds \cup {"other"} : Commit(k)
             \/ Connect \/ Disconnect \/ ReadFails
             \/ Server

BoardSpec == BoardInit /\ [][BoardNext]_boardVars

\* Every fiber that can run runs: the engine's worker, the two halves of the
\* merge and what they send.
BoardFairness == /\ WF_boardVars(Publish) /\ WF_boardVars(GoLive)
                 /\ WF_boardVars(FilterLive) /\ \A s \in Streams : WF_boardVars(Deliver(s))

FairBoardSpec == BoardSpec /\ BoardFairness
-----------------------------------------------------------------------------
\* What is queued, read or about to be delivered is in the log.
BoardTypeOK ==
  /\ log \in Seq(Kinds \cup {"other"})
  /\ published \in 0..Len(log)
  /\ pc \in Loading \cup {"off", "open", "failed"}
  /\ connections \in Nat
  /\ live \in BOOLEAN /\ liveFrom \in 0..Len(log)
  /\ queue \in Seq(1..Len(log))
  /\ loadedRows \in [Kinds -> 0..Len(log)] /\ cursor \in [Kinds -> 0..Len(log)]
  /\ last \in [Kinds -> 0..Len(log)]
  /\ replay \in [at : Nat, upto : Nat, left : Nat]
  /\ replay.at <= replay.upto /\ replay.upto <= Len(log)
  /\ pending \in [Streams -> 0..Len(log)]
  /\ board \subseteq 1..Len(log)

\* An event about to reach the browser is neither in the snapshot nor was it
\* delivered by the other stream, though replay and queue overlap: a created
\* card does not appear a second time after it was moved or deleted.
NothingTwice ==
  /\ \A s \in Streams : pending[s] /= 0 => pending[s] \notin board
  /\ pending["replay"] /= 0 => pending["replay"] /= pending["live"]

\* Everything committed has gone through the streams.
Settled ==
  /\ pc = "open" /\ live
  /\ published = Len(log) /\ queue = << >>
  /\ replay.at = replay.upto /\ replay.left = 0
  /\ pending = NothingPending

Missing == {e \in 1..Len(log) : log[e] \in Kinds /\ e \notin board}

\* Committed after the rows were read, and before the cursor of the kind was
\* read or the live subscription was there.
WhileLoading(e) == /\ loadedRows[log[e]] < e
                   /\ e <= Larger(cursor[log[e]], liveFrom)

\* Whatever the replay's limit and pages, and however replay and queue overtake
\* each other, what the browser lacks once all is delivered was committed while
\* the subscription loaded.
OnlyLoadingMisses == Settled => \A e \in Missing : WhileLoading(e)

\* "Board subscriptions no longer miss updates during initial load"
\* (src/PATCH.md): once all is delivered the browser lacks nothing.
BoardMissesNothing == Settled => Missing = {}

\* Once the subscription is live, an event of the board committed after the
\* loading reaches the browser, unless the subscription ends first: none is due
\* for ever.
Due(e) == /\ pc = "open" /\ live /\ e \in 1..Len(log) /\ log[e] \in Kinds
          /\ ~WhileLoading(e) /\ e \notin board
LaterEventsArrive == \A e \in 1..MaxEvents : []<>~Due(e)
=============================================================================
