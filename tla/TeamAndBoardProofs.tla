------------------------- MODULE TeamAndBoardProofs -------------------------
(***************************************************************************)
(* Theorems about BoardSubscription, for every replay limit, page size and *)
(* number of events, subscriptions and failures; and about TeamTasks.      *)
(*                                                                         *)
(* The board.  What the browser may lack is decided when the subscription  *)
(* opens.  From then on everything either stream has consumed is at most   *)
(* the cursor of its kind (Consumed), and everything up to that cursor has *)
(* reached the browser, is about to, or was committed while loading (Kept).*)
(*                                                                         *)
(* The team.  The type invariant and that a final status is left by a      *)
(* message only hold of every behaviour; the limit and the rule against    *)
(* grandchildren hold until the first restart, and the proofs show why:    *)
(* until then the read model lists every task (AllKnown) and has the team  *)
(* parent of every child thread.  That failures of a spawn are reported    *)
(* and that worktrees follow their threads holds throughout.               *)
(***************************************************************************)
EXTENDS TeamTasks, BoardSubscription, SequenceTheorems, TLAPS

\* liveQueue holds what was published since the subscription is live.
QueueFollows ==
  /\ ~live => queue = << >> /\ liveFrom = 0
  /\ liveFrom + Len(queue) <= published
  /\ \A i \in 1..Len(queue) : queue[i] = published - Len(queue) + i
  /\ live /\ pc /= "open" => published = liveFrom + Len(queue)

\* A cursor is read after the rows of its projection.
RowsBeforeCursors ==
  /\ pc \in {"ghostState", "snapshot", "open"} => loadedRows["card"] <= cursor["card"]
  /\ pc \in {"snapshot", "open"} => loadedRows["ghost"] <= cursor["ghost"]
  /\ pc = "open" => \A k \in Kinds : cursor[k] <= last[k]

\* An event that passed the filter is new to the browser.
Fresh ==
  /\ NothingTwice
  /\ \A s \in Streams : pending[s] /= 0 =>
       /\ pc = "open"
       /\ log[pending[s]] \in Kinds
       /\ pending[s] <= last[log[pending[s]]]
  /\ pc = "open" => \A e \in board : log[e] \in Kinds /\ e <= last[log[e]]

\* The replay has filtered f, or the live stream has.
Seen(f) == \/ f <= replay.at
           \/ live /\ liveFrom < f /\ f <= published - Len(queue)

Consumed ==
  pc = "open" => \A f \in 1..Len(log) :
    log[f] \in Kinds /\ Seen(f) => f <= last[log[f]]

Reaches(f) == \/ f \in board
              \/ \E s \in Streams : pending[s] = f
              \/ WhileLoading(f)

Kept ==
  pc = "open" => \A f \in 1..Len(log) :
    log[f] \in Kinds /\ f <= last[log[f]] => Reaches(f)

IInv == /\ BoardTypeOK
        /\ QueueFollows
        /\ RowsBeforeCursors
        /\ Fresh
        /\ Consumed
        /\ Kept
-----------------------------------------------------------------------------
(* Type correctness.                                                       *)

\* What a subscription holds that has read nothing.
LEMMA NothingRead ==
  ASSUME NEW n \in Nat
  PROVE  /\ << >> \in Seq(1..n)
         /\ Zero \in [Kinds -> 0..n]
         /\ NothingPending \in [Streams -> 0..n]
  BY DEF Zero, NothingPending

LEMMA SeqOfMore ==
  ASSUME NEW n \in Nat, NEW q \in Seq(1..n)
  PROVE  q \in Seq(1..(n + 1))
<1>1. Len(q) \in Nat /\ q \in [1..Len(q) -> 1..n]
  OBVIOUS
<1>2. q \in [1..Len(q) -> 1..(n + 1)]
  BY <1>1
<1> QED BY <1>1, <1>2, SeqDef

LEMMA SeqOfNat ==
  ASSUME NEW n \in Nat, NEW q \in Seq(1..n)
  PROVE  q \in Seq(Nat)
<1>1. Len(q) \in Nat /\ q \in [1..Len(q) -> 1..n]
  OBVIOUS
<1>2. q \in [1..Len(q) -> Nat]
  BY <1>1
<1> QED BY <1>1, <1>2, SeqDef

LEMMA InitType == BoardInit => BoardTypeOK
<1> SUFFICES ASSUME BoardInit PROVE BoardTypeOK
  OBVIOUS
<1>1. Len(log) = 0 /\ log \in Seq(Kinds \cup {"other"})
  BY DEF BoardInit
<1>2. published \in 0..Len(log) /\ liveFrom \in 0..Len(log) /\ connections \in Nat
  BY <1>1 DEF BoardInit
<1>6. pc \in Loading \cup {"off", "open", "failed"} /\ live \in BOOLEAN
  BY DEF BoardInit
<1>3. /\ queue \in Seq(1..Len(log))
      /\ loadedRows \in [Kinds -> 0..Len(log)] /\ cursor \in [Kinds -> 0..Len(log)]
      /\ last \in [Kinds -> 0..Len(log)] /\ pending \in [Streams -> 0..Len(log)]
  BY <1>1, NothingRead DEF BoardInit
<1>4. /\ replay \in [at : Nat, upto : Nat, left : Nat]
      /\ replay.at <= replay.upto /\ replay.upto <= Len(log)
  BY <1>1 DEF BoardInit, NoReplay
<1>5. board \subseteq 1..Len(log)
  BY DEF BoardInit
<1> QED BY <1>1, <1>2, <1>3, <1>4, <1>5, <1>6 DEF BoardTypeOK

\* A closed subscription keeps nothing.
LEMMA CloseType ==
  ASSUME BoardTypeOK, NEW next \in {"off", "failed"}, Close(next)
  PROVE  BoardTypeOK'
<1>1. /\ Len(log) \in Nat
      /\ log' = log /\ published' = published /\ connections' = connections
      /\ board' = board
  BY DEF Close, engine, BoardTypeOK
<1>2. /\ log' \in Seq(Kinds \cup {"other"}) /\ published' \in 0..Len(log')
      /\ connections' \in Nat /\ board' \subseteq 1..Len(log')
  BY <1>1 DEF BoardTypeOK
<1>5. liveFrom' \in 0..Len(log')
  BY <1>1 DEF Close
<1>6. pc' \in Loading \cup {"off", "open", "failed"} /\ live' \in BOOLEAN
  BY DEF Close
<1>3. /\ queue' \in Seq(1..Len(log'))
      /\ loadedRows' \in [Kinds -> 0..Len(log')] /\ cursor' \in [Kinds -> 0..Len(log')]
      /\ last' \in [Kinds -> 0..Len(log')] /\ pending' \in [Streams -> 0..Len(log')]
  BY <1>1, NothingRead DEF Close
<1>4. /\ replay' \in [at : Nat, upto : Nat, left : Nat]
      /\ replay'.at <= replay'.upto /\ replay'.upto <= Len(log')
  BY <1>1 DEF Close, NoReplay
<1> QED BY <1>2, <1>3, <1>4, <1>5, <1>6 DEF BoardTypeOK

LEMMA FilterType ==
  ASSUME BoardTypeOK, NEW s \in Streams, NEW e \in 1..Len(log), Filter(s, e)
  PROVE  /\ last' \in [Kinds -> 0..Len(log)]
         /\ pending' \in [Streams -> 0..Len(log)]
<1>1. e \in 0..Len(log)
  BY DEF BoardTypeOK
<1>2. last \in [Kinds -> 0..Len(log)] /\ pending \in [Streams -> 0..Len(log)]
  BY DEF BoardTypeOK
<1>3. CASE Relevant(e) /\ Passes(e)
  BY <1>1, <1>2, <1>3 DEF Filter, Relevant
<1>4. CASE ~(Relevant(e) /\ Passes(e))
  BY <1>2, <1>4 DEF Filter
<1> QED BY <1>3, <1>4

LEMMA NextType == BoardTypeOK /\ [BoardNext]_boardVars => BoardTypeOK'
<1> SUFFICES ASSUME BoardTypeOK, [BoardNext]_boardVars PROVE BoardTypeOK'
  OBVIOUS
<1> USE DEF engine, loaded
<1>0. Len(log) \in Nat
  BY DEF BoardTypeOK
<1>1. ASSUME NEW k \in Kinds \cup {"other"}, Commit(k) PROVE BoardTypeOK'
  <2>1. log' \in Seq(Kinds \cup {"other"}) /\ Len(log') = Len(log) + 1
    BY <1>1 DEF Commit, BoardTypeOK
  <2>2. 0..Len(log) \subseteq 0..Len(log') /\ 1..Len(log) \subseteq 1..Len(log')
    BY <2>1, <1>0
  <2>3. queue \in Seq(1..Len(log'))
    BY <1>0, <2>1, SeqOfMore DEF BoardTypeOK
  <2> QED BY <1>0, <1>1, <2>1, <2>2, <2>3 DEF Commit, BoardTypeOK
<1>2. CASE Publish
  <2>1. published' \in 1..Len(log)
    BY <1>0, <1>2 DEF Publish, BoardTypeOK
  <2>2. queue' \in Seq(1..Len(log))
    <3>1. queue \in Seq(1..Len(log)) /\ published + 1 \in 1..Len(log)
      BY <1>2, <2>1 DEF Publish, BoardTypeOK
    <3>2. Append(queue, published + 1) \in Seq(1..Len(log))
      BY <3>1
    <3> QED BY <1>2, <3>1, <3>2 DEF Publish
  <2> QED BY <1>2, <2>1, <2>2 DEF Publish, BoardTypeOK
<1>3. CASE Connect
  BY <1>3 DEF Connect, BoardTypeOK, Loading
<1>4. CASE GoLive
  BY <1>0, <1>4 DEF GoLive, BoardTypeOK
<1>5. CASE Read
  <2>1. ASSUME NEW at, NEW k \in Kinds, NEW next \in Loading, ReadRows(at, k, next)
        PROVE  BoardTypeOK'
    BY <1>0, <2>1 DEF ReadRows, BoardTypeOK
  <2>2. ASSUME NEW at, NEW k \in Kinds, NEW next \in Loading, ReadState(at, k, next)
        PROVE  BoardTypeOK'
    BY <1>0, <2>2 DEF ReadState, BoardTypeOK
  <2> QED BY <1>5, <2>1, <2>2 DEF Read, Kinds, Loading
<1>6. CASE Open
  <2>1. Snapshot \subseteq 1..Len(log)
    BY DEF Snapshot
  <2>2. Smaller(cursor["card"], cursor["ghost"]) \in 0..Len(log)
    BY DEF Smaller, BoardTypeOK, Kinds
  <2> QED BY <1>0, <1>6, <2>1, <2>2, BoardAssumption DEF Open, BoardTypeOK
<1>7. CASE ReadPage
  <2> DEFINE n == Smaller(Smaller(replay.left, PageSize), Len(log) - replay.at)
  <2>1. n \in Nat /\ n <= replay.left /\ n <= Len(log) - replay.at
    BY <1>0, <1>7, BoardAssumption DEF ReadPage, BoardTypeOK, Smaller
  <2>2. replay' \in [at : Nat, upto : Nat, left : Nat]
        /\ replay'.at <= replay'.upto /\ replay'.upto <= Len(log')
    <3>1. /\ replay' = IF n = 0 THEN [replay EXCEPT !.left = 0]
                      ELSE [replay EXCEPT !.upto = @ + n, !.left = @ - n]
          /\ replay \in [at : Nat, upto : Nat, left : Nat]
          /\ replay.at <= replay.upto /\ replay.upto <= Len(log) /\ replay.at = replay.upto
          /\ log' = log
      BY <1>7 DEF ReadPage, BoardTypeOK
    <3> HIDE DEF n
    <3>2. CASE n = 0
      BY <3>1, <3>2
    <3>3. CASE n /= 0
      <4>1. replay.upto + n \in Nat /\ replay.left - n \in Nat /\ replay.upto + n <= Len(log)
        BY <1>0, <2>1, <3>1
      <4>2. replay' = [at |-> replay.at, upto |-> replay.upto + n, left |-> replay.left - n]
        BY <3>1, <3>3
      <4>3. replay.at <= replay.upto + n
        BY <2>1, <3>1
      <4> QED BY <3>1, <4>1, <4>2, <4>3
    <3> QED BY <3>2, <3>3
  <2> QED BY <1>7, <2>2 DEF ReadPage, BoardTypeOK
<1>8. CASE FilterReplay
  <2>1. replay.at + 1 \in 1..Len(log)
    BY <1>0, <1>8 DEF FilterReplay, BoardTypeOK
  <2>2. /\ last' \in [Kinds -> 0..Len(log)]
        /\ pending' \in [Streams -> 0..Len(log)]
    BY <1>8, <2>1, FilterType DEF FilterReplay, Streams
  <2>3. /\ replay' \in [at : Nat, upto : Nat, left : Nat]
        /\ replay'.at <= replay'.upto /\ replay'.upto <= Len(log')
    <3>1. /\ replay' = [at |-> replay.at + 1, upto |-> replay.upto, left |-> replay.left]
          /\ log' = log
      BY <1>8 DEF FilterReplay, Filter, BoardTypeOK
    <3>2. /\ replay.at \in Nat /\ replay.upto \in Nat /\ replay.left \in Nat
          /\ replay.at < replay.upto /\ replay.upto <= Len(log)
      BY <1>8 DEF FilterReplay, BoardTypeOK
    <3>3. replay.at + 1 \in Nat /\ replay.at + 1 <= replay.upto
      BY <3>2
    <3> QED BY <3>1, <3>2, <3>3
  <2> QED BY <1>8, <2>2, <2>3 DEF FilterReplay, Filter, BoardTypeOK
<1>9. CASE FilterLive
  <2>1. Head(queue) \in 1..Len(log) /\ Tail(queue) \in Seq(1..Len(log))
    BY <1>9 DEF FilterLive, BoardTypeOK
  <2>2. /\ last' \in [Kinds -> 0..Len(log)]
        /\ pending' \in [Streams -> 0..Len(log)]
    BY <1>9, <2>1, FilterType DEF FilterLive, Streams
  <2> QED BY <1>9, <2>1, <2>2 DEF FilterLive, Filter, BoardTypeOK
<1>10. ASSUME NEW s \in Streams, Deliver(s) PROVE BoardTypeOK'
  <2>1. pending[s] \in 1..Len(log)
    BY <1>0, <1>10 DEF Deliver, BoardTypeOK
  <2>2. board' \subseteq 1..Len(log)
    BY <1>0, <1>10, <2>1 DEF Deliver, BoardTypeOK
  <2>3. pending' \in [Streams -> 0..Len(log)]
    BY <1>0, <1>10 DEF Deliver, BoardTypeOK
  <2> QED BY <1>10, <2>2, <2>3 DEF Deliver, BoardTypeOK
<1>11. CASE Disconnect
  BY <1>11, CloseType DEF Disconnect
<1>12. CASE ReadFails
  BY <1>12, CloseType DEF ReadFails
<1>13. CASE UNCHANGED boardVars
  BY <1>13 DEF boardVars, BoardTypeOK
<1> QED
  BY <1>1, <1>2, <1>3, <1>4, <1>5, <1>6, <1>7, <1>8, <1>9, <1>10, <1>11, <1>12, <1>13
  DEF BoardNext, Server

-----------------------------------------------------------------------------
(* The inductive invariant, one conjunct at a time.                        *)

LEMMA InitInv == BoardInit => IInv
<1> SUFFICES ASSUME BoardInit PROVE IInv
  OBVIOUS
<1>1. BoardTypeOK
  BY InitType
<1>2. QueueFollows
  BY DEF BoardInit, QueueFollows
<1>3. pc = "off" /\ \A s \in Streams : pending[s] = 0
  BY DEF BoardInit, NothingPending
<1> QED BY <1>1, <1>2, <1>3 DEF IInv, RowsBeforeCursors, Fresh, NothingTwice, Consumed, Kept, Streams

LEMMA QueueStep == BoardTypeOK /\ QueueFollows /\ [BoardNext]_boardVars => QueueFollows'
<1> SUFFICES ASSUME BoardTypeOK, QueueFollows, [BoardNext]_boardVars PROVE QueueFollows'
  OBVIOUS
<1> USE DEF engine, loaded
<1>0. /\ published \in Nat /\ liveFrom \in Nat /\ queue \in Seq(Nat) /\ Len(queue) \in Nat
      /\ Len(log) \in Nat
  BY SeqOfNat DEF BoardTypeOK
<1>1. ASSUME NEW k \in Kinds \cup {"other"}, Commit(k) PROVE QueueFollows'
  BY <1>1 DEF Commit, QueueFollows
<1>2. CASE Publish
  <2>1. CASE live
    <3>1. queue' = Append(queue, published + 1) /\ published' = published + 1
      BY <1>2, <2>1 DEF Publish
    <3>2. /\ Len(queue') = Len(queue) + 1
          /\ \A i \in 1..Len(queue) : queue'[i] = queue[i]
          /\ queue'[Len(queue) + 1] = published + 1
      BY <1>0, <3>1
    <3>3. ASSUME NEW i \in 1..Len(queue') PROVE queue'[i] = published' - Len(queue') + i
      <4>1. CASE i = Len(queue) + 1
        BY <1>0, <3>1, <3>2, <4>1
      <4>2. CASE i /= Len(queue) + 1
        BY <1>0, <3>1, <3>2, <4>2 DEF QueueFollows
      <4> QED BY <4>1, <4>2
    <3>4. live' /\ liveFrom' = liveFrom /\ pc' = pc
      BY <1>2, <2>1 DEF Publish
    <3>5. /\ liveFrom' + Len(queue') <= published'
          /\ pc' /= "open" => published' = liveFrom' + Len(queue')
      BY <1>0, <2>1, <3>1, <3>2, <3>4 DEF QueueFollows
    <3> QED BY <3>3, <3>4, <3>5 DEF QueueFollows
  <2>2. CASE ~live
    <3>1. queue' = << >> /\ liveFrom' = 0 /\ ~live' /\ published' \in Nat
      BY <1>0, <1>2, <2>2 DEF Publish, QueueFollows
    <3> QED BY <3>1 DEF QueueFollows
  <2> QED BY <2>1, <2>2
<1>3. CASE Connect
  BY <1>3 DEF Connect, QueueFollows
<1>4. CASE GoLive
  <2>1. queue' = << >> /\ liveFrom' = published /\ published' = published /\ live'
    BY <1>4 DEF GoLive, QueueFollows
  <2> QED BY <1>0, <2>1 DEF QueueFollows
<1>5. CASE Read
  BY <1>5 DEF Read, ReadRows, ReadState, QueueFollows
<1>6. CASE Open
  BY <1>6 DEF Open, QueueFollows
<1>7. CASE ReadPage
  BY <1>7 DEF ReadPage, QueueFollows
<1>8. CASE FilterReplay
  BY <1>8 DEF FilterReplay, Filter, QueueFollows
<1>9. CASE FilterLive
  <2>1. /\ queue' = Tail(queue) /\ queue /= << >>
        /\ published' = published /\ liveFrom' = liveFrom /\ live' /\ live /\ pc' = "open"
    BY <1>9 DEF FilterLive, Filter
  <2>2. /\ Len(queue') = Len(queue) - 1
        /\ \A i \in 1..Len(queue') : queue'[i] = queue[i + 1]
    BY <1>0, <2>1
  <2>3. ASSUME NEW i \in 1..Len(queue') PROVE queue'[i] = published' - Len(queue') + i
    <3>1. i + 1 \in 1..Len(queue)
      BY <1>0, <2>2
    <3> QED BY <1>0, <2>1, <2>2, <3>1 DEF QueueFollows
  <2> QED BY <1>0, <2>1, <2>2, <2>3 DEF QueueFollows
<1>10. ASSUME NEW s \in Streams, Deliver(s) PROVE QueueFollows'
  BY <1>10 DEF Deliver, QueueFollows
<1>11. ASSUME NEW next \in {"off", "failed"}, Close(next) PROVE QueueFollows'
  <2>1. queue' = << >> /\ liveFrom' = 0 /\ ~live' /\ published' \in Nat
    BY <1>0, <1>11 DEF Close
  <2> QED BY <2>1 DEF QueueFollows
<1>12. CASE UNCHANGED boardVars
  BY <1>12 DEF boardVars, QueueFollows
<1> QED
  BY <1>1, <1>2, <1>3, <1>4, <1>5, <1>6, <1>7, <1>8, <1>9, <1>10, <1>11, <1>12
  DEF BoardNext, Server, Disconnect, ReadFails

\* What the filter does to the cursors of the streams.
LEMMA FilterStep ==
  ASSUME BoardTypeOK, NEW s \in Streams, NEW e \in 1..Len(log), Filter(s, e)
  PROVE  /\ \A k \in Kinds : last[k] <= last'[k]
         /\ log[e] \in Kinds => e <= last'[log[e]]
         /\ \A k \in Kinds : last'[k] /= last[k] =>
              k = log[e] /\ last'[k] = e /\ pending' = [pending EXCEPT ![s] = e]
         /\ pending' /= pending =>
              /\ log[e] \in Kinds /\ last[log[e]] < e
              /\ pending' = [pending EXCEPT ![s] = e]
<1>1. /\ last \in [Kinds -> 0..Len(log)] /\ Len(log) \in Nat
      /\ e \in Nat
  BY DEF BoardTypeOK
<1>2. CASE Relevant(e) /\ Passes(e)
  BY <1>1, <1>2 DEF Filter, Relevant, Passes
<1>3. CASE ~(Relevant(e) /\ Passes(e))
  <2>1. last' = last /\ pending' = pending
    BY <1>3 DEF Filter
  <2>2. log[e] \in Kinds => e <= last[log[e]]
    BY <1>1, <1>3 DEF Relevant, Passes
  <2> QED BY <1>1, <2>1, <2>2
<1> QED BY <1>2, <1>3

LEMMA RowsStep ==
  BoardTypeOK /\ RowsBeforeCursors /\ [BoardNext]_boardVars => RowsBeforeCursors'
<1> SUFFICES ASSUME BoardTypeOK, RowsBeforeCursors, [BoardNext]_boardVars PROVE RowsBeforeCursors'
  OBVIOUS
<1> USE DEF engine, loaded, Kinds
<1>0. /\ Len(log) \in Nat
      /\ loadedRows \in [Kinds -> 0..Len(log)] /\ cursor \in [Kinds -> 0..Len(log)]
      /\ last \in [Kinds -> 0..Len(log)]
  BY DEF BoardTypeOK
<1>1. ASSUME pc' = pc, loadedRows' = loadedRows, cursor' = cursor, last' = last PROVE RowsBeforeCursors'
  BY <1>1 DEF RowsBeforeCursors
<1>2. ASSUME pc' \in {"off", "failed", "cards"} PROVE RowsBeforeCursors'
  BY <1>2 DEF RowsBeforeCursors
<1>3. CASE Read
  <2>1. CASE ReadRows("cards", "card", "ghosts") \/ ReadRows("ghosts", "ghost", "cardState")
    BY <2>1 DEF ReadRows, RowsBeforeCursors
  <2>2. CASE ReadState("cardState", "card", "ghostState")
    BY <1>0, <2>2 DEF ReadState, RowsBeforeCursors
  <2>3. CASE ReadState("ghostState", "ghost", "snapshot")
    BY <1>0, <2>3 DEF ReadState, RowsBeforeCursors
  <2> QED BY <1>3, <2>1, <2>2, <2>3 DEF Read
<1>4. CASE Open
  BY <1>0, <1>4 DEF Open, RowsBeforeCursors
<1>5. ASSUME NEW s \in Streams, NEW e \in 1..Len(log), Filter(s, e) PROVE RowsBeforeCursors'
  <2>1. \A k \in Kinds : last[k] <= last'[k]
    BY <1>5, FilterStep
  <2>2. last' \in [Kinds -> 0..Len(log)]
    BY <1>5, FilterType
  <2>3. pc = "open" /\ pc' = "open" /\ loadedRows' = loadedRows /\ cursor' = cursor
    BY <1>5 DEF Filter
  <2> QED BY <1>0, <2>1, <2>2, <2>3 DEF RowsBeforeCursors
<1>6. CASE FilterReplay
  <2>1. replay.at + 1 \in 1..Len(log)
    BY <1>0, <1>6 DEF FilterReplay, BoardTypeOK
  <2> QED BY <1>5, <1>6, <2>1 DEF FilterReplay, Streams
<1>7. CASE FilterLive
  <2>1. Head(queue) \in 1..Len(log)
    BY <1>7 DEF FilterLive, BoardTypeOK
  <2> QED BY <1>5, <1>7, <2>1 DEF FilterLive, Streams
<1>8. CASE \/ \E k \in Kinds \cup {"other"} : Commit(k)
           \/ Publish \/ GoLive \/ ReadPage \/ \E s \in Streams : Deliver(s)
           \/ UNCHANGED boardVars
  BY <1>1, <1>8 DEF Commit, Publish, GoLive, ReadPage, Deliver, boardVars
<1>9. CASE Connect \/ Disconnect \/ ReadFails
  BY <1>2, <1>9 DEF Connect, Disconnect, ReadFails, Close
<1> QED
  BY <1>3, <1>4, <1>6, <1>7, <1>8, <1>9 DEF BoardNext, Server

\* Steps that leave what the browser and the filter have alone.
LEMMA FreshKept ==
  ASSUME BoardTypeOK, Fresh, pc' = pc, last' = last, pending' = pending, board' = board,
         \A e \in 1..Len(log) : log'[e] = log[e]
  PROVE  Fresh'
<1>1. /\ \A s \in Streams : pending[s] /= 0 => pending[s] \in 1..Len(log)
      /\ board \subseteq 1..Len(log)
  BY DEF BoardTypeOK
<1> QED BY <1>1 DEF Fresh, NothingTwice, Streams

LEMMA FreshStep ==
  BoardTypeOK /\ RowsBeforeCursors /\ Fresh /\ [BoardNext]_boardVars => Fresh'
<1> SUFFICES ASSUME BoardTypeOK, RowsBeforeCursors, Fresh, [BoardNext]_boardVars PROVE Fresh'
  OBVIOUS
<1> USE DEF engine, loaded
<1>0. /\ Len(log) \in Nat
      /\ loadedRows \in [Kinds -> 0..Len(log)] /\ cursor \in [Kinds -> 0..Len(log)]
      /\ last \in [Kinds -> 0..Len(log)] /\ pending \in [Streams -> 0..Len(log)]
      /\ board \subseteq 1..Len(log)
  BY DEF BoardTypeOK
<1>1. CASE \/ Publish \/ GoLive \/ ReadPage \/ UNCHANGED boardVars
  BY <1>1, FreshKept DEF Publish, GoLive, ReadPage, boardVars
<1>2. ASSUME NEW k \in Kinds \cup {"other"}, Commit(k) PROVE Fresh'
  <2>1. \A e \in 1..Len(log) : log'[e] = log[e]
    BY <1>2 DEF Commit, BoardTypeOK
  <2> QED BY <1>2, <2>1, FreshKept DEF Commit
<1>3. ASSUME pc' /= "open", \A s \in Streams : pending'[s] = 0 PROVE Fresh'
  BY <1>3 DEF Fresh, NothingTwice, Streams
<1>4. pc /= "open" => \A s \in Streams : pending[s] = 0
  BY DEF Fresh
<1>5. CASE Connect \/ Read
  BY <1>3, <1>4, <1>5 DEF Connect, Read, ReadRows, ReadState
<1>6. CASE Disconnect \/ ReadFails
  BY <1>3, <1>6 DEF Disconnect, ReadFails, Close, NothingPending
<1>7. CASE Open
  <2>1. \A s \in Streams : pending'[s] = 0
    BY <1>4, <1>7 DEF Open
  <2>2. ASSUME NEW e \in board' PROVE log[e] \in Kinds /\ e <= cursor[log[e]]
    <3>1. e \in 1..Len(log) /\ log[e] \in Kinds /\ e <= loadedRows[log[e]]
      BY <1>7, <2>2 DEF Open, Snapshot
    <3>2. loadedRows[log[e]] <= cursor[log[e]]
      BY <1>7, <3>1 DEF Open, RowsBeforeCursors, Kinds
    <3> QED BY <1>0, <3>1, <3>2
  <2> QED BY <1>7, <2>1, <2>2 DEF Open, Fresh, NothingTwice, Streams
<1>8. ASSUME NEW s \in Streams, NEW e \in 1..Len(log), Filter(s, e) PROVE Fresh'
  <2>1. /\ \A k \in Kinds : last[k] <= last'[k]
        /\ log[e] \in Kinds => e <= last'[log[e]]
        /\ pending' /= pending => /\ log[e] \in Kinds /\ last[log[e]] < e
                                  /\ pending' = [pending EXCEPT ![s] = e]
    BY <1>8, FilterStep
  <2>2. last' \in [Kinds -> 0..Len(log)]
    BY <1>8, FilterType
  <2>3. pc = "open" /\ pc' = "open" /\ log' = log /\ board' = board /\ pending[s] = 0
    BY <1>8 DEF Filter
  <2>4. \A f \in board : log[f] \in Kinds /\ f <= last'[log[f]]
    BY <1>0, <2>1, <2>2, <2>3 DEF Fresh
  <2>5. CASE pending' = pending
    <3>1. \A r \in Streams : pending[r] /= 0 =>
            log[pending[r]] \in Kinds /\ pending[r] <= last'[log[pending[r]]]
      BY <1>0, <2>1, <2>2 DEF Fresh
    <3> QED BY <2>3, <2>4, <2>5, <3>1 DEF Fresh, NothingTwice
  <2>6. CASE pending' /= pending
    <3>1. /\ e \notin board
          /\ \A r \in Streams : pending[r] /= e
      <4>1. e /= 0 /\ e \in Nat /\ last[log[e]] \in Nat /\ ~(e <= last[log[e]])
        BY <1>0, <2>1, <2>6
      <4> QED BY <2>3, <4>1 DEF Fresh
    <3>2. \A r \in Streams : r /= s => pending'[r] = pending[r]
      BY <1>0, <2>1, <2>6
    <3>3. pending'[s] = e
      BY <1>0, <2>1, <2>6
    <3>4. \A r \in Streams : pending'[r] /= 0 =>
            log[pending'[r]] \in Kinds /\ pending'[r] <= last'[log[pending'[r]]]
      BY <1>0, <2>1, <2>2, <2>6, <3>2, <3>3 DEF Fresh
    <3>5. \A r \in Streams : pending'[r] /= 0 => pending'[r] \notin board
      BY <3>1, <3>2, <3>3 DEF Fresh, NothingTwice
    <3>6. pending'["replay"] /= 0 => pending'["replay"] /= pending'["live"]
      BY <3>1, <3>2, <3>3 DEF Streams
    <3> QED BY <2>3, <2>4, <3>4, <3>5, <3>6 DEF Fresh, NothingTwice
  <2> QED BY <2>5, <2>6
<1>9. CASE FilterReplay
  <2>1. replay.at + 1 \in 1..Len(log)
    BY <1>0, <1>9 DEF FilterReplay, BoardTypeOK
  <2> QED BY <1>8, <1>9, <2>1 DEF FilterReplay, Streams
<1>10. CASE FilterLive
  <2>1. Head(queue) \in 1..Len(log)
    BY <1>10 DEF FilterLive, BoardTypeOK
  <2> QED BY <1>8, <1>10, <2>1 DEF FilterLive, Streams
<1>11. ASSUME NEW s \in Streams, Deliver(s) PROVE Fresh'
  <2>1. /\ pending' = [pending EXCEPT ![s] = 0] /\ pending[s] /= 0
        /\ board' = board \cup {pending[s]}
        /\ pc' = pc /\ last' = last /\ log' = log
    BY <1>11 DEF Deliver
  <2>2. \A r \in Streams : pending'[r] /= 0 => r /= s /\ pending'[r] = pending[r]
    BY <1>0, <2>1
  <2>3. \A r \in Streams : pending'[r] /= 0 => pending'[r] \notin board'
    BY <2>1, <2>2 DEF Fresh, NothingTwice, Streams
  <2>4. pending'["replay"] /= 0 => pending'["replay"] /= pending'["live"]
    BY <1>0, <2>1 DEF Fresh, NothingTwice, Streams
  <2>5. \A f \in board' : log[f] \in Kinds /\ f <= last[log[f]]
    BY <2>1 DEF Fresh
  <2> QED BY <2>1, <2>2, <2>3, <2>4, <2>5 DEF Fresh, NothingTwice
<1> QED
  BY <1>1, <1>2, <1>5, <1>6, <1>7, <1>9, <1>10, <1>11 DEF BoardNext, Server

LEMMA ConsumedStep ==
  /\ BoardTypeOK /\ QueueFollows /\ RowsBeforeCursors /\ Consumed
  /\ [BoardNext]_boardVars
  => Consumed'
<1> SUFFICES ASSUME BoardTypeOK, QueueFollows, RowsBeforeCursors, Consumed, [BoardNext]_boardVars
             PROVE  Consumed'
  OBVIOUS
<1> USE DEF engine, loaded
<1>0. /\ Len(log) \in Nat /\ published \in 0..Len(log) /\ liveFrom \in Nat
      /\ last \in [Kinds -> 0..Len(log)] /\ cursor \in [Kinds -> 0..Len(log)]
      /\ queue \in Seq(Nat) /\ Len(queue) \in Nat
      /\ replay.at \in Nat /\ replay.at <= Len(log)
  BY SeqOfNat DEF BoardTypeOK
\* Nothing more is seen and no cursor falls back.
<1>1. ASSUME pc' = pc, log' = log, last' \in [Kinds -> 0..Len(log)],
             \A k \in Kinds : last[k] <= last'[k],
             \A f \in 1..Len(log) : Seen(f)' /\ log[f] \in Kinds => Seen(f) \/ f <= last'[log[f]]
      PROVE  Consumed'
  <2> SUFFICES ASSUME pc = "open", NEW f \in 1..Len(log), log[f] \in Kinds, Seen(f)'
               PROVE  f <= last'[log[f]]
    BY <1>1 DEF Consumed
  <2>1. CASE Seen(f)
    <3>1. f <= last[log[f]]
      BY <2>1 DEF Consumed
    <3> QED BY <1>0, <1>1, <3>1
  <2>2. CASE ~Seen(f)
    BY <1>1, <2>2
  <2> QED BY <2>1, <2>2
<1>2. \A k \in Kinds : last[k] <= last[k]
  BY <1>0
<1>3. ASSUME pc' /= "open" PROVE Consumed'
  BY <1>3 DEF Consumed
<1>4. ASSUME NEW k \in Kinds \cup {"other"}, Commit(k) PROVE Consumed'
  <2> SUFFICES ASSUME pc = "open", NEW f \in 1..Len(log'), log'[f] \in Kinds, Seen(f)'
               PROVE  f <= last[log'[f]]
    BY <1>4 DEF Commit, Consumed
  <2>1. Seen(f)
    BY <1>4 DEF Commit, Seen
  <2>2. f <= Len(log)
    BY <1>0, <2>1 DEF Seen
  <2>3. log'[f] = log[f]
    BY <1>0, <1>4, <2>2 DEF Commit, BoardTypeOK
  <2> QED BY <2>1, <2>2, <2>3 DEF Consumed
<1>5. CASE Publish
  <2>1. \A f \in 1..Len(log) : Seen(f)' => Seen(f)
    <3>1. CASE live
      <4>1. published' - Len(queue') = published - Len(queue)
        BY <1>0, <1>5, <3>1 DEF Publish
      <4> QED BY <1>5, <3>1, <4>1 DEF Publish, Seen
    <3>2. CASE ~live
      BY <1>5, <3>2 DEF Publish, Seen
    <3> QED BY <3>1, <3>2
  <2> QED BY <1>0, <1>1, <1>2, <1>5, <2>1 DEF Publish
<1>6. CASE Connect \/ Disconnect \/ ReadFails \/ Read
  BY <1>3, <1>6 DEF Connect, Disconnect, ReadFails, Close, Read, ReadRows, ReadState
<1>7. CASE GoLive
  <2>1. queue = << >> /\ queue' = queue /\ liveFrom' = published /\ published' = published
        /\ replay' = replay
    BY <1>7 DEF GoLive, QueueFollows
  <2>2. \A f \in 1..Len(log) : Seen(f)' => Seen(f)
    BY <1>0, <2>1 DEF Seen
  <2> QED BY <1>0, <1>1, <1>2, <1>7, <2>2 DEF GoLive
<1>8. CASE Open
  <2> SUFFICES ASSUME NEW f \in 1..Len(log), log[f] \in Kinds, Seen(f)'
               PROVE  f <= cursor[log[f]]
    BY <1>8 DEF Open, Consumed
  <2>1. replay'.at = Smaller(cursor["card"], cursor["ghost"])
    BY <1>8 DEF Open
  <2>2. replay'.at <= cursor[log[f]]
    BY <1>0, <2>1 DEF Smaller, Kinds
  <2>3. ~(live' /\ liveFrom' < f /\ f <= published' - Len(queue'))
    <3>1. live' = live /\ liveFrom' = liveFrom /\ published' = published /\ queue' = queue
          /\ pc /= "open"
      BY <1>8 DEF Open
    <3> QED BY <1>0, <3>1 DEF QueueFollows
  <2>4. f <= replay'.at
    BY <2>3 DEF Seen
  <2>5. replay'.at \in Nat /\ cursor[log[f]] \in Nat
    BY <1>0, <2>1 DEF Smaller, Kinds
  <2> QED BY <2>2, <2>4, <2>5
<1>9. CASE ReadPage
  <2>1. replay'.at = replay.at
    BY <1>9 DEF ReadPage, BoardTypeOK
  <2>2. \A f \in 1..Len(log) : Seen(f)' => Seen(f)
    BY <1>9, <2>1 DEF ReadPage, Seen
  <2> QED BY <1>0, <1>1, <1>2, <1>9, <2>2 DEF ReadPage
<1>10. CASE FilterReplay
  <2>1. replay.at + 1 \in 1..Len(log) /\ replay'.at = replay.at + 1
    BY <1>0, <1>10 DEF FilterReplay, BoardTypeOK
  <2>2. Filter("replay", replay.at + 1) /\ "replay" \in Streams
    BY <1>10 DEF FilterReplay, Streams
  <2>3. \A f \in 1..Len(log) : Seen(f)' => Seen(f) \/ f = replay.at + 1
    BY <1>0, <1>10, <2>1 DEF FilterReplay, Filter, Seen
  <2> QED BY <1>1, <2>1, <2>2, <2>3, FilterStep, FilterType DEF Filter
<1>11. CASE FilterLive
  <2>1. Head(queue) \in 1..Len(log) /\ Len(queue') = Len(queue) - 1
        /\ Head(queue) = published - Len(queue) + 1
    BY <1>0, <1>11 DEF FilterLive, BoardTypeOK, QueueFollows
  <2>2. Filter("live", Head(queue)) /\ "live" \in Streams
    BY <1>11 DEF FilterLive, Streams
  <2>3. \A f \in 1..Len(log) : Seen(f)' => Seen(f) \/ f = Head(queue)
    BY <1>0, <1>11, <2>1 DEF FilterLive, Filter, Seen
  <2> QED BY <1>1, <2>1, <2>2, <2>3, FilterStep, FilterType DEF Filter
<1>12. CASE UNCHANGED boardVars \/ \E s \in Streams : Deliver(s)
  <2>1. \A f \in 1..Len(log) : Seen(f)' => Seen(f)
    BY <1>12 DEF Deliver, boardVars, Seen
  <2> QED BY <1>0, <1>1, <1>2, <1>12, <2>1 DEF Deliver, boardVars
<1> QED
  BY <1>4, <1>5, <1>6, <1>7, <1>8, <1>9, <1>10, <1>11, <1>12 DEF BoardNext, Server

LEMMA KeptStep ==
  /\ BoardTypeOK /\ QueueFollows /\ RowsBeforeCursors /\ Consumed /\ Kept
  /\ [BoardNext]_boardVars
  => Kept'
<1> SUFFICES ASSUME BoardTypeOK, QueueFollows, RowsBeforeCursors, Consumed, Kept, [BoardNext]_boardVars
             PROVE  Kept'
  OBVIOUS
<1> USE DEF engine, loaded
<1>0. /\ Len(log) \in Nat /\ published \in 0..Len(log) /\ liveFrom \in 0..Len(log)
      /\ last \in [Kinds -> 0..Len(log)] /\ cursor \in [Kinds -> 0..Len(log)]
      /\ loadedRows \in [Kinds -> 0..Len(log)] /\ pending \in [Streams -> 0..Len(log)]
      /\ queue \in Seq(Nat) /\ Len(queue) \in Nat
      /\ replay.at \in Nat /\ replay.at <= Len(log)
  BY SeqOfNat DEF BoardTypeOK
<1>1. ASSUME pc' = pc, log' = log, last' = last,
             \A f \in 1..Len(log) : log[f] \in Kinds /\ Reaches(f) => Reaches(f)'
      PROVE  Kept'
  BY <1>1 DEF Kept
<1>2. ASSUME pc' /= "open" PROVE Kept'
  BY <1>2 DEF Kept
<1>3. CASE \/ Publish \/ ReadPage \/ UNCHANGED boardVars
  <2>1. \A f \in 1..Len(log) : Reaches(f) => Reaches(f)'
    BY <1>3 DEF Publish, ReadPage, boardVars, Reaches, WhileLoading
  <2> QED BY <1>1, <1>3, <2>1 DEF Publish, ReadPage, boardVars
<1>4. ASSUME NEW k \in Kinds \cup {"other"}, Commit(k) PROVE Kept'
  <2> SUFFICES ASSUME pc = "open", NEW f \in 1..Len(log'), log'[f] \in Kinds, f <= last[log'[f]]
               PROVE  Reaches(f)'
    BY <1>4 DEF Commit, Kept
  <2>1. f <= Len(log)
    BY <1>0
  <2>2. log'[f] = log[f]
    BY <1>0, <1>4, <2>1 DEF Commit, BoardTypeOK
  <2>3. Reaches(f)
    BY <1>0, <2>1, <2>2 DEF Kept
  <2> QED BY <1>4, <2>2, <2>3 DEF Commit, Reaches, WhileLoading
<1>5. CASE Connect \/ Disconnect \/ ReadFails \/ Read
  BY <1>2, <1>5 DEF Connect, Disconnect, ReadFails, Close, Read, ReadRows, ReadState
<1>6. CASE GoLive
  <2>1. ASSUME NEW f \in 1..Len(log), log[f] \in Kinds, WhileLoading(f)
        PROVE  WhileLoading(f)'
    <3>1. liveFrom = 0 /\ liveFrom' = published /\ cursor' = cursor /\ loadedRows' = loadedRows /\ log' = log
      BY <1>6 DEF GoLive, QueueFollows
    <3>2. Larger(cursor[log[f]], 0) <= Larger(cursor[log[f]], published)
      BY <1>0, <2>1 DEF Larger
    <3>3. Larger(cursor[log[f]], 0) \in Nat /\ Larger(cursor[log[f]], published) \in Nat
      BY <1>0, <2>1 DEF Larger
    <3>4. f <= Larger(cursor[log[f]], 0) /\ loadedRows[log[f]] < f
      BY <2>1, <3>1 DEF WhileLoading
    <3> HIDE DEF Larger
    <3>5. f <= Larger(cursor[log[f]], published)
      BY <3>2, <3>3, <3>4
    <3> QED BY <3>1, <3>4, <3>5 DEF WhileLoading
  <2>2. \A f \in 1..Len(log) : log[f] \in Kinds /\ Reaches(f) => Reaches(f)'
    BY <1>6, <2>1 DEF GoLive, Reaches
  <2> QED BY <1>1, <1>6, <2>2 DEF GoLive
<1>7. CASE Open
  <2> SUFFICES ASSUME NEW f \in 1..Len(log), log[f] \in Kinds, f <= cursor[log[f]]
               PROVE  Reaches(f)'
    BY <1>7 DEF Open, Kept
  <2>1. CASE f <= loadedRows[log[f]]
    BY <1>7, <2>1 DEF Open, Snapshot, Reaches
  <2>2. CASE ~(f <= loadedRows[log[f]])
    <3>1. f <= Larger(cursor[log[f]], liveFrom) /\ loadedRows[log[f]] < f
      BY <1>0, <2>2 DEF Larger
    <3>2. log' = log /\ loadedRows' = loadedRows /\ cursor' = cursor /\ liveFrom' = liveFrom
      BY <1>7 DEF Open
    <3> QED BY <3>1, <3>2 DEF Reaches, WhileLoading
  <2> QED BY <2>1, <2>2
\* What the filter passes over has been seen or was published before the
\* subscription was live.
<1>8. ASSUME NEW s \in Streams, NEW e \in 1..Len(log), Filter(s, e),
             \A f \in 1..Len(log) : f < e => Seen(f) \/ f <= liveFrom
      PROVE  Kept'
  <2> SUFFICES ASSUME NEW f \in 1..Len(log), log[f] \in Kinds, f <= last'[log[f]]
               PROVE  Reaches(f)'
    BY <1>8 DEF Filter, Kept
  <2>1. /\ pc = "open" /\ pending[s] = 0 /\ log' = log /\ board' = board
        /\ loadedRows' = loadedRows /\ cursor' = cursor /\ liveFrom' = liveFrom
    BY <1>8 DEF Filter
  <2>2. /\ last'[log[f]] /= last[log[f]] =>
             log[f] = log[e] /\ last'[log[f]] = e /\ pending' = [pending EXCEPT ![s] = e]
        /\ pending' /= pending => pending' = [pending EXCEPT ![s] = e]
    BY <1>8, FilterStep
  <2>3. WhileLoading(f) => WhileLoading(f)'
    BY <2>1 DEF WhileLoading
  <2>4. Reaches(f) => Reaches(f)'
    <3>1. \A r \in Streams : pending[r] = f => pending'[r] = f
      BY <1>0, <2>1, <2>2
    <3> QED BY <2>1, <2>3, <3>1 DEF Reaches
  <2>5. CASE f <= last[log[f]]
    BY <2>1, <2>4, <2>5 DEF Kept
  <2>6. CASE f = e /\ ~(f <= last[log[f]])
    <3>1. pending' = [pending EXCEPT ![s] = e]
      BY <2>2, <2>6
    <3> QED BY <1>0, <2>6, <3>1 DEF Reaches
  <2>7. CASE f /= e /\ ~(f <= last[log[f]])
    <3>1. f < e
      BY <1>0, <2>2, <2>7
    <3>2. f <= liveFrom
      BY <1>8, <2>1, <2>7, <3>1 DEF Consumed
    <3>3. loadedRows[log[f]] <= cursor[log[f]] /\ cursor[log[f]] <= last[log[f]]
      BY <2>1 DEF RowsBeforeCursors, Kinds
    <3>4. loadedRows[log[f]] < f /\ f <= Larger(cursor[log[f]], liveFrom)
      BY <1>0, <2>7, <3>2, <3>3 DEF Larger
    <3>5. WhileLoading(f)
      BY <3>4 DEF WhileLoading
    <3> QED BY <2>3, <3>5 DEF Reaches
  <2> QED BY <2>5, <2>6, <2>7
<1>9. CASE FilterReplay
  <2>1. replay.at + 1 \in 1..Len(log) /\ Filter("replay", replay.at + 1)
    BY <1>0, <1>9 DEF FilterReplay, BoardTypeOK
  <2>2. \A f \in 1..Len(log) : f < replay.at + 1 => Seen(f)
    BY <1>0 DEF Seen
  <2> QED BY <1>8, <2>1, <2>2 DEF Streams
<1>10. CASE FilterLive
  <2>1. /\ Head(queue) \in 1..Len(log) /\ Filter("live", Head(queue)) /\ live
        /\ Head(queue) = published - Len(queue) + 1
    <3>1. queue /= << >> /\ Filter("live", Head(queue)) /\ live
      BY <1>10 DEF FilterLive, Filter
    <3>2. Head(queue) \in 1..Len(log)
      BY <3>1 DEF BoardTypeOK
    <3>3. Head(queue) = published - Len(queue) + 1
      BY <1>0, <3>1 DEF QueueFollows
    <3> QED BY <3>1, <3>2, <3>3
  <2>2. \A f \in 1..Len(log) : f < Head(queue) => Seen(f) \/ f <= liveFrom
    BY <1>0, <2>1 DEF Seen
  <2> QED BY <1>8, <2>1, <2>2 DEF Streams
<1>11. ASSUME NEW s \in Streams, Deliver(s) PROVE Kept'
  <2>1. /\ pending' = [pending EXCEPT ![s] = 0] /\ board' = board \cup {pending[s]}
        /\ log' = log /\ loadedRows' = loadedRows /\ cursor' = cursor /\ liveFrom' = liveFrom
    BY <1>11 DEF Deliver
  <2>2. \A f \in 1..Len(log) : log[f] \in Kinds /\ Reaches(f) => Reaches(f)'
    BY <1>0, <2>1 DEF Reaches, WhileLoading
  <2> QED BY <1>1, <1>11, <2>2 DEF Deliver
<1> QED
  BY <1>3, <1>4, <1>5, <1>6, <1>7, <1>9, <1>10, <1>11 DEF BoardNext, Server
-----------------------------------------------------------------------------
(* The theorems.                                                           *)

LEMMA InvariantHolds == BoardSpec => []IInv
<1>1. IInv /\ [BoardNext]_boardVars => IInv'
  BY NextType, QueueStep, RowsStep, FreshStep, ConsumedStep, KeptStep DEF IInv
<1> QED BY InitInv, <1>1, PTL DEF BoardSpec

\* Whatever a stream queues, reads or delivers is in the log, and no cursor
\* runs past its end, for all limits, page sizes, reconnects and failures.
THEOREM BoardTypeCorrect == BoardSpec => []BoardTypeOK
  BY InitType, NextType, PTL DEF BoardSpec

\* No event reaches the browser that its snapshot contains or that the other
\* stream delivered, for every overlap of replay and queue.
THEOREM DeliveredOnce == BoardSpec => []NothingTwice
<1>1. IInv => NothingTwice
  BY DEF IInv, Fresh
<1> QED BY InvariantHolds, <1>1, PTL

\* When everything is delivered the browser lacks only events committed while
\* its subscription loaded, for every limit, page size and order of the streams.
THEOREM MissesOnlyWhileLoading == BoardSpec => []OnlyLoadingMisses
<1>1. ASSUME IInv, Settled, NEW e \in Missing PROVE WhileLoading(e)
  <2>1. /\ Len(log) \in Nat /\ liveFrom \in 0..Len(log) /\ queue \in Seq(Nat)
        /\ last \in [Kinds -> 0..Len(log)] /\ cursor \in [Kinds -> 0..Len(log)]
        /\ loadedRows \in [Kinds -> 0..Len(log)]
    BY <1>1, SeqOfNat DEF IInv, BoardTypeOK
  <2>2. /\ e \in 1..Len(log) /\ log[e] \in Kinds /\ e \notin board
        /\ pc = "open" /\ live /\ published = Len(log) /\ Len(queue) = 0
        /\ \A s \in Streams : pending[s] /= e
    BY <1>1, <2>1 DEF Missing, Settled, NothingPending
  <2>3. CASE e <= last[log[e]]
    BY <1>1, <2>2, <2>3 DEF IInv, Kept, Reaches
  <2>4. CASE ~(e <= last[log[e]])
    <3>1. e <= liveFrom
      BY <1>1, <2>1, <2>2, <2>4 DEF IInv, Consumed, Seen
    <3>2. loadedRows[log[e]] <= cursor[log[e]] /\ cursor[log[e]] <= last[log[e]]
      BY <1>1, <2>2 DEF IInv, RowsBeforeCursors, Kinds
    <3> QED BY <2>1, <2>2, <2>4, <3>1, <3>2 DEF WhileLoading, Larger
  <2> QED BY <2>3, <2>4
<1>2. IInv => OnlyLoadingMisses
  BY <1>1 DEF OnlyLoadingMisses
<1> QED BY InvariantHolds, <1>2, PTL

-----------------------------------------------------------------------------
(* The team tasks: first their types.                                      *)

USE ConstantsAssumption

Status == Final \cup Active \cup {"absent"}
Thread == [session : {"none", "starting", "ready", "running", "error", "stopped"},
           turn : {"none", "running", "completed", "error"},
           diff : {"none", "placeholder", "due", "real"},
           asks : BOOLEAN, asked : BOOLEAN, exited : BOOLEAN]

\* The rows hold statuses, and the same tasks are absent as before.
SameTasks == /\ rows' \in [Tasks -> Status]
             /\ \A k \in Tasks : rows'[k] = "absent" <=> rows[k] = "absent"

LEMMA InitTyped == Init => TypeOK
  BY DEF Init, TypeOK, Idle, Tasks, Final, Active

\* What a mark makes of the rows.
LEMMA MarkedRows ==
  ASSUME TypeOK, NEW t \in Tasks, NEW s \in Final \cup Active
  PROVE  /\ Marked(t, s) \in [Tasks -> Status]
         /\ \A k \in Tasks : Marked(t, s)[k] = "absent" <=> rows[k] = "absent"
         /\ \A k \in Tasks : rows[k] \in Final => Marked(t, s)[k] = rows[k]
  BY DEF TypeOK, Marked, MayMark, Final, Active, Status

\* What TypeOK says of the rows outlives a change of statuses.
RowsTyped ==
  /\ rows' \in [Tasks -> Final \cup Active \cup {"absent"}]
  /\ known \subseteq {t \in Tasks : rows'[t] # "absent"}
  /\ threads \subseteq {c \in Children : rows'[c] # "absent"}
  /\ \A c \in Children : coord[c] \in {"idle", "checked", "refused"} => rows'[c] = "absent"

LEMMA SameTasksTyped ==
  ASSUME TypeOK, SameTasks PROVE RowsTyped
<1>1. Children \subseteq Tasks BY DEF Tasks
<1>2. rows' \in [Tasks -> Final \cup Active \cup {"absent"}] BY DEF SameTasks, Status
<1>3. known \subseteq {t \in Tasks : rows'[t] # "absent"} BY DEF TypeOK, SameTasks
<1>4. threads \subseteq {c \in Children : rows'[c] # "absent"} BY <1>1 DEF TypeOK, SameTasks
<1>5. \A c \in Children : coord[c] \in {"idle", "checked", "refused"} => rows'[c] = "absent"
  BY <1>1 DEF TypeOK, SameTasks
<1> QED BY <1>2, <1>3, <1>4, <1>5 DEF RowsTyped

\* The steps of spawnChild keep the types.
LEMMA SpawnTyped ==
  ASSUME TypeOK, NEW c \in Children, SpawnChild(c) PROVE TypeOK'
<1> c \in Tasks BY DEF Tasks
<1>1. CASE CheckSpawn(c)
  BY <1>1 DEF TypeOK, CheckSpawn, At, team, provider, reactor, bounds
<1>2. CASE SpawnTask(c)
  BY <1>2 DEF TypeOK, SpawnTask, MaySpawn, At, Active, Final, provider, reactor, bounds
<1>3. CASE SpawnRefused(c)
  <2>1. /\ failures' \in Nat
        /\ UNCHANGED <<followUps, closes, upserts, restarts>>
    BY <1>3 DEF TypeOK, SpawnRefused, FailOnce, bounds
  <2>2. At(c, "checked", "refused") /\ UNCHANGED <<team, provider, mail, reopened, closing, reactor>>
    BY <1>3 DEF SpawnRefused
  <2> QED BY <2>1, <2>2 DEF TypeOK, At, team, provider, reactor
<1>4. CASE PrepareWorkspace(c)
  BY <1>4 DEF TypeOK, PrepareWorkspace, At, provider, reactor, bounds
<1>5. CASE CreateThread(c)
  BY <1>5 DEF TypeOK, CreateThread, Link, At, provider, reactor, bounds
<1>6. CASE MarkStarting(c)
  <2>1. "starting" \in Final \cup Active BY DEF Active
  <2>2. SameTasks BY <1>6, <2>1, MarkedRows DEF MarkStarting, SameTasks
  <2>3. RowsTyped BY <2>2, SameTasksTyped
  <2> QED BY <1>6, <2>3 DEF TypeOK, RowsTyped, MarkStarting, At, provider, reactor, bounds
<1>7. CASE StartTurn(c)
  BY <1>7 DEF TypeOK, StartTurn, RequestTurn, At, team, bounds
<1>8. CASE SpawnFails(c)
  <2>1. PICK at \in {"queued", "prepared", "created", "started"} : At(c, at, "failing")
    BY <1>8 DEF SpawnFails
  <2>2. failures' \in Nat /\ UNCHANGED <<followUps, closes, upserts, restarts>>
    BY <1>8 DEF TypeOK, SpawnFails, FailOnce, bounds
  <2>3. UNCHANGED <<team, provider, mail, reopened, closing, reactor>>
    BY <1>8 DEF SpawnFails
  <2> QED BY <2>1, <2>2, <2>3 DEF TypeOK, At, team, provider, reactor
<1>9. CASE RemoveWorktree(c)
  <2>1. /\ failures' \in Nat
        /\ UNCHANGED <<followUps, closes, upserts, restarts>>
    BY <1>9 DEF TypeOK, RemoveWorktree, FailOnce, bounds
  <2>2. worktrees' \subseteq Children
    BY <1>9 DEF TypeOK, RemoveWorktree, WithoutWorktree
  <2>3. /\ At(c, "failing", "reporting")
        /\ UNCHANGED <<rows, known, threads, linked, provider, mail, reopened, closing, reactor>>
    BY <1>9 DEF RemoveWorktree
  <2> QED BY <2>1, <2>2, <2>3 DEF TypeOK, At, provider, reactor
<1>10. CASE ReportFailure(c)
  <2>1. "failed" \in Final \cup Active BY DEF Final
  <2>2. rows \in [Tasks -> Status] BY DEF TypeOK, Status
  <2>3. SameTasks
    BY <1>10, <2>1, <2>2, MarkedRows DEF ReportFailure, Reported, SameTasks
  <2>4. RowsTyped BY <2>3, SameTasksTyped
  <2>5. failures' \in Nat /\ UNCHANGED <<followUps, closes, upserts, restarts>>
    BY <1>10 DEF TypeOK, ReportFailure, FailOnce, bounds
  <2> QED BY <1>10, <2>4, <2>5 DEF TypeOK, RowsTyped, ReportFailure, At, provider, reactor
<1> QED BY <1>1, <1>2, <1>3, <1>4, <1>5, <1>6, <1>7, <1>8, <1>9, <1>10 DEF SpawnChild

\* The steps of sendChildMessage and closeChild keep the types.
LEMMA SteerTyped ==
  ASSUME TypeOK, NEW c \in Children, Steer(c) PROVE TypeOK'
<1> c \in Tasks BY DEF Tasks
<1>1. CASE SendMessage(c)
  BY <1>1 DEF TypeOK, SendMessage, Reachable, Active, Final, provider, reactor
<1>2. CASE FollowUpTurn(c)
  <2>1. CASE RequestTurn(c) /\ UNCHANGED bounds
    BY <1>2, <2>1 DEF TypeOK, FollowUpTurn, RequestTurn, team, bounds
  <2>2. CASE FailOnce /\ UNCHANGED <<provider, reactor>>
    BY <1>2, <2>2 DEF TypeOK, FollowUpTurn, FailOnce, team, provider, reactor
  <2> QED BY <1>2, <2>1, <2>2 DEF FollowUpTurn
<1>3. CASE CloseTask(c)
  BY <1>3 DEF TypeOK, CloseTask, ClosingAt, team, provider, reactor
<1>4. CASE StopSession(c)
  BY <1>4 DEF TypeOK, StopSession, ClosingAt, team, reactor, bounds
<1>5. CASE MarkCancelled(c)
  <2>1. "cancelled" \in Final \cup Active BY DEF Final
  <2>2. SameTasks BY <1>5, <2>1, MarkedRows DEF MarkCancelled, SameTasks
  <2>3. RowsTyped BY <2>2, SameTasksTyped
  <2> QED BY <1>5, <2>3 DEF TypeOK, RowsTyped, MarkCancelled, ClosingAt, provider, reactor, bounds
<1>6. CASE CloseFails(c)
  BY <1>6 DEF TypeOK, CloseFails, ClosingAt, FailOnce, team, provider, reactor, bounds
<1> QED BY <1>1, <1>2, <1>3, <1>4, <1>5, <1>6 DEF Steer

\* What a change of a child thread leaves alone.
LEMMA BecomesTyped ==
  ASSUME TypeOK, NEW c \in Children, NEW t, Becomes(c, t),
         t \in Thread, requests' \in [Children -> Nat], stops' \subseteq Children, reopened' \subseteq Children
  PROVE  TypeOK'
<1>1. child' \in [Children -> Thread] BY DEF TypeOK, Becomes, Thread
<1>2. inbox' \in Seq(Children) BY DEF TypeOK, Becomes
<1> QED BY <1>1, <1>2 DEF TypeOK, Becomes, Thread, team, bounds

\* The steps of the provider keep the types.
LEMMA ProviderTyped ==
  ASSUME TypeOK, NEW c \in Children, Provider(c) PROVE TypeOK'
<1>t. /\ child[c] \in Thread
      /\ requests \in [Children -> Nat] /\ stops \subseteq Children /\ reopened \subseteq Children
  BY DEF TypeOK, Thread
<1>1. CASE SessionStarts(c)
  BY <1>1, <1>t, BecomesTyped DEF Thread, SessionStarts
<1>2. CASE TurnStarts(c)
  <2>1. [child[c] EXCEPT !.session = "running", !.turn = "running", !.diff = "none"] \in Thread
    BY <1>t DEF Thread
  <2>2. requests' \in [Children -> Nat] /\ stops' \subseteq Children /\ reopened' \subseteq Children
    BY <1>2, <1>t DEF TurnStarts, Requested
  <2> QED BY <1>2, <2>1, <2>2, BecomesTyped DEF TurnStarts
<1>3. CASE TurnRefused(c)
  BY <1>3, <1>t, BecomesTyped DEF Thread, TurnRefused, Requested
<1>4. CASE TurnEnds(c)
  BY <1>4, <1>t, BecomesTyped DEF Thread, TurnEnds
<1>5. CASE Placeholder(c)
  BY <1>5, <1>t, BecomesTyped DEF Thread, Placeholder
<1>6. CASE TurnGoesOn(c)
  BY <1>6, <1>t, BecomesTyped DEF Thread, TurnGoesOn
<1>7. CASE Capture(c)
  BY <1>7, <1>t, BecomesTyped DEF Thread, Capture
<1>8. CASE Asks(c)
  BY <1>8, <1>t, BecomesTyped DEF Thread, Asks
<1>9. CASE Resolves(c)
  BY <1>9, <1>t, BecomesTyped DEF Thread, Resolves
<1>10. CASE SessionExits(c)
  BY <1>10, <1>t, BecomesTyped DEF Thread, SessionExits
<1>11. CASE SessionStopped(c)
  BY <1>11, <1>t, BecomesTyped DEF Thread, SessionStopped
<1> QED BY <1>1, <1>2, <1>3, <1>4, <1>5, <1>6, <1>7, <1>8, <1>9, <1>10, <1>11 DEF Provider

\* The steps of the reactor keep the types.
LEMMA ReactorTyped ==
  ASSUME TypeOK, Reactor PROVE TypeOK'
<1>1. CASE ReadChild
  <2> DEFINE c == Head(inbox)
  <2>1. c \in Children /\ Tail(inbox) \in Seq(Children)
    BY <1>1 DEF TypeOK, ReadChild
  <2>2. c \in known => Derived(c) \in Final \cup Active
    BY <2>1 DEF TypeOK, Derived, Final, Active
  <2>3. sync' \in {<< >>} \cup (Children \X (Final \cup Active))
    BY <1>1, <2>1, <2>2 DEF ReadChild
  <2> QED BY <1>1, <2>1, <2>3 DEF TypeOK, ReadChild, team, provider, service, bounds
<1>2. CASE MarkChild
  <2>1. sync[1] \in Tasks /\ sync[2] \in Final \cup Active
    BY <1>2 DEF TypeOK, MarkChild, Tasks
  <2>2. SameTasks BY <1>2, <2>1, MarkedRows DEF MarkChild, SameTasks
  <2>3. RowsTyped BY <2>2, SameTasksTyped
  <2>4. sync' = << >> /\ UNCHANGED <<known, threads, linked, worktrees, provider, service, inbox, bounds>>
    BY <1>2 DEF MarkChild
  <2> QED BY <2>3, <2>4 DEF TypeOK, RowsTyped, provider, service, bounds
<1>3. CASE MarkChildFails
  BY <1>3 DEF TypeOK, MarkChildFails, FailOnce, team, provider, service, bounds
<1> QED BY <1>1, <1>2, <1>3 DEF Reactor

\* Every step keeps the types.
LEMMA NextTyped == TypeOK /\ [Next]_vars => TypeOK'
<1> SUFFICES ASSUME TypeOK, [Next]_vars PROVE TypeOK'
  OBVIOUS
<1>1. ASSUME NEW n \in Natives, NEW s \in {"running", "completed", "failed"}, UpsertNative(n, s)
      PROVE TypeOK'
  BY <1>1 DEF TypeOK, UpsertNative, Report, Tasks, Active, Final, provider, service, reactor
<1>2. CASE Restart
  <2>1. child' \in [Children -> Thread]
    <3>1. \A t \in Thread : [t EXCEPT !.asks = FALSE] \in Thread
      BY DEF Thread
    <3>2. \A c \in Children : child[c] \in Thread
      BY DEF TypeOK, Thread
    <3>3. child' = [c \in Children |-> [child[c] EXCEPT !.asks = FALSE]]
      BY <1>2 DEF Restart
    <3> QED BY <3>1, <3>2, <3>3
  <2>2. coord' \in [Children -> {"idle", "checked", "refused", "queued", "prepared", "created",
                                 "started", "done", "failing", "reporting", "failed", "gone"}]
    BY <1>2 DEF TypeOK, Restart
  <2>3. \A c \in Children : /\ coord'[c] = "idle" => coord[c] = "idle"
                            /\ coord'[c] \in {"idle", "gone"}
    BY <1>2 DEF Restart
  <2>4. requests' \in [Children -> Nat] /\ closing' \in [Children -> {"idle", "requested", "stopped"}]
    BY <1>2 DEF Restart
  <2>5. inbox' \in Seq(Children) /\ sync' = << >> /\ restarts' \in Nat
    BY <1>2 DEF TypeOK, Restart
  <2>6. /\ known' = {} /\ linked' = {} /\ stops' = {} /\ mail' = {} /\ reopened' = {}
        /\ UNCHANGED <<rows, threads, worktrees, followUps, closes, upserts, failures>>
    BY <1>2 DEF Restart
  <2> QED BY <2>1, <2>2, <2>3, <2>4, <2>5, <2>6 DEF TypeOK, Thread
<1>3. CASE UNCHANGED vars
  BY <1>3 DEF TypeOK, vars, team, provider, service, reactor, bounds
<1> QED
  BY <1>1, <1>2, <1>3, SpawnTyped, SteerTyped, ProviderTyped, ReactorTyped DEF Next

\* Every variable has its type in every reachable state, for any number of
\* children, messages, failures and restarts.
THEOREM TeamTypeCorrect == Spec => []TypeOK
  BY InitTyped, NextTyped, PTL DEF Spec

-----------------------------------------------------------------------------
(* Final statuses.                                                         *)

\* What a step does to the rows: a mark, a spawn, a message or a report.
LEMMA TaskRowsStep ==
  ASSUME TypeOK, Next
  PROVE  \/ rows' = rows
         \/ \E c \in Children, s \in Final \cup Active : rows' = Marked(c, s)
         \/ \E c \in Children : SpawnTask(c)
         \/ \E c \in Children : SendMessage(c)
         \/ \E n \in Natives, s \in {"running", "completed", "failed"} : UpsertNative(n, s)
<1>1. ASSUME NEW c \in Children, SpawnChild(c), ~SpawnTask(c)
      PROVE  rows' = rows \/ \E s \in Final \cup Active : rows' = Marked(c, s)
  BY <1>1 DEF SpawnChild, CheckSpawn, SpawnRefused, PrepareWorkspace, CreateThread, MarkStarting,
              StartTurn, SpawnFails, RemoveWorktree, ReportFailure, Reported, team, Final, Active
<1>2. ASSUME NEW c \in Children, Steer(c), ~SendMessage(c)
      PROVE  rows' = rows \/ \E s \in Final \cup Active : rows' = Marked(c, s)
  BY <1>2 DEF Steer, FollowUpTurn, CloseTask, StopSession, MarkCancelled, CloseFails, team, Final
<1>3. ASSUME NEW c \in Children, Provider(c) PROVE rows' = rows
  BY <1>3 DEF Provider, SessionStarts, TurnStarts, TurnRefused, TurnEnds, Placeholder, TurnGoesOn,
              Capture, Asks, Resolves, SessionExits, SessionStopped, Becomes, team
<1>4. CASE Reactor
  <2>1. CASE MarkChild
    <3>1. sync[1] \in Children /\ sync[2] \in Final \cup Active
      BY <2>1 DEF TypeOK, MarkChild
    <3> QED BY <2>1, <3>1 DEF MarkChild
  <2> QED BY <1>4, <2>1 DEF Reactor, ReadChild, MarkChildFails, team
<1>5. CASE Restart
  BY <1>5 DEF Restart
<1> QED BY <1>1, <1>2, <1>3, <1>4, <1>5 DEF Next

\* A task leaves a final status only by a message and only for "running", in
\* every behaviour: restarts, failures and stale reads of the reactor included.
THEOREM OnlyMessagesReopen == Spec => FinalStatusesHold
<1>1. ASSUME TypeOK, [Next]_vars
      PROVE  [\A c \in Children : rows[c] \in Final /\ rows'[c] # rows[c] =>
                rows'[c] = "running" /\ c \in mail' \ mail]_vars
  <2> SUFFICES ASSUME Next, NEW c \in Children, rows[c] \in Final, rows'[c] # rows[c]
               PROVE  rows'[c] = "running" /\ c \in mail' \ mail
    BY <1>1
  <2> c \in Tasks /\ c \notin Natives BY DEF Tasks, ConstantsAssumption
  <2>1. ASSUME NEW d \in Children, NEW s \in Final \cup Active, rows' = Marked(d, s) PROVE FALSE
    <3> d \in Tasks BY DEF Tasks
    <3> QED BY <1>1, <2>1, MarkedRows
  <2>2. ASSUME NEW d \in Children, SpawnTask(d) PROVE FALSE
    BY <1>1, <2>2 DEF TypeOK, SpawnTask, At, Final
  <2>3. ASSUME NEW d \in Children, SendMessage(d) PROVE rows'[c] = "running" /\ c \in mail' \ mail
    BY <1>1, <2>3 DEF TypeOK, SendMessage
  <2>4. ASSUME NEW n \in Natives, NEW s \in {"running", "completed", "failed"}, UpsertNative(n, s)
        PROVE  FALSE
    BY <1>1, <2>4 DEF TypeOK, UpsertNative
  <2> QED BY <1>1, <2>1, <2>2, <2>3, <2>4, TaskRowsStep
<1> QED BY <1>1, TeamTypeCorrect, PTL DEF Spec, FinalStatusesHold

-----------------------------------------------------------------------------
(* Until the first restart.                                                *)

\* The read model lists every task there is and knows every child for one.
FirstRun ==
  /\ restarts = 0
  /\ \A t \in Tasks : rows[t] # "absent" => t \in known
  /\ threads \subseteq linked
  /\ NoGrandchildren

LEMMA FirstRunStep ==
  ASSUME MaxRestarts = 0, TypeOK, FirstRun, [Next]_vars PROVE FirstRun'
<1>1. CASE UNCHANGED vars
  BY <1>1 DEF FirstRun, NoGrandchildren, vars, team, bounds
<1>2. ASSUME NEW c \in Children, SpawnTask(c) PROVE FirstRun'
  <2>1. Parent[c] = Root
    BY <1>2 DEF FirstRun, SpawnTask, MaySpawn, MayDelegate, Exists
  <2> QED BY <1>2, <2>1 DEF TypeOK, FirstRun, NoGrandchildren, SpawnTask, At, bounds
<1>3. ASSUME NEW n \in Natives, NEW s \in {"running", "completed", "failed"}, UpsertNative(n, s)
      PROVE  FirstRun'
  <2>1. Parent[n] = Root
    BY <1>3 DEF FirstRun, UpsertNative, MayDelegate, Exists
  <2> QED BY <1>3, <2>1 DEF TypeOK, FirstRun, NoGrandchildren, UpsertNative
<1>4. ASSUME NEW c \in Children, CreateThread(c) PROVE FirstRun'
  <2>1. c \in known BY <1>4 DEF TypeOK, CreateThread, At
  <2> QED BY <1>4, <2>1 DEF TypeOK, FirstRun, NoGrandchildren, CreateThread, Link, At, bounds
<1>5. ~Restart BY DEF FirstRun, Restart
<1>6. ASSUME Next, \A c \in Children : ~SpawnTask(c) /\ ~CreateThread(c),
             \A n \in Natives, s \in {"running", "completed", "failed"} : ~UpsertNative(n, s)
      PROVE  FirstRun'
  <2>1. UNCHANGED <<known, threads, linked, restarts>>
    <3>1. ASSUME NEW c \in Children, SpawnChild(c) PROVE UNCHANGED <<known, threads, linked, restarts>>
      BY <1>6, <3>1 DEF SpawnChild, CheckSpawn, SpawnRefused, PrepareWorkspace, MarkStarting, StartTurn,
           SpawnFails, RemoveWorktree, ReportFailure, FailOnce, team, bounds
    <3>2. ASSUME NEW c \in Children, Steer(c) PROVE UNCHANGED <<known, threads, linked, restarts>>
      BY <3>2 DEF Steer, SendMessage, FollowUpTurn, CloseTask, StopSession, MarkCancelled, CloseFails,
           FailOnce, team, bounds
    <3>3. ASSUME NEW c \in Children, Provider(c) PROVE UNCHANGED <<known, threads, linked, restarts>>
      BY <3>3 DEF Provider, SessionStarts, TurnStarts, TurnRefused, TurnEnds, Placeholder, TurnGoesOn,
           Capture, Asks, Resolves, SessionExits, SessionStopped, Becomes, team, bounds
    <3>4. ASSUME Reactor PROVE UNCHANGED <<known, threads, linked, restarts>>
      BY <3>4 DEF Reactor, ReadChild, MarkChild, MarkChildFails, FailOnce, team, bounds
    <3> QED BY <1>5, <1>6, <3>1, <3>2, <3>3, <3>4 DEF Next
  <2>2. \A t \in Tasks : rows'[t] = "absent" <=> rows[t] = "absent"
    <3>1. ASSUME NEW c \in Children, NEW s \in Final \cup Active, rows' = Marked(c, s)
          PROVE  \A t \in Tasks : rows'[t] = "absent" <=> rows[t] = "absent"
      <4> c \in Tasks BY DEF Tasks
      <4> QED BY <3>1, MarkedRows
    <3>2. ASSUME NEW c \in Children, SendMessage(c)
          PROVE  \A t \in Tasks : rows'[t] = "absent" <=> rows[t] = "absent"
      BY <3>2 DEF TypeOK, SendMessage, Final
    <3> QED BY <1>6, <3>1, <3>2, TaskRowsStep
  <2> QED BY <2>1, <2>2 DEF FirstRun, NoGrandchildren
<1> QED BY <1>1, <1>2, <1>3, <1>4, <1>6

\* As long as the server is not restarted ...
LEMMA FirstRunHolds == MaxRestarts = 0 => (Spec => []FirstRun)
<1> SUFFICES ASSUME MaxRestarts = 0 PROVE Spec => []FirstRun
  OBVIOUS
<1>1. Init => FirstRun BY DEF Init, FirstRun, NoGrandchildren
<1>2. TypeOK /\ FirstRun /\ [Next]_vars => FirstRun' BY FirstRunStep
<1> QED BY <1>1, <1>2, TeamTypeCorrect, PTL DEF Spec

\* ... no child gets a child of its own ...
THEOREM ChildrenDoNotDelegate == MaxRestarts = 0 => (Spec => []NoGrandchildren)
<1>1. FirstRun => NoGrandchildren BY DEF FirstRun
<1> QED BY <1>1, FirstRunHolds, PTL

\* ... no spawn is accepted beyond the limit, however many children there are
\* and however many coordinators spawn at once ...
THEOREM SpawnsAreLimited == MaxRestarts = 0 => (Spec => SpawnsRespectLimit)
<1>1. ASSUME TypeOK, FirstRun, [Next]_vars
      PROVE  [\A c \in Children : rows[c] = "absent" /\ rows'[c] # "absent" =>
                Cardinality({t \in Tasks : Parent[t] = Parent[c] /\ rows[t] \in Active}) < MaxActive]_vars
  <2> SUFFICES ASSUME Next, NEW c \in Children, rows[c] = "absent", rows'[c] # "absent"
               PROVE  Cardinality({t \in Tasks : Parent[t] = Parent[c] /\ rows[t] \in Active}) < MaxActive
    BY <1>1
  <2> c \in Tasks /\ c \notin Natives BY DEF Tasks, ConstantsAssumption
  <2>1. SpawnTask(c)
    <3>1. ASSUME NEW d \in Children, NEW s \in Final \cup Active, rows' = Marked(d, s) PROVE FALSE
      <4> d \in Tasks BY DEF Tasks
      <4> QED BY <1>1, <3>1, MarkedRows
    <3>2. ASSUME NEW d \in Children, SendMessage(d) PROVE FALSE
      BY <1>1, <3>2 DEF TypeOK, SendMessage, Final
    <3>3. ASSUME NEW n \in Natives, NEW s \in {"running", "completed", "failed"}, UpsertNative(n, s)
          PROVE  FALSE
      BY <1>1, <3>3 DEF TypeOK, UpsertNative
    <3>4. ASSUME NEW d \in Children, SpawnTask(d) PROVE d = c
      BY <1>1, <3>4 DEF TypeOK, SpawnTask
    <3> QED BY <1>1, <3>1, <3>2, <3>3, <3>4, TaskRowsStep
  <2>2. {t \in Tasks : Parent[t] = Parent[c] /\ rows[t] \in Active} = ActiveChildren(Parent[c])
    BY <1>1 DEF TypeOK, FirstRun, ActiveChildren, Active
  <2> QED BY <2>1, <2>2 DEF SpawnTask, MaySpawn, BelowLimit
<1> QED BY <1>1, TeamTypeCorrect, FirstRunHolds, PTL DEF Spec, SpawnsRespectLimit

\* ... and the final status of a mirrored subagent is kept.
THEOREM NativeFinalsHold == MaxRestarts = 0 => (Spec => NativeFinalsAreSticky)
<1>1. ASSUME TypeOK, FirstRun, [Next]_vars
      PROVE  [\A n \in Natives : rows[n] \in Final => rows'[n] = rows[n]]_vars
  <2> SUFFICES ASSUME Next, NEW n \in Natives, rows[n] \in Final PROVE rows'[n] = rows[n]
    BY <1>1
  <2> n \in Tasks /\ n \notin Children BY DEF Tasks, ConstantsAssumption
  <2>1. ASSUME NEW d \in Children, NEW s \in Final \cup Active, rows' = Marked(d, s)
        PROVE  rows'[n] = rows[n]
    <3> d \in Tasks BY DEF Tasks
    <3> QED BY <1>1, <2>1, MarkedRows
  <2>2. ASSUME NEW d \in Children, SpawnTask(d) PROVE rows'[n] = rows[n]
    BY <1>1, <2>2 DEF TypeOK, SpawnTask
  <2>3. ASSUME NEW d \in Children, SendMessage(d) PROVE rows'[n] = rows[n]
    BY <1>1, <2>3 DEF TypeOK, SendMessage
  <2>4. ASSUME NEW m \in Natives, NEW s \in {"running", "completed", "failed"}, UpsertNative(m, s)
        PROVE  rows'[n] = rows[n]
    BY <1>1, <2>4 DEF TypeOK, FirstRun, UpsertNative, Report, Final
  <2> QED BY <1>1, <2>1, <2>2, <2>3, <2>4, TaskRowsStep
<1> QED BY <1>1, TeamTypeCorrect, FirstRunHolds, PTL DEF Spec, NativeFinalsAreSticky

-----------------------------------------------------------------------------
(* Spawns that fail.                                                       *)

\* The owner of a listed task is there, so that marks of it are not rejected
\* for want of the owner.
OwnersExist == \A t \in known : Exists(Parent[t])

LEMMA OwnersExistStep ==
  ASSUME OwnersExist, [Next]_vars PROVE OwnersExist'
<1>1. ASSUME known' \subseteq known, threads \subseteq threads' PROVE OwnersExist'
  BY <1>1 DEF OwnersExist, Exists
<1>2. ASSUME NEW c \in Children, SpawnTask(c) PROVE OwnersExist'
  BY <1>2 DEF OwnersExist, Exists, SpawnTask, MaySpawn, MayDelegate
<1>3. ASSUME NEW c \in Children, SpawnChild(c), ~SpawnTask(c)
      PROVE  known' \subseteq known /\ threads \subseteq threads'
  BY <1>3 DEF SpawnChild, CheckSpawn, SpawnRefused, PrepareWorkspace, CreateThread, MarkStarting,
       StartTurn, SpawnFails, RemoveWorktree, ReportFailure, team
<1>4. ASSUME NEW c \in Children, Steer(c) PROVE UNCHANGED <<known, threads>>
  BY <1>4 DEF Steer, SendMessage, FollowUpTurn, CloseTask, StopSession, MarkCancelled, CloseFails, team
<1>5. ASSUME NEW c \in Children, Provider(c) PROVE UNCHANGED <<known, threads>>
  BY <1>5 DEF Provider, SessionStarts, TurnStarts, TurnRefused, TurnEnds, Placeholder, TurnGoesOn,
       Capture, Asks, Resolves, SessionExits, SessionStopped, Becomes, team
<1>6. ASSUME NEW n \in Natives, NEW s \in {"running", "completed", "failed"}, UpsertNative(n, s)
      PROVE  OwnersExist'
  BY <1>6 DEF OwnersExist, Exists, UpsertNative, MayDelegate
<1>7. CASE Reactor
  BY <1>7, <1>1 DEF Reactor, ReadChild, MarkChild, MarkChildFails, team
<1>8. CASE Restart
  BY <1>8 DEF OwnersExist, Restart
<1>9. CASE UNCHANGED vars
  BY <1>9, <1>1 DEF vars, team
<1> QED BY <1>1, <1>2, <1>3, <1>4, <1>5, <1>6, <1>7, <1>8, <1>9 DEF Next

LEMMA OwnersExistHolds == Spec => []OwnersExist
<1>1. Init => OwnersExist BY DEF Init, OwnersExist
<1>2. OwnersExist /\ [Next]_vars => OwnersExist' BY OwnersExistStep
<1> QED BY <1>1, <1>2, PTL DEF Spec

\* Only a report of the failure takes a spawn from "reporting" to "failed", and
\* only the removal of its worktree brings it there.
LEMMA CoordSteps ==
  ASSUME TypeOK, Next, NEW c \in Children
  PROVE  /\ coord[c] = "reporting" /\ coord'[c] = "failed" => ReportFailure(c)
         /\ coord[c] = "failing" /\ coord'[c] = "reporting" => RemoveWorktree(c)
         /\ worktrees \ worktrees' # {} => \E d \in Children : RemoveWorktree(d)
<1>t. coord \in [Children -> {"idle", "checked", "refused", "queued", "prepared", "created",
                              "started", "done", "failing", "reporting", "failed", "gone"}]
  BY DEF TypeOK
<1>1. ASSUME NEW d \in Children, SpawnChild(d), ~ReportFailure(d), ~RemoveWorktree(d)
      PROVE  /\ worktrees \subseteq worktrees'
             /\ \/ coord' = coord
                \/ \E at \in {"checked", "queued", "refused", "prepared", "created", "started",
                              "done", "failing"} : coord' = [coord EXCEPT ![d] = at]
  BY <1>1 DEF SpawnChild, CheckSpawn, SpawnTask, SpawnRefused, PrepareWorkspace, CreateThread,
       MarkStarting, StartTurn, SpawnFails, At, team
<1>2. ASSUME NEW d \in Children, ReportFailure(d)
      PROVE  worktrees' = worktrees /\ coord' = [coord EXCEPT ![d] = "failed"]
  BY <1>2 DEF ReportFailure, At
<1>3. ASSUME NEW d \in Children, RemoveWorktree(d) PROVE coord' = [coord EXCEPT ![d] = "reporting"]
  BY <1>3 DEF RemoveWorktree, At
<1>4. ASSUME NEW d \in Children, Steer(d) PROVE UNCHANGED <<worktrees, coord>>
  BY <1>4 DEF Steer, SendMessage, FollowUpTurn, CloseTask, StopSession, MarkCancelled, CloseFails, team
<1>5. ASSUME NEW d \in Children, Provider(d) PROVE UNCHANGED <<worktrees, coord>>
  BY <1>5 DEF Provider, SessionStarts, TurnStarts, TurnRefused, TurnEnds, Placeholder, TurnGoesOn,
       Capture, Asks, Resolves, SessionExits, SessionStopped, Becomes, team
<1>6. ASSUME NEW n \in Natives, NEW s \in {"running", "completed", "failed"}, UpsertNative(n, s)
      PROVE  UNCHANGED <<worktrees, coord>>
  BY <1>6 DEF UpsertNative, service
<1>7. CASE Reactor
  BY <1>7, <1>t DEF Reactor, ReadChild, MarkChild, MarkChildFails, team, service
<1>8. CASE Restart
  BY <1>8, <1>t DEF Restart
<1> QED BY <1>t, <1>1, <1>2, <1>3, <1>4, <1>5, <1>6, <1>7, <1>8 DEF Next

\* A spawn that fails leaves its task in a final status, whatever the reactor,
\* a message or a close made of it meanwhile, unless reporting it fails too.
THEOREM FailuresAreReported == Spec => FailedSpawnsAreReported
<1>1. ASSUME TypeOK, OwnersExist, [Next]_vars
      PROVE  [\A c \in Children : coord[c] = "reporting" /\ coord'[c] = "failed" =>
                rows'[c] \in Final \/ failures' > failures]_vars
  <2> SUFFICES ASSUME Next, NEW c \in Children, coord[c] = "reporting", coord'[c] = "failed"
               PROVE  rows'[c] \in Final \/ failures' > failures
    BY <1>1
  <2>1. ReportFailure(c) BY <1>1, CoordSteps
  <2>2. c \in Tasks /\ c \in known BY <1>1 DEF TypeOK, Tasks
  <2>3. CASE rows' = Reported(c)
    <3>1. Exists(Parent[c]) BY <1>1, <2>2 DEF OwnersExist
    <3> QED BY <1>1, <2>2, <2>3, <3>1 DEF TypeOK, Reported, Marked, MayMark, Final
  <2>4. CASE FailOnce
    BY <1>1, <2>4 DEF TypeOK, FailOnce
  <2> QED BY <2>1, <2>3, <2>4 DEF ReportFailure
<1> QED BY <1>1, TeamTypeCorrect, OwnersExistHolds, PTL DEF Spec, FailedSpawnsAreReported

\* No step removes the worktree of a thread that exists, and one that has no
\* thread is gone when its spawn has failed, unless the removal failed.
THEOREM WorktreesAreKept == Spec => WorktreesFollowThreads
<1>1. ASSUME TypeOK, [Next]_vars
      PROVE  [\A c \in worktrees :
                /\ c \in threads => c \in worktrees'
                /\ coord[c] = "failing" /\ coord'[c] = "reporting" /\ c \notin threads =>
                     c \notin worktrees' \/ failures' > failures]_vars
  <2> SUFFICES ASSUME Next, NEW c \in worktrees
               PROVE  /\ c \in threads => c \in worktrees'
                      /\ coord[c] = "failing" /\ coord'[c] = "reporting" /\ c \notin threads =>
                           c \notin worktrees' \/ failures' > failures
    BY <1>1
  <2> c \in Children BY <1>1 DEF TypeOK
  <2>1. c \in threads => c \in worktrees'
    <3>1. \A d \in Children : RemoveWorktree(d) /\ c \in threads => c \in worktrees'
      BY DEF RemoveWorktree, WithoutWorktree
    <3> QED BY <1>1, <3>1, CoordSteps
  <2>2. ASSUME RemoveWorktree(c), c \notin threads PROVE c \notin worktrees' \/ failures' > failures
    <3>1. FailOnce => failures' > failures BY <1>1 DEF TypeOK, FailOnce
    <3> QED BY <2>2, <3>1 DEF RemoveWorktree, WithoutWorktree
  <2> QED BY <1>1, <2>1, <2>2, CoordSteps
<1> QED BY <1>1, TeamTypeCorrect, PTL DEF Spec, WorktreesFollowThreads
=============================================================================
