---------------------- MODULE OrchestrationEngineProofs ----------------------
(***************************************************************************)
(* Theorems about OrchestrationEngine for every value of its constants.    *)
(***************************************************************************)
EXTENDS OrchestrationEngine, SequenceTheorems, TLAPS

-----------------------------------------------------------------------------
(* Operators the actions are built from.                                   *)

\* Applying events to projections gives projections.
LEMMA AppliedType ==
  ASSUME NEW r \in [Projectors -> Seq(Nat)], NEW seqs \in Seq(Nat)
  PROVE  Applied(r, seqs) \in [Projectors -> Seq(Nat)]
  BY DEF Applied

\* The numbers of the events of a transaction form a sequence.
LEMMA NumbersType ==
  ASSUME todo \in Nat, NEW n \in Nat
  PROVE  /\ Numbers(n) \in Seq(Nat)
         /\ Len(Numbers(n)) = todo
         /\ \A i \in 1..todo : Numbers(n)[i] = n + i
  <1>1. Numbers(n) \in [1..todo -> Nat]
    BY DEF Numbers
  <1> QED BY <1>1, SeqDef DEF Numbers

\* A read of the log returns event numbers.
LEMMA ReadFromType ==
  ASSUME log \in Seq(Event), NEW s \in Nat
  PROVE  ReadFrom(s) \in Seq(Nat)
  <1> DEFINE n == IF Len(log) - s > ReadLimit THEN ReadLimit
                  ELSE IF Len(log) > s THEN Len(log) - s ELSE 0
  <1>1. n \in Nat
    BY ConstantsAssumption, LenProperties
  <1>2. ReadFrom(s) \in [1..n -> Nat]
    BY <1>1 DEF ReadFrom
  <1> QED BY <1>1, <1>2, SeqDef

\* Publishing extends the subscriptions that are on.
LEMMA PublishType ==
  ASSUME got \in [Subscribers -> [on : BOOLEAN, events : Seq(Nat)]],
         NEW seqs \in Seq(Nat), Publish(seqs)
  PROVE  got' \in [Subscribers -> [on : BOOLEAN, events : Seq(Nat)]]
  <1>1. \A s \in Subscribers : got[s].events \o seqs \in Seq(Nat)
    BY ConcatProperties
  <1>2. \A s \in Subscribers :
          [got[s] EXCEPT !.events = got[s].events \o seqs] \in [on : BOOLEAN, events : Seq(Nat)]
    BY <1>1
  <1> QED BY <1>2 DEF Publish

-----------------------------------------------------------------------------
(* Type correctness.                                                       *)

LEMMA InitType == Init => TypeOK
  BY ConstantsAssumption DEF Init, TypeOK, NoReceipt, NotSubscribed, EmptyModel, Model, Projectors

LEMMA NextType == TypeOK /\ [Next]_vars => TypeOK'
<1> SUFFICES ASSUME TypeOK, [Next]_vars PROVE TypeOK'
  OBVIOUS
<1> USE DEF vars, disk, memory, worker, clients
<1>1. ASSUME NEW k \in Callers, NEW c \in Commands, Dispatch(k, c) PROVE TypeOK'
  BY <1>1 DEF TypeOK, Dispatch
<1>2. ASSUME NEW s \in Subscribers, Subscribe(s) PROVE TypeOK'
  BY <1>2 DEF TypeOK, Subscribe
<1>3. CASE TakeCommand
  <2>1. Head(queue) \in [caller : Callers, cmd : Commands]
         /\ Tail(queue) \in Seq([caller : Callers, cmd : Commands])
    BY <1>3, HeadTailProperties DEF TypeOK, TakeCommand
  <2>2. readModel.seq \in Nat
    BY DEF TypeOK, Model
  <2> QED BY <1>3, <2>1, <2>2 DEF TypeOK, TakeCommand
<1>4. CASE AnswerFromReceipt
  <2>1. pc' = "idle" /\ callers' \in [Callers -> {"idle", "waiting", "ok", "rejected", "failed", "lost"}]
    BY <1>4 DEF TypeOK, AnswerFromReceipt, Answer
  <2>2. acks' \subseteq [cmd : Commands, seq : Nat]
    BY <1>4 DEF TypeOK, AnswerFromReceipt, Receipt
  <2> QED BY <1>4, <2>1, <2>2 DEF TypeOK, AnswerFromReceipt
<1>5. CASE Decide
  BY <1>5 DEF TypeOK, Decide, Produced
<1>6. CASE DeciderRejects
  BY <1>6 DEF TypeOK, DeciderRejects, Fail
<1>7. CASE SqlFails
  BY <1>7 DEF TypeOK, SqlFails, Fail
<1>8. CASE AppendEvent
  <2>1. EventOf(current.cmd, Len(txEvents) + 1) \in Event
    BY <1>8, ConstantsAssumption, LenProperties DEF TypeOK, AppendEvent, EventOf, Event
  <2>2. txEvents' \in Seq(Event)
    BY <1>8, <2>1, AppendProperties DEF TypeOK, AppendEvent
  <2> QED BY <1>8, <2>2 DEF TypeOK, AppendEvent, FilesAfter
<1>9. CASE NoEvents
  BY <1>9 DEF TypeOK, NoEvents, Fail
<1>10. CASE Commit
  <2>1. log' \in Seq(Event) /\ Len(log') = Len(log) + todo
    BY <1>10, ConcatProperties DEF TypeOK, Commit
  <2>2. rows' \in [Projectors -> Seq(Nat)]
    BY <1>10, NumbersType, AppliedType, LenProperties DEF TypeOK, Commit
  <2>3. Len(log) + todo \in Nat /\ Len(log) \in Nat
    BY LenProperties DEF TypeOK
  <2>4. cursor' \in [Projectors -> Nat]
    BY <1>10, <2>3 DEF TypeOK, Commit, CursorAt
  <2>5. receipts' \in [Commands -> [status : {"none", "accepted", "rejected"}, seq : Nat]]
    BY <1>10, <2>3 DEF TypeOK, Commit, LastSequence
  <2> QED BY <1>10, <2>1, <2>2, <2>3, <2>4, <2>5 DEF TypeOK, Commit
<1>11. CASE InstallReadModel
  <2>1. Len(log) \in Nat /\ Len(log) - todo \in Nat
    BY <1>11, LenProperties DEF TypeOK, InstallReadModel
  <2>2. readModel' \in Model
    BY <1>11, <2>1, NumbersType, AppliedType DEF TypeOK, InstallReadModel, NextReadModel, Model
  <2> QED BY <1>11, <2>2 DEF TypeOK, InstallReadModel
<1>12. CASE PublishEvent
  <2>1. Len(log) - todo + published + 1 \in Nat
    BY <1>12, LenProperties DEF TypeOK, PublishEvent
  <2>2. <<Len(log) - todo + published + 1>> \in Seq(Nat)
    BY <2>1
  <2>3. Publish(<<Len(log) - todo + published + 1>>)
    BY <1>12 DEF PublishEvent
  <2>4. got' \in [Subscribers -> [on : BOOLEAN, events : Seq(Nat)]]
    BY <2>2, <2>3, PublishType DEF TypeOK
  <2> QED BY <1>12, <2>4 DEF TypeOK, PublishEvent
<1>13. CASE AnswerAccepted
  BY <1>13 DEF TypeOK, AnswerAccepted, Answer
<1>14. CASE Reconcile
  <2> DEFINE found == ReadFrom(startSequence)
  <2>1. found \in Seq(Nat) /\ Len(found) \in Nat
    BY ReadFromType, LenProperties DEF TypeOK
  <2> HIDE DEF found
  <2>2. [rows |-> Applied(readModel.rows, found), seq |-> startSequence + Len(found)] \in Model
    <3>1. readModel.rows \in [Projectors -> Seq(Nat)] /\ startSequence \in Nat
      BY DEF TypeOK, Model
    <3>2. Applied(readModel.rows, found) \in [Projectors -> Seq(Nat)]
      BY <2>1, <3>1, AppliedType
    <3> QED BY <2>1, <3>1, <3>2 DEF Model
  <2>3. readModel' \in Model
    BY <1>14, <2>2 DEF TypeOK, Reconcile, found
  <2>4. CASE found = << >>
    BY <1>14, <2>3, <2>4 DEF TypeOK, Reconcile, found
  <2>5. CASE found # << >>
    <3>1. Publish(found)
      BY <1>14, <2>5 DEF Reconcile, found
    <3>2. got' \in [Subscribers -> [on : BOOLEAN, events : Seq(Nat)]]
      BY <2>1, <3>1, PublishType DEF TypeOK
    <3> QED BY <1>14, <2>3, <3>2 DEF TypeOK, Reconcile
  <2> QED BY <2>4, <2>5
<1>15. CASE ReconcileFails
  BY <1>15 DEF TypeOK, ReconcileFails
<1>16. CASE RecordRejection
  <2>1. readModel.seq \in Nat
    BY DEF TypeOK, Model
  <2>2. receipts' \in [Commands -> [status : {"none", "accepted", "rejected"}, seq : Nat]]
    BY <1>16, <2>1 DEF TypeOK, RecordRejection
  <2> QED BY <1>16, <2>2 DEF TypeOK, RecordRejection
<1>17. CASE RecordRejectionFails
  BY <1>17 DEF TypeOK, RecordRejectionFails
<1>18. CASE AnswerFailed
  BY <1>18 DEF TypeOK, AnswerFailed, Answer
<1>19. CASE Start
  BY <1>19, ConstantsAssumption DEF TypeOK, Start
<1>20. CASE BootstrapEvent
  <2>a. boot.p \in Nat /\ boot.p # 0 /\ boot.left \in Nat /\ known \in 1..NumProjectors
    BY DEF TypeOK
  <2>b. boot.p <= known /\ boot.left > 0
    BY <1>20 DEF BootstrapEvent, Behind
  <2>1. boot.p \in Projectors /\ boot.left - 1 \in Nat
    BY <2>a, <2>b, ConstantsAssumption DEF Projectors
  <2>2. cursor[boot.p] + 1 \in Nat /\ Append(rows[boot.p], cursor[boot.p] + 1) \in Seq(Nat)
    BY <2>1, AppendProperties DEF TypeOK
  <2>3. rows' \in [Projectors -> Seq(Nat)] /\ cursor' \in [Projectors -> Nat]
    BY <1>20, <2>1, <2>2 DEF TypeOK, BootstrapEvent
  <2>4. boot' \in [p : Nat \ {0}, left : Nat]
    BY <1>20, <2>1 DEF TypeOK, BootstrapEvent
  <2> QED BY <1>20, <2>3, <2>4 DEF TypeOK, BootstrapEvent, FilesAfter
<1>21. CASE BootstrapNextProjector
  <2>1. boot.p \in Nat /\ ReadLimit \in Nat
    BY ConstantsAssumption DEF TypeOK
  <2>2. [p |-> boot.p + 1, left |-> ReadLimit] \in [p : Nat \ {0}, left : Nat]
    BY <2>1
  <2> QED BY <1>21, <2>2 DEF TypeOK, BootstrapNextProjector
<1>22. CASE Serve
  <2>1. readModel' \in Model
    BY <1>22, ConstantsAssumption DEF TypeOK, Serve, RequiredNow, Model
  <2> QED BY <1>22, <2>1 DEF TypeOK, Serve
<1>23. CASE Crash
  BY <1>23 DEF TypeOK, Crash, WorkerGone, EmptyModel, NotSubscribed, Model
<1>24. CASE Upgrade
  <2>1. known' \in 1..NumProjectors
    BY <1>24, ConstantsAssumption DEF Upgrade
  <2>2. pc' # "idle" => phase' = "serving" /\ current' \in [caller : Callers, cmd : Commands]
    BY <1>24 DEF TypeOK, Upgrade
  <2>3. pc' \in {"committed", "publish"} => todo' <= Len(log')
    BY <1>24 DEF TypeOK, Upgrade
  <2> QED BY <1>24, <2>1, <2>2, <2>3 DEF TypeOK, Upgrade
<1>25. CASE UNCHANGED vars
  BY <1>25 DEF TypeOK
<1> QED BY <1>1, <1>2, <1>3, <1>4, <1>5, <1>6, <1>7, <1>8, <1>9, <1>10, <1>11, <1>12, <1>13, <1>14, <1>15, <1>16, <1>17, <1>18, <1>19, <1>20, <1>21, <1>22, <1>23, <1>24, <1>25 DEF Next, WorkerStep, StartUp

\* Every variable keeps its type in every behaviour of the engine.
THEOREM TypeCorrect == Spec => []TypeOK
  BY InitType, NextType, PTL DEF Spec

-----------------------------------------------------------------------------
(* A command is settled at most once.  AtMostOnce and AcksAreDurable are   *)
(* not inductive alone: that the commit may append the events of a command *)
(* depends on what the worker found out before (its command had no receipt *)
(* when it was decided, and only the worker writes receipts).              *)

SettleInv == TypeOK /\ WorkerHoldsFreshCommand /\ AtMostOnce /\ AcksAreDurable

LEMMA SettleInit == Init => SettleInv
  BY InitType DEF Init, SettleInv, WorkerHoldsFreshCommand, AtMostOnce, AcksAreDurable, NoReceipt

\* A step that leaves log, receipts and answers alone keeps what is said of them.
LEMMA SettledKept ==
  ASSUME AtMostOnce, AcksAreDurable, UNCHANGED <<log, receipts, acks>>
  PROVE  AtMostOnce' /\ AcksAreDurable'
  BY DEF AtMostOnce, AcksAreDurable

\* The sequence an accepted receipt names is that of an event of its command.
LEMMA ReceiptNamesEvent ==
  ASSUME TypeOK, AtMostOnce, NEW c \in Commands, receipts[c].status = "accepted"
  PROVE  receipts[c].seq \in 1..Len(log) /\ log[receipts[c].seq].cmd = c
  <1> DEFINE q == receipts[c].seq
  <1>1. q \in 1..Len(log)
    BY DEF AtMostOnce
  <1>2. log[q] \in Event
    BY <1>1, ElementOfSeq DEF TypeOK
  <1>3. log[q].n \in Nat /\ log[q].n > 0 /\ q \in Nat
    BY <1>1, <1>2 DEF Event, TypeOK
  <1>4. q < q + log[q].n /\ q <= q
    BY <1>3
  <1> QED BY <1>1, <1>4 DEF AtMostOnce

LEMMA CommitSettles ==
  ASSUME SettleInv, Commit
  PROVE  AtMostOnce' /\ AcksAreDurable'
  <1> DEFINE me == current.cmd
             L == Len(log)
  <1>1. me \in Commands /\ L \in Nat /\ todo \in Nat \ {0} /\ Len(txEvents) = todo
    BY LenProperties DEF SettleInv, TypeOK, Commit
  <1>2. receipts[me].status = "none" /\ \A i \in 1..L : log[i].cmd # me
    BY <1>1 DEF SettleInv, WorkerHoldsFreshCommand, Receipt, AtMostOnce, Commit
  <1>a. log \in Seq(Event) /\ txEvents \in Seq(Event) /\ log' = log \o txEvents
    BY DEF SettleInv, TypeOK, Commit
  <1>3. Len(log') = L + todo /\ \A i \in 1..L : log'[i] = log[i]
    <2>1. \A i \in 1..L : i \in 1..(L + todo) /\ i <= L
      BY <1>1
    <2> QED BY <1>1, <1>a, <2>1, ConcatProperties
  <1>4. \A i \in (L + 1)..(L + todo) : log'[i].cmd = me /\ log'[i].n = i - L
    <2> TAKE i \in (L + 1)..(L + todo)
    <2>1. i - L \in 1..Len(txEvents) /\ i \in 1..(L + todo) /\ ~(i <= L)
      BY <1>1
    <2>2. log'[i] = txEvents[i - L]
      BY <1>1, <2>1, ConcatProperties DEF SettleInv, TypeOK, Commit
    <2> QED BY <2>1, <2>2 DEF SettleInv, WorkerHoldsFreshCommand, Commit
  <1>5. receipts' = [receipts EXCEPT ![me] = [status |-> "accepted", seq |-> L + todo]]
    BY DEF Commit, LastSequence
  <1>6. receipts'[me] = [status |-> "accepted", seq |-> L + todo]
        /\ \A c \in Commands \ {me} : receipts'[c] = receipts[c]
    BY <1>1, <1>5 DEF SettleInv, TypeOK
  <1> HIDE DEF me, L
  <1>7. AtMostOnce'
    <2> SUFFICES ASSUME NEW c \in Commands
                 PROVE  LET q == receipts'[c].seq IN
                        IF receipts'[c].status = "accepted"
                          THEN /\ q \in 1..Len(log') /\ log'[q].n <= q
                               /\ \A i \in 1..Len(log') :
                                    IF q < i + log'[q].n /\ i <= q
                                      THEN log'[i].cmd = c /\ log'[i].n + q = log'[q].n + i
                                      ELSE log'[i].cmd # c
                          ELSE \A i \in 1..Len(log') : log'[i].cmd # c
      BY DEF AtMostOnce
    <2>1. CASE c = me
      <3>1. log'[L + todo].n = todo /\ L + todo \in 1..(L + todo)
        BY <1>1, <1>4
      <3>2. ASSUME NEW i \in 1..L PROVE ~(L + todo < i + todo) /\ log'[i].cmd # me
        BY <1>1, <1>2, <1>3, <3>2
      <3>3. ASSUME NEW i \in (L + 1)..(L + todo)
            PROVE  /\ L + todo < i + todo /\ i <= L + todo
                   /\ log'[i].cmd = me /\ log'[i].n + (L + todo) = todo + i
        BY <1>1, <1>4, <3>3
      <3>4. \A i \in 1..(L + todo) : i \in 1..L \/ i \in (L + 1)..(L + todo)
        BY <1>1
      <3>5. L + todo \in 1..Len(log') /\ log'[L + todo].n <= L + todo
        BY <1>1, <1>3, <3>1
      <3> QED BY <1>3, <1>6, <2>1, <3>1, <3>2, <3>3, <3>4, <3>5
    <2>2. CASE c # me /\ receipts[c].status = "accepted"
      <3> DEFINE q == receipts[c].seq
      <3>1. q \in 1..L /\ log[q].n <= q
            /\ \A i \in 1..L : IF q < i + log[q].n /\ i <= q
                                 THEN log[i].cmd = c /\ log[i].n + q = log[q].n + i
                                 ELSE log[i].cmd # c
        BY <2>2 DEF SettleInv, AtMostOnce, L
      <3>2. \A i \in 1..(L + todo) : i \in 1..L \/ (i \in (L + 1)..(L + todo) /\ ~(i <= q))
        BY <1>1, <3>1
      <3> QED BY <1>1, <1>3, <1>4, <1>6, <2>2, <3>1, <3>2
    <2>3. CASE c # me /\ receipts[c].status # "accepted"
      <3>1. \A i \in 1..L : log[i].cmd # c
        BY <2>3 DEF SettleInv, AtMostOnce, L
      <3>2. \A i \in 1..(L + todo) : i \in 1..L \/ i \in (L + 1)..(L + todo)
        BY <1>1
      <3> QED BY <1>1, <1>3, <1>4, <1>6, <2>3, <3>1, <3>2
    <2> QED BY <2>1, <2>2, <2>3
  <1>8. AcksAreDurable'
    <2> SUFFICES ASSUME NEW a \in acks
                 PROVE  /\ receipts'[a.cmd] = [status |-> "accepted", seq |-> a.seq]
                        /\ a.seq \in 1..Len(log') /\ log'[a.seq].cmd = a.cmd
      BY DEF AcksAreDurable, Commit, clients
    <2>1. receipts[a.cmd] = [status |-> "accepted", seq |-> a.seq]
          /\ a.seq \in 1..L /\ log[a.seq].cmd = a.cmd /\ a.cmd \in Commands
      BY DEF SettleInv, TypeOK, AcksAreDurable, L
    <2>2. a.cmd # me
      BY <1>2, <2>1
    <2> QED BY <1>1, <1>3, <1>6, <2>1, <2>2
  <1> QED BY <1>7, <1>8

LEMMA SettleNext == SettleInv /\ [Next]_vars => SettleInv'
<1> SUFFICES ASSUME SettleInv, [Next]_vars PROVE SettleInv'
  OBVIOUS
<1>type. TypeOK /\ TypeOK'
  BY NextType DEF SettleInv
<1> USE DEF vars, disk, memory, worker, clients
<1> SUFFICES WorkerHoldsFreshCommand' /\ AtMostOnce' /\ AcksAreDurable'
  BY <1>type DEF SettleInv
<1>1. ASSUME NEW k \in Callers, NEW c \in Commands, Dispatch(k, c)
      PROVE  WorkerHoldsFreshCommand' /\ AtMostOnce' /\ AcksAreDurable'
  BY <1>1, SettledKept DEF SettleInv, WorkerHoldsFreshCommand, Receipt, Dispatch
<1>2. ASSUME NEW s \in Subscribers, Subscribe(s)
      PROVE  WorkerHoldsFreshCommand' /\ AtMostOnce' /\ AcksAreDurable'
  BY <1>2, SettledKept DEF SettleInv, WorkerHoldsFreshCommand, Receipt, Subscribe
<1>3. CASE Decide
  BY <1>3, <1>type, SettledKept DEF SettleInv, TypeOK, WorkerHoldsFreshCommand, Receipt, Decide
<1>4. CASE DeciderRejects
  BY <1>4, <1>type, SettledKept DEF SettleInv, WorkerHoldsFreshCommand, Receipt, DeciderRejects, Fail
<1>5. CASE SqlFails
  BY <1>5, <1>type, SettledKept DEF SettleInv, WorkerHoldsFreshCommand, Receipt, SqlFails, Fail
<1>6. CASE AppendEvent
  <2> DEFINE e == EventOf(current.cmd, Len(txEvents) + 1)
  <2>1. pc = "tx" /\ Len(txEvents) < todo /\ txEvents \in Seq(Event) /\ todo \in Nat
    BY <1>6, <1>type DEF TypeOK, AppendEvent
  <2>2. e \in Event
    <3>a. current \in [caller : Callers, cmd : Commands]
      BY <1>type, <2>1 DEF TypeOK
    <3>b. Len(txEvents) \in Nat
      BY <2>1, LenProperties
    <3>1. current.cmd \in Commands /\ Len(txEvents) + 1 \in Nat \ {0}
      BY <3>a, <3>b
    <3>2. Kind[current.cmd] \in Kinds /\ Target[current.cmd] \in Threads
      BY <3>1, ConstantsAssumption
    <3> QED BY <3>1, <3>2 DEF EventOf, Event
  <2>3. /\ Len(txEvents') = Len(txEvents) + 1
        /\ txEvents'[Len(txEvents) + 1] = e
        /\ \A i \in 1..Len(txEvents) : txEvents'[i] = txEvents[i]
    BY <1>6, <2>1, <2>2, AppendProperties DEF AppendEvent
  <2>4. e.cmd = current.cmd /\ e.n = Len(txEvents) + 1
    BY DEF EventOf
  <2>5. \A i \in 1..Len(txEvents') : i \in 1..Len(txEvents) \/ i = Len(txEvents) + 1
    BY <2>1, <2>3, LenProperties
  <2>6. Len(txEvents') <= todo
    BY <2>1, <2>3, LenProperties
  <2>7. \A i \in 1..Len(txEvents') : txEvents'[i].cmd = current.cmd /\ txEvents'[i].n = i
    BY <2>1, <2>3, <2>4, <2>5 DEF SettleInv, WorkerHoldsFreshCommand
  <2> HIDE DEF e
  <2> QED BY <1>6, <2>1, <2>6, <2>7, SettledKept
          DEF SettleInv, WorkerHoldsFreshCommand, Receipt, AppendEvent
<1>7. CASE NoEvents
  BY <1>7, <1>type, SettledKept DEF SettleInv, WorkerHoldsFreshCommand, Receipt, NoEvents, Fail
<1>8. CASE InstallReadModel
  BY <1>8, <1>type, SettledKept DEF SettleInv, WorkerHoldsFreshCommand, Receipt, InstallReadModel
<1>9. CASE PublishEvent
  BY <1>9, <1>type, SettledKept DEF SettleInv, WorkerHoldsFreshCommand, Receipt, PublishEvent
<1>10. CASE Reconcile
  BY <1>10, <1>type, SettledKept DEF SettleInv, WorkerHoldsFreshCommand, Receipt, Reconcile
<1>11. CASE ReconcileFails
  BY <1>11, <1>type, SettledKept DEF SettleInv, WorkerHoldsFreshCommand, Receipt, ReconcileFails
<1>12. CASE RecordRejectionFails
  BY <1>12, <1>type, SettledKept DEF SettleInv, WorkerHoldsFreshCommand, Receipt, RecordRejectionFails
<1>13. CASE AnswerFailed
  BY <1>13, <1>type, SettledKept DEF SettleInv, WorkerHoldsFreshCommand, Receipt, AnswerFailed, Answer
<1>14. CASE Start
  BY <1>14, <1>type, SettledKept DEF SettleInv, WorkerHoldsFreshCommand, Receipt, Start
<1>15. CASE BootstrapEvent
  BY <1>15, <1>type, SettledKept DEF SettleInv, WorkerHoldsFreshCommand, Receipt, BootstrapEvent
<1>16. CASE BootstrapNextProjector
  BY <1>16, <1>type, SettledKept DEF SettleInv, WorkerHoldsFreshCommand, Receipt, BootstrapNextProjector
<1>17. CASE Serve
  BY <1>17, <1>type, SettledKept DEF SettleInv, WorkerHoldsFreshCommand, Receipt, Serve
<1>18. CASE Crash
  BY <1>18, <1>type, SettledKept DEF SettleInv, WorkerHoldsFreshCommand, Receipt, Crash, WorkerGone
<1>19. CASE Upgrade
  BY <1>19, <1>type, SettledKept DEF SettleInv, WorkerHoldsFreshCommand, Receipt, Upgrade
<1>20. CASE TakeCommand
  BY <1>20, <1>type, SettledKept DEF SettleInv, WorkerHoldsFreshCommand, Receipt, TakeCommand
<1>21. CASE AnswerFromReceipt
  <2>1. WorkerHoldsFreshCommand' /\ AtMostOnce'
    BY <1>21 DEF SettleInv, WorkerHoldsFreshCommand, AtMostOnce, AnswerFromReceipt, Answer
  <2>2. CASE Receipt.status = "accepted"
    <3>1. current.cmd \in Commands /\ acks' = acks \cup {[cmd |-> current.cmd, seq |-> Receipt.seq]}
      BY <1>21, <1>type, <2>2 DEF TypeOK, AnswerFromReceipt
    <3>2. Receipt = [status |-> "accepted", seq |-> Receipt.seq]
      BY <1>type, <2>2, <3>1 DEF TypeOK, Receipt
    <3>3. Receipt.seq \in 1..Len(log) /\ log[Receipt.seq].cmd = current.cmd
      BY <1>type, <2>2, <3>1, ReceiptNamesEvent DEF SettleInv, Receipt
    <3> QED BY <1>21, <2>1, <3>1, <3>2, <3>3 DEF SettleInv, AcksAreDurable, AnswerFromReceipt, Receipt
  <2>3. CASE Receipt.status # "accepted"
    BY <1>21, <2>1, <2>3 DEF SettleInv, AcksAreDurable, AnswerFromReceipt
  <2> QED BY <2>2, <2>3
<1>22. CASE AnswerAccepted
  <2>1. WorkerHoldsFreshCommand' /\ AtMostOnce'
    BY <1>22 DEF SettleInv, WorkerHoldsFreshCommand, AtMostOnce, AnswerAccepted, Answer
  <2>2. receipts[current.cmd] = [status |-> "accepted", seq |-> Len(log)] /\ current.cmd \in Commands
    BY <1>22, <1>type DEF SettleInv, TypeOK, WorkerHoldsFreshCommand, AnswerAccepted, Receipt
  <2>3. Len(log) \in 1..Len(log) /\ log[Len(log)].cmd = current.cmd
    BY <1>type, <2>2, ReceiptNamesEvent DEF SettleInv
  <2> QED BY <1>22, <2>1, <2>2, <2>3 DEF SettleInv, AcksAreDurable, AnswerAccepted
<1>23. CASE Commit
  <2>1. Len(log') = Len(log) + todo
    BY <1>23, <1>type, ConcatProperties DEF TypeOK, Commit
  <2>2. receipts'[current.cmd] = [status |-> "accepted", seq |-> Len(log')]
    BY <1>23, <1>type, <2>1 DEF TypeOK, Commit, LastSequence
  <2>3. WorkerHoldsFreshCommand'
    BY <1>23, <2>2 DEF WorkerHoldsFreshCommand, Receipt, Commit
  <2> QED BY <1>23, <2>3, CommitSettles
<1>24. CASE RecordRejection
  <2>1. receipts[current.cmd].status = "none" /\ current.cmd \in Commands
    BY <1>24, <1>type DEF SettleInv, TypeOK, WorkerHoldsFreshCommand, Receipt, RecordRejection
  <2>2. receipts'[current.cmd].status = "rejected"
        /\ \A c \in Commands \ {current.cmd} : receipts'[c] = receipts[c]
    BY <1>24, <1>type, <2>1 DEF TypeOK, RecordRejection
  <2>3. AtMostOnce'
    BY <1>24, <2>1, <2>2 DEF SettleInv, AtMostOnce, RecordRejection
  <2>4. AcksAreDurable'
    <3>1. ASSUME NEW a \in acks PROVE a.cmd \in Commands \ {current.cmd}
      <4>1. receipts[a.cmd] = [status |-> "accepted", seq |-> a.seq]
        BY DEF SettleInv, AcksAreDurable
      <4>a. acks \subseteq [cmd : Commands, seq : Nat]
        BY <1>type DEF TypeOK
      <4>2. a.cmd \in Commands
        BY <4>a
      <4> QED BY <2>1, <4>1, <4>2
    <3> QED BY <1>24, <2>2, <3>1 DEF SettleInv, AcksAreDurable, RecordRejection
  <2>5. WorkerHoldsFreshCommand'
    BY <1>24 DEF WorkerHoldsFreshCommand, RecordRejection
  <2> QED BY <2>3, <2>4, <2>5
<1>25. CASE UNCHANGED vars
  BY <1>25, SettledKept DEF SettleInv, WorkerHoldsFreshCommand, Receipt
<1> QED BY <1>1, <1>2, <1>3, <1>4, <1>5, <1>6, <1>7, <1>8, <1>9, <1>10, <1>11, <1>12, <1>13, <1>14, <1>15, <1>16, <1>17, <1>18, <1>19, <1>20, <1>21, <1>22, <1>23, <1>24, <1>25 DEF Next, WorkerStep, StartUp

\* Retries, failures and crashes never put the events of a command in the log
\* twice or in part.
THEOREM CommandsAtMostOnce == Spec => []AtMostOnce
  BY SettleInit, SettleNext, PTL DEF Spec, SettleInv

\* A success that was reported is durable, and the same for every caller.
THEOREM AcknowledgedIsDurable == Spec => []AcksAreDurable
  BY SettleInit, SettleNext, PTL DEF Spec, SettleInv

\* A command whose transaction is open has no receipt, and the transaction
\* holds exactly the first events of that command.
THEOREM WorkerIsFresh == Spec => []WorkerHoldsFreshCommand
  BY SettleInit, SettleNext, PTL DEF Spec, SettleInv

-----------------------------------------------------------------------------
(* Projections and the log only grow.  The cursors are exact because each  *)
(* is bounded by the length of the log: a commit projects numbers above    *)
(* every cursor, and the replay of the start-up the very next one.         *)

CursorsInLog == \A p \in Projectors : cursor[p] <= Len(log)

GrowthInv == SettleInv /\ CursorsAreExact /\ CursorsInLog

\* A sequence that only grows in steps above its last element increases.
LEMMA ExtendExact ==
  ASSUME NEW r \in Seq(Nat), NEW q \in Seq(Nat), NEW b \in Nat, Len(q) # 0,
         \A i \in 1..Len(q) : q[i] = b + i,
         \A i \in 1..Len(r) : r[i] <= b,
         \A i, j \in 1..Len(r) : i < j => r[i] < r[j]
  PROVE  /\ r \o q # << >> /\ (r \o q)[Len(r \o q)] = b + Len(q)
         /\ \A i, j \in 1..Len(r \o q) : i < j => (r \o q)[i] < (r \o q)[j]
  <1> DEFINE s == r \o q
             m == Len(r)
             n == Len(q)
  <1>1. m \in Nat /\ n \in Nat /\ n > 0
    BY LenProperties
  <1>2. s \in Seq(Nat) /\ Len(s) = m + n
        /\ \A i \in 1..(m + n) : s[i] = IF i <= m THEN r[i] ELSE q[i - m]
    BY ConcatProperties
  <1>3. \A i \in 1..m : s[i] = r[i] /\ r[i] \in Nat
    BY <1>1, <1>2, ElementOfSeq
  <1>4. \A i \in (m + 1)..(m + n) : s[i] = b + (i - m)
    <2> TAKE i \in (m + 1)..(m + n)
    <2>1. i - m \in 1..Len(q) /\ i \in 1..(m + n) /\ ~(i <= m)
      BY <1>1
    <2> QED BY <1>2, <2>1
  <1> HIDE DEF s, m, n
  <1>5. \A i \in 1..(m + n) : i \in 1..m \/ i \in (m + 1)..(m + n)
    BY <1>1
  <1>6. s[m + n] = b + n
    BY <1>1, <1>4
  <1>7. ASSUME NEW i \in 1..(m + n), NEW j \in 1..(m + n), i < j
        PROVE  s[i] < s[j]
    <2>1. CASE j \in 1..m
      <3>1. i \in 1..m
        BY <1>1, <1>7, <2>1
      <3>2. r[i] < r[j]
        BY <1>7, <2>1, <3>1 DEF m
      <3> QED BY <1>3, <2>1, <3>1, <3>2
    <2>2. CASE i \in 1..m /\ j \in (m + 1)..(m + n)
      <3>1. r[i] <= b /\ r[i] \in Nat
        BY <1>3, <2>2 DEF m
      <3>2. s[j] = b + (j - m) /\ j - m > 0
        BY <1>1, <1>4, <2>2
      <3> QED BY <1>1, <1>3, <2>2, <3>1, <3>2
    <2>3. CASE i \in (m + 1)..(m + n) /\ j \in (m + 1)..(m + n)
      BY <1>1, <1>4, <1>7, <2>3
    <2>4. i \in (m + 1)..(m + n) /\ j \in 1..m => FALSE
      BY <1>1, <1>7
    <2> QED BY <1>5, <2>1, <2>2, <2>3, <2>4
  <1>8. s # << >>
    BY <1>1, <1>2, EmptySeq
  <1> QED BY <1>1, <1>2, <1>6, <1>7, <1>8 DEF s, n

\* Nothing a projector applied is above its cursor.
LEMMA RowsBelowCursor ==
  ASSUME TypeOK, CursorsAreExact, NEW p \in Projectors
  PROVE  \A i \in 1..Len(rows[p]) : rows[p][i] <= cursor[p]
  <1>1. rows[p] \in Seq(Nat) /\ Len(rows[p]) \in Nat
    BY LenProperties DEF TypeOK
  <1> TAKE i \in 1..Len(rows[p])
  <1>2. rows[p] # << >> /\ Len(rows[p]) \in 1..Len(rows[p])
    BY <1>1, EmptySeq
  <1>3. cursor[p] = rows[p][Len(rows[p])]
    BY <1>2 DEF CursorsAreExact
  <1>4. rows[p][i] \in Nat
    BY <1>1, ElementOfSeq
  <1>5. i = Len(rows[p]) \/ i < Len(rows[p])
    BY <1>1
  <1>6. i < Len(rows[p]) => rows[p][i] < rows[p][Len(rows[p])]
    BY <1>2 DEF CursorsAreExact
  <1> QED BY <1>3, <1>4, <1>5, <1>6, <1>2, <1>1, ElementOfSeq

\* The commit moves every projector of the release to the end of the log.
LEMMA CommitGrows ==
  ASSUME GrowthInv, Commit
  PROVE  CursorsAreExact' /\ CursorsInLog' /\ HistoryStep
  <1> DEFINE L == Len(log)
             q == Numbers(Len(log))
  <1>a. TypeOK /\ CursorsAreExact /\ CursorsInLog
    BY DEF GrowthInv, SettleInv
  <1>1. L \in Nat /\ todo \in Nat /\ todo > 0 /\ Len(txEvents) = todo
        /\ log \in Seq(Event) /\ txEvents \in Seq(Event) /\ log' = log \o txEvents
    BY <1>a, LenProperties DEF TypeOK, Commit
  <1>2. Len(log') = L + todo /\ \A i \in 1..L : log'[i] = log[i]
    <2>1. \A i \in 1..L : i \in 1..(L + todo) /\ i <= L
      BY <1>1
    <2> QED BY <1>1, <2>1, ConcatProperties
  <1>3. q \in Seq(Nat) /\ Len(q) = todo /\ \A i \in 1..todo : q[i] = L + i
    BY <1>1, <1>a, NumbersType DEF TypeOK
  <1>4. receipts[current.cmd].status = "none" /\ current.cmd \in Commands
    BY <1>a DEF GrowthInv, SettleInv, TypeOK, WorkerHoldsFreshCommand, Receipt, Commit
  <1>5. \A c \in Commands : receipts[c].status # "none" => receipts'[c] = receipts[c]
    BY <1>a, <1>4 DEF TypeOK, Commit
  <1>6. rows' = Applied(rows, q) /\ cursor' = CursorAt(L + todo) /\ known' = known
    BY DEF Commit
  <1> HIDE DEF q, L
  <1>7. ASSUME NEW p \in Projectors
        PROVE  /\ cursor'[p] = IF rows'[p] = << >> THEN 0 ELSE rows'[p][Len(rows'[p])]
               /\ \A i, j \in 1..Len(rows'[p]) : i < j => rows'[p][i] < rows'[p][j]
               /\ cursor'[p] <= L + todo /\ cursor'[p] >= cursor[p]
    <2>0. cursor[p] \in Nat /\ cursor[p] <= L /\ rows[p] \in Seq(Nat) /\ Len(rows[p]) \in Nat
      BY <1>a, LenProperties DEF TypeOK, CursorsInLog, L
    <2>1. CASE p \in 1..known
      <3>1. rows'[p] = rows[p] \o q /\ cursor'[p] = L + todo
        BY <1>6, <2>1 DEF Applied, CursorAt
      <3>2. \A i \in 1..Len(rows[p]) : rows[p][i] <= L
        <4> TAKE i \in 1..Len(rows[p])
        <4>1. rows[p][i] <= cursor[p]
          BY <1>a, RowsBelowCursor
        <4>2. rows[p][i] \in Nat
          BY <2>0, ElementOfSeq
        <4> QED BY <1>1, <2>0, <4>1, <4>2
      <3>3. \A i, j \in 1..Len(rows[p]) : i < j => rows[p][i] < rows[p][j]
        BY <1>a DEF CursorsAreExact
      <3>4. /\ rows'[p] # << >> /\ rows'[p][Len(rows'[p])] = L + todo
            /\ \A i, j \in 1..Len(rows'[p]) : i < j => rows'[p][i] < rows'[p][j]
        <4>1. L \in Nat /\ Len(q) # 0 /\ \A i \in 1..Len(q) : q[i] = L + i
          BY <1>1, <1>3
        <4>2. /\ rows[p] \o q # << >> /\ (rows[p] \o q)[Len(rows[p] \o q)] = L + Len(q)
              /\ \A i, j \in 1..Len(rows[p] \o q) :
                   i < j => (rows[p] \o q)[i] < (rows[p] \o q)[j]
          BY <1>3, <2>0, <3>2, <3>3, <4>1, ExtendExact
        <4> QED BY <1>3, <3>1, <4>2
      <3>5. cursor'[p] <= L + todo /\ cursor'[p] >= cursor[p]
        BY <1>1, <2>0, <3>1
      <3> QED BY <3>1, <3>4, <3>5
    <2>2. CASE p \notin 1..known
      <3>1. rows'[p] = rows[p] /\ cursor'[p] = cursor[p]
        BY <1>6, <2>2 DEF Applied, CursorAt
      <3>2. cursor'[p] <= L + todo /\ cursor'[p] >= cursor[p]
        BY <1>1, <2>0, <3>1
      <3>3. /\ cursor[p] = IF rows[p] = << >> THEN 0 ELSE rows[p][Len(rows[p])]
            /\ \A i, j \in 1..Len(rows[p]) : i < j => rows[p][i] < rows[p][j]
        BY <1>a DEF CursorsAreExact
      <3> QED BY <3>1, <3>2, <3>3
    <2> QED BY <2>1, <2>2
  <1>8. CursorsAreExact' /\ CursorsInLog'
    BY <1>2, <1>7 DEF CursorsAreExact, CursorsInLog
  <1>9. Len(log') >= Len(log) /\ \A i \in 1..Len(log) : log'[i] = log[i]
    BY <1>1, <1>2 DEF L
  <1> QED BY <1>5, <1>7, <1>8, <1>9 DEF HistoryStep

\* The replay of the start-up applies the event after the cursor.
LEMMA BootstrapGrows ==
  ASSUME GrowthInv, BootstrapEvent
  PROVE  CursorsAreExact' /\ CursorsInLog' /\ HistoryStep
  <1> DEFINE b == boot.p
             c == cursor[boot.p]
  <1>a. TypeOK /\ CursorsAreExact /\ CursorsInLog
    BY DEF GrowthInv, SettleInv
  <1>1. b \in Projectors
    <2>1. b \in Nat /\ b # 0 /\ known \in Nat /\ known <= NumProjectors /\ NumProjectors \in Nat
      BY <1>a, ConstantsAssumption DEF TypeOK
    <2>2. b <= known
      BY DEF BootstrapEvent
    <2> QED BY <2>1, <2>2 DEF Projectors
  <1>2. c \in Nat /\ c < Len(log) /\ Len(log) \in Nat /\ rows[b] \in Seq(Nat)
    BY <1>a, <1>1, LenProperties DEF TypeOK, BootstrapEvent, Behind
  <1>3. /\ cursor' = [cursor EXCEPT ![b] = c + 1] /\ rows' = [rows EXCEPT ![b] = Append(rows[b], c + 1)]
        /\ log' = log /\ receipts' = receipts
    BY DEF BootstrapEvent
  <1>4. cursor'[b] = c + 1 /\ rows'[b] = Append(rows[b], c + 1)
        /\ \A p \in Projectors \ {b} : cursor'[p] = cursor[p] /\ rows'[p] = rows[p]
    BY <1>a, <1>1, <1>3 DEF TypeOK
  <1>5. <<c + 1>> \in Seq(Nat) /\ Len(<<c + 1>>) = 1 /\ <<c + 1>>[1] = c + 1
        /\ Append(rows[b], c + 1) = rows[b] \o <<c + 1>>
    <2>1. c + 1 \in Nat
      BY <1>2
    <2>2. Append(rows[b], c + 1) = rows[b] \o <<c + 1>>
      BY <1>2, <2>1, AppendIsConcat
    <2> HIDE DEF b, c
    <2> QED BY <2>1, <2>2
  <1>6. \A i \in 1..Len(rows[b]) : rows[b][i] <= c
    BY <1>1, <1>a, RowsBelowCursor
  <1>7. \A i, j \in 1..Len(rows[b]) : i < j => rows[b][i] < rows[b][j]
    BY <1>a, <1>1 DEF CursorsAreExact
  <1> HIDE DEF b, c
  <1>8. /\ rows'[b] # << >> /\ rows'[b][Len(rows'[b])] = c + 1
        /\ \A i, j \in 1..Len(rows'[b]) : i < j => rows'[b][i] < rows'[b][j]
    <2>1. \A i \in 1..Len(<<c + 1>>) : <<c + 1>>[i] = c + i
      BY <1>2, <1>5
    <2> QED BY <1>2, <1>4, <1>5, <1>6, <1>7, <2>1, ExtendExact
  <1>9. CursorsAreExact'
    BY <1>a, <1>4, <1>8 DEF CursorsAreExact
  <1>10. \A p \in Projectors : cursor'[p] <= Len(log) /\ cursor'[p] >= cursor[p]
    <2> TAKE p \in Projectors
    <2>1. cursor[p] \in Nat /\ cursor[p] <= Len(log)
      BY <1>a DEF TypeOK, CursorsInLog
    <2>2. p = b => cursor[p] = c
      BY DEF b, c
    <2>3. CASE p = b
      BY <1>2, <1>4, <2>2, <2>3
    <2>4. CASE p # b
      BY <1>4, <2>1, <2>4
    <2> QED BY <2>3, <2>4
  <1>11. CursorsInLog'
    BY <1>3, <1>10 DEF CursorsInLog
  <1>12. Len(log') >= Len(log)
    BY <1>2, <1>3
  <1> QED BY <1>3, <1>9, <1>10, <1>11, <1>12 DEF HistoryStep

LEMMA GrowthInit == Init => GrowthInv
  <1> SUFFICES ASSUME Init PROVE CursorsAreExact /\ CursorsInLog
    BY SettleInit DEF GrowthInv
  <1>1. \A p \in Projectors : rows[p] = << >> /\ cursor[p] = 0
    BY DEF Init
  <1>2. Len(log) = 0 /\ Len(<< >>) = 0
    BY DEF Init
  <1>3. \A p \in Projectors : Len(rows[p]) = 0
    BY <1>1, <1>2
  <1>4. CursorsInLog
    BY <1>1, <1>2 DEF CursorsInLog
  <1>5. CursorsAreExact
    BY <1>1, <1>3 DEF CursorsAreExact
  <1> QED BY <1>4, <1>5

\* Every other step leaves the log and the projections alone, and a receipt
\* unless it is the rejection of a command that has none.
LEMMA GrowthNext ==
  ASSUME GrowthInv, [Next]_vars
  PROVE  GrowthInv' /\ HistoryStep
  <1>a. SettleInv' /\ TypeOK /\ CursorsAreExact /\ CursorsInLog
    BY SettleNext DEF GrowthInv, SettleInv
  <1> SUFFICES CursorsAreExact' /\ CursorsInLog' /\ HistoryStep
    BY <1>a DEF GrowthInv
  <1>1. CASE Commit
    BY <1>1, CommitGrows
  <1>2. CASE BootstrapEvent
    BY <1>2, BootstrapGrows
  <1>b. Len(log) \in Nat /\ \A p \in Projectors : cursor[p] \in Nat
    BY <1>a, LenProperties DEF TypeOK
  <1>3. ASSUME UNCHANGED <<log, rows, cursor>>,
               \A c \in Commands : receipts[c].status # "none" => receipts'[c] = receipts[c]
        PROVE  CursorsAreExact' /\ CursorsInLog' /\ HistoryStep
    <2>1. CursorsAreExact' /\ CursorsInLog'
      BY <1>a, <1>3 DEF CursorsAreExact, CursorsInLog
    <2>2. Len(log') >= Len(log) /\ \A p \in Projectors : cursor'[p] >= cursor[p]
      BY <1>b, <1>3
    <2> QED BY <1>3, <2>1, <2>2 DEF HistoryStep
  <1>4. CASE RecordRejection
    <2>1. receipts[current.cmd].status = "none"
      BY <1>4 DEF GrowthInv, SettleInv, WorkerHoldsFreshCommand, Receipt, RecordRejection
    <2>2. \A c \in Commands : receipts[c].status # "none" => receipts'[c] = receipts[c]
      BY <1>4, <1>a, <2>1 DEF TypeOK, RecordRejection
    <2>3. UNCHANGED <<log, rows, cursor>>
      BY <1>4 DEF RecordRejection
    <2> QED BY <1>3, <2>2, <2>3
  <1>5. CASE UNCHANGED vars
    BY <1>3, <1>5 DEF vars, disk
  <1>6. ASSUME NEW k \in Callers, NEW c \in Commands, Dispatch(k, c)
        PROVE  CursorsAreExact' /\ CursorsInLog' /\ HistoryStep
    BY <1>3, <1>6 DEF Dispatch, disk
  <1>7. ASSUME NEW s \in Subscribers, Subscribe(s)
        PROVE  CursorsAreExact' /\ CursorsInLog' /\ HistoryStep
    BY <1>3, <1>7 DEF Subscribe, disk
  <1>8. CASE WorkerStep
    <2>1. CASE TakeCommand \/ AnswerFromReceipt \/ Decide \/ InstallReadModel \/ PublishEvent
               \/ AnswerAccepted \/ Reconcile \/ ReconcileFails \/ RecordRejectionFails \/ AnswerFailed
      BY <1>3, <2>1 DEF disk, TakeCommand, AnswerFromReceipt, Decide, InstallReadModel, PublishEvent,
           AnswerAccepted, Reconcile, ReconcileFails, RecordRejectionFails, AnswerFailed
    <2>2. CASE DeciderRejects \/ SqlFails \/ NoEvents
      BY <1>3, <2>2 DEF disk, DeciderRejects, SqlFails, NoEvents, Fail
    <2>3. CASE AppendEvent
      BY <1>3, <2>3 DEF AppendEvent
    <2> QED BY <1>1, <1>4, <1>8, <2>1, <2>2, <2>3 DEF WorkerStep
  <1>9. CASE StartUp
    BY <1>2, <1>3, <1>9 DEF StartUp, Start, BootstrapNextProjector, Serve, disk
  <1>10. CASE Crash
    BY <1>3, <1>10 DEF Crash, disk
  <1>11. CASE Upgrade
    BY <1>3, <1>11 DEF Upgrade
  <1> QED BY <1>5, <1>6, <1>7, <1>8, <1>9, <1>10, <1>11 DEF Next

\* A projector's cursor names the last event it applied, and no crash, replay
\* or upgrade makes it apply one twice or out of order.
THEOREM CursorsExact == Spec => []CursorsAreExact
  <1>1. GrowthInv => CursorsAreExact
    BY DEF GrowthInv
  <1> QED BY <1>1, GrowthInit, GrowthNext, PTL DEF Spec

\* What is stored stays: the log is only extended, a receipt never changes,
\* a cursor never goes back.
THEOREM HistoryStays == Spec => History
  <1>1. GrowthInv /\ [Next]_vars => [HistoryStep]_vars
    BY GrowthNext
  <1> QED BY <1>1, GrowthInit, GrowthNext, PTL DEF Spec, History

-----------------------------------------------------------------------------
(* The engine implements CommandLog.                                       *)

LEMMA CommitIsAccept ==
  ASSUME SettleInv, Commit
  PROVE  Commits!Next
  <1>1. log \in Seq(Event) /\ txEvents \in Seq(Event) /\ log' = log \o txEvents
        /\ Len(txEvents) = todo /\ todo > 0 /\ current.cmd \in Commands
    BY DEF SettleInv, TypeOK, Commit
  <1>2. Len(log) \in Nat /\ todo \in Nat
    BY <1>1, LenProperties
  <1>3. Len(log') = Len(log) + todo
        /\ \A i \in 1..(Len(log) + todo) :
             log'[i] = IF i <= Len(log) THEN log[i] ELSE txEvents[i - Len(log)]
    BY <1>1, ConcatProperties
  <1>4. ASSUME NEW i \in (Len(log) + 1)..Len(log')
        PROVE  log'[i].cmd = current.cmd
    <2>1. i \in 1..(Len(log) + todo) /\ ~(i <= Len(log)) /\ i - Len(log) \in 1..Len(txEvents)
      BY <1>1, <1>2, <1>3
    <2> QED BY <1>3, <2>1 DEF SettleInv, WorkerHoldsFreshCommand, Commit
  <1>5. \A i \in 1..Len(log) : log'[i] = log[i]
    <2>1. \A i \in 1..Len(log) : i \in 1..(Len(log) + todo) /\ i <= Len(log)
      BY <1>2
    <2> QED BY <1>3, <2>1
  <1>6. Commits!ExtendedBy(log, log', current.cmd)
    BY <1>1, <1>2, <1>3, <1>4, <1>5 DEF Commits!ExtendedBy
  <1>7. receipts[current.cmd].status = "none"
    BY DEF SettleInv, WorkerHoldsFreshCommand, Receipt, Commit
  <1>8. [c \in Commands |-> receipts'[c].status] =
        [[c \in Commands |-> receipts[c].status] EXCEPT ![current.cmd] = "accepted"]
    BY <1>1 DEF SettleInv, TypeOK, Commit
  <1> QED BY <1>1, <1>6, <1>7, <1>8 DEF Commits!Next, Commits!Accept

LEMMA RejectionIsReject ==
  ASSUME SettleInv, RecordRejection
  PROVE  Commits!Next
  <1>1. current.cmd \in Commands /\ receipts[current.cmd].status = "none"
    BY DEF SettleInv, TypeOK, WorkerHoldsFreshCommand, Receipt, RecordRejection
  <1>2. [c \in Commands |-> receipts'[c].status] =
        [[c \in Commands |-> receipts[c].status] EXCEPT ![current.cmd] = "rejected"]
    BY <1>1 DEF SettleInv, TypeOK, RecordRejection
  <1> QED BY <1>1, <1>2 DEF Commits!Next, Commits!Reject, RecordRejection

\* Every step of the engine settles one command in CommandLog or stutters there.
LEMMA StepSettles == SettleInv /\ [Next]_vars => [Commits!Next]_(Commits!vars)
<1> SUFFICES ASSUME SettleInv, [Next]_vars PROVE [Commits!Next]_(Commits!vars)
  OBVIOUS
<1>1. CASE Commit
  BY <1>1, CommitIsAccept
<1>2. CASE RecordRejection
  BY <1>2, RejectionIsReject
<1>3. CASE UNCHANGED <<log, receipts>>
  BY <1>3 DEF Commits!vars
<1>4. (Next /\ ~Commit /\ ~RecordRejection) => UNCHANGED <<log, receipts>>
  BY DEF Next, WorkerStep, StartUp, Dispatch, Subscribe, TakeCommand, AnswerFromReceipt, Decide,
         DeciderRejects, SqlFails, AppendEvent, NoEvents, InstallReadModel, PublishEvent,
         AnswerAccepted, Reconcile, ReconcileFails, RecordRejectionFails, AnswerFailed, Fail,
         Start, BootstrapEvent, BootstrapNextProjector, Serve, Crash, WorkerGone, Upgrade, disk
<1> QED BY <1>1, <1>2, <1>3, <1>4 DEF vars, disk

\* Seen from the log and the receipts, the engine with its queue, transaction,
\* failures, crashes and restarts is the abstract CommandLog.
THEOREM EngineImplementsCommandLog == Spec => CommandsSettleOnce
<1>1. Init => Commits!Init
  BY DEF Init, Commits!Init, NoReceipt
<1> QED
  BY <1>1, SettleInit, SettleNext, StepSettles, PTL DEF Spec, CommandsSettleOnce, Commits!Spec

-----------------------------------------------------------------------------
(* The read model, the projections and the log say the same.  This depends *)
(* on the replay of the start-up reading all a projector has missed, which *)
(* it does in one read of at most ReadLimit events.                        *)

\* When the process starts, no projector is further behind than one read.
WithinOneRead == phase = "stopped" => \A p \in 1..known : Len(log) <= cursor[p] + ReadLimit

\* A projection holds every event up to its cursor.
RowsAreWhole == \A p \in Projectors : rows[p] = Upto(cursor[p])

\* The replay has brought the projectors before the current one to the end of
\* the log, and what it may still read brings the others there.
CaughtUp ==
  /\ phase = "serving" => \A p \in 1..known : cursor[p] = Len(log)
  /\ phase = "bootstrap" => \A p \in 1..known :
       /\ p < boot.p => cursor[p] = Len(log)
       /\ p = boot.p => Len(log) <= cursor[p] + boot.left
       /\ p > boot.p => Len(log) <= cursor[p] + ReadLimit

\* The read model is that of the log, without the events of a commit it has
\* not been told of yet; a command starts, and fails, at the end of the log.
Installed == IF pc = "committed" THEN Len(log) - todo ELSE Len(log)
ReadModelFollows ==
  /\ phase = "serving" => /\ readModel.seq = Installed
                          /\ \A p \in 1..known : readModel.rows[p] = Upto(Installed)
  /\ pc \in {"receipt", "tx", "failed"} => startSequence = Len(log)

\* A subscriber has received the log up to what is published.
Told == IF pc = "committed" THEN Len(log) - todo
        ELSE IF pc = "publish" THEN Len(log) - todo + published ELSE Len(log)
Consecutive(e) == \A i \in 1..Len(e) : e[i] = e[1] + i - 1
SubscribersFollow ==
  /\ pc = "publish" => published <= todo
  /\ \A s \in Subscribers : got[s].events # << >> =>
       /\ phase = "serving" /\ got[s].on /\ Consecutive(got[s].events)
       /\ got[s].events[Len(got[s].events)] = Told

AgreeInv ==
  GrowthInv /\ RowsAreWhole /\ CaughtUp /\ ReadModelFollows /\ SubscribersFollow

-----------------------------------------------------------------------------
LEMMA UptoProperties ==
  ASSUME NEW n \in Nat
  PROVE  Upto(n) \in Seq(Nat) /\ Len(Upto(n)) = n /\ \A i \in 1..n : Upto(n)[i] = i
<1>1. Upto(n) \in [1..n -> Nat]
  BY DEF Upto
<1> QED
  BY <1>1, SeqDef DEF Upto

\* The first n numbers, followed by the next ones.
LEMMA UptoExtended ==
  ASSUME NEW n \in Nat, NEW q \in Seq(Nat), \A i \in 1..Len(q) : q[i] = n + i
  PROVE  Upto(n) \o q = Upto(n + Len(q))
<1>1. Len(q) \in Nat /\ n + Len(q) \in Nat
  BY LenProperties
<1>2. Upto(n) \in Seq(Nat) /\ Len(Upto(n)) = n /\ \A i \in 1..n : Upto(n)[i] = i
  BY UptoProperties
<1>3. /\ Upto(n + Len(q)) \in Seq(Nat) /\ Len(Upto(n + Len(q))) = n + Len(q)
      /\ \A i \in 1..(n + Len(q)) : Upto(n + Len(q))[i] = i
  BY <1>1, UptoProperties
<1>4. /\ Upto(n) \o q \in Seq(Nat) /\ Len(Upto(n) \o q) = n + Len(q)
      /\ \A i \in 1..(n + Len(q)) :
           (Upto(n) \o q)[i] = IF i <= n THEN Upto(n)[i] ELSE q[i - n]
  <2>1. /\ Upto(n) \o q \in Seq(Nat)
        /\ Len(Upto(n) \o q) = Len(Upto(n)) + Len(q)
        /\ \A i \in 1..Len(Upto(n)) + Len(q) :
             (Upto(n) \o q)[i] = IF i <= Len(Upto(n)) THEN Upto(n)[i] ELSE q[i - Len(Upto(n))]
    BY ONLY <1>2, q \in Seq(Nat), ConcatProperties
  <2>2. Len(Upto(n)) = n BY <1>2
  <2> QED BY ONLY <2>1, <2>2
<1>5. ASSUME NEW i \in 1..(n + Len(q)) PROVE (Upto(n) \o q)[i] = i
  <2>1. CASE i <= n
    BY <1>1, <1>2, <1>4, <2>1
  <2>2. CASE ~(i <= n)
    <3>1. i - n \in 1..Len(q)
      BY <1>1, <2>2
    <3> QED BY <1>1, <1>4, <2>2, <3>1
  <2> QED BY <2>1, <2>2
<1> QED
  BY <1>3, <1>4, <1>5, SeqEqual

\* Where reads return all there is, a read at the end of the log returns nothing.
LEMMA NothingAfterTheEnd ==
  ASSUME log \in Seq(Event)
  PROVE  ReadFrom(Len(log)) = << >>
<1>1. Len(log) \in Nat /\ ReadLimit \in Nat /\ ReadLimit # 0
  BY LenProperties, ConstantsAssumption
<1>2. ~(Len(log) - Len(log) > ReadLimit) /\ ~(Len(log) > Len(log))
  BY <1>1
<1>3. ReadFrom(Len(log)) \in Seq(Nat)
  BY <1>1, ReadFromType
<1>4. DOMAIN ReadFrom(Len(log)) = 1..0
  BY <1>2 DEF ReadFrom
<1>5. Len(ReadFrom(Len(log))) = 0
  BY <1>3, <1>4, LenProperties
<1> QED
  BY <1>3, <1>5, EmptySeq

LEMMA AgreeInit == Init => AgreeInv
<1> SUFFICES ASSUME Init PROVE AgreeInv
  OBVIOUS
<1>1. \A p \in Projectors : rows[p] = Upto(cursor[p])
  <2>1. Upto(0) = << >>
    BY UptoProperties, EmptySeq
  <2> QED BY <2>1 DEF Init
<1>2. \A s \in Subscribers : got[s].events = << >>
  BY DEF Init, NotSubscribed
<1> QED
  BY <1>1, <1>2, GrowthInit DEF Init, AgreeInv, RowsAreWhole, CaughtUp, ReadModelFollows, SubscribersFollow

-----------------------------------------------------------------------------
\* A step of the worker that reads, answers or waits leaves it as it is.
LEMMA AgreeKept ==
  ASSUME AgreeInv, GrowthInv',
         UNCHANGED <<log, rows, cursor, known, phase, boot, readModel>>,
         pc # "committed", pc' # "committed", Told' = Told,
         \A s \in Subscribers : got'[s].events # << >> => got'[s] = got[s],
         pc' = "publish" => published' <= todo',
         pc' \in {"receipt", "tx", "failed"} => startSequence' = Len(log)
  PROVE  AgreeInv'
<1>1. RowsAreWhole' /\ CaughtUp'
  BY DEF AgreeInv, RowsAreWhole, CaughtUp
<1>2. Installed' = Installed
  BY DEF Installed
<1>3. ReadModelFollows'
  BY <1>2 DEF AgreeInv, ReadModelFollows
<1>4. SubscribersFollow'
  <2>1. ASSUME NEW s \in Subscribers, got'[s].events # << >>
        PROVE  /\ phase' = "serving" /\ got'[s].on /\ Consecutive(got'[s].events)
               /\ got'[s].events[Len(got'[s].events)] = Told'
    BY <2>1 DEF AgreeInv, SubscribersFollow
  <2> QED BY <2>1 DEF SubscribersFollow, Consecutive
<1> QED
  BY <1>1, <1>3, <1>4 DEF AgreeInv

\* The commit extends every projection by the events of the transaction.
LEMMA CommitAgrees ==
  ASSUME AgreeInv, GrowthInv', Commit
  PROVE  AgreeInv'
<1>a. TypeOK /\ TypeOK'
  BY DEF AgreeInv, GrowthInv, SettleInv
<1>1. /\ phase = "serving" /\ pc = "tx" /\ pc' = "committed" /\ todo \in Nat
      /\ UNCHANGED <<known, phase, boot, readModel, got, todo>>
  BY <1>a DEF Commit, TypeOK, memory
<1>2. Len(log) \in Nat /\ Len(log') = Len(log) + todo
  BY <1>a, LenProperties, ConcatProperties DEF TypeOK, Commit
<1>3. Installed' = Len(log) /\ Installed = Len(log) /\ Told' = Len(log) /\ Told = Len(log)
  BY <1>1, <1>2 DEF Installed, Told
<1>4. RowsAreWhole' /\ CaughtUp'
  <2>1. ASSUME NEW p \in Projectors, p \in 1..known
        PROVE  cursor'[p] = Len(log') /\ rows'[p] = Upto(cursor'[p])
    <3>1. cursor[p] = Len(log) /\ rows[p] = Upto(Len(log))
      BY <1>1, <2>1 DEF AgreeInv, CaughtUp, RowsAreWhole
    <3>2. cursor'[p] = Len(log) + todo /\ rows'[p] = rows[p] \o Numbers(Len(log))
      BY <2>1 DEF Commit, CursorAt, Applied
    <3>3. /\ Numbers(Len(log)) \in Seq(Nat) /\ Len(Numbers(Len(log))) = todo
          /\ \A i \in 1..todo : Numbers(Len(log))[i] = Len(log) + i
      BY <1>1, <1>2, NumbersType
    <3>4. Upto(Len(log)) \o Numbers(Len(log)) = Upto(Len(log) + todo)
      BY <1>2, <3>3, UptoExtended
    <3> QED BY <1>2, <3>1, <3>2, <3>4
  <2>2. ASSUME NEW p \in Projectors, p \notin 1..known
        PROVE  rows'[p] = Upto(cursor'[p])
    BY <2>2 DEF Commit, CursorAt, Applied, AgreeInv, RowsAreWhole
  <2>3. RowsAreWhole'
    BY <2>1, <2>2 DEF RowsAreWhole
  <2>4. 1..known \subseteq Projectors
    BY <1>a, ConstantsAssumption DEF TypeOK, Projectors
  <2> QED BY <1>1, <2>1, <2>3, <2>4 DEF CaughtUp
<1>5. ReadModelFollows'
  BY <1>1, <1>3 DEF AgreeInv, ReadModelFollows
<1>6. SubscribersFollow'
  BY <1>1, <1>3 DEF AgreeInv, SubscribersFollow, Consecutive
<1> QED
  BY <1>4, <1>5, <1>6 DEF AgreeInv

\* The new read model contains what was committed.
LEMMA InstallAgrees ==
  ASSUME AgreeInv, GrowthInv', InstallReadModel
  PROVE  AgreeInv'
<1>a. TypeOK
  BY DEF AgreeInv, GrowthInv, SettleInv
<1>1. /\ phase = "serving" /\ pc = "committed" /\ pc' = "publish" /\ published' = 0
      /\ readModel' = NextReadModel
      /\ UNCHANGED <<log, rows, cursor, known, phase, boot, got, todo>>
      /\ todo \in Nat /\ todo <= Len(log) /\ Len(log) \in Nat
  BY <1>a, LenProperties DEF InstallReadModel, TypeOK, disk
<1>2. Installed = Len(log) - todo /\ Installed' = Len(log) /\ Told' = Told /\ Len(log) - todo \in Nat
  BY <1>1 DEF Installed, Told
<1>3. ASSUME NEW p \in 1..known
      PROVE  readModel'.rows[p] = Upto(Len(log))
  <2> DEFINE n == Len(log) - todo
  <2>1. p \in Projectors
    BY <1>a, ConstantsAssumption DEF TypeOK, Projectors
  <2>2. readModel'.rows[p] = readModel.rows[p] \o Numbers(n)
    BY <1>1, <2>1 DEF NextReadModel, Applied
  <2>3. readModel.rows[p] = Upto(n)
    BY <1>1, <1>2 DEF AgreeInv, ReadModelFollows
  <2>4. Numbers(n) \in Seq(Nat) /\ Len(Numbers(n)) = todo /\ \A i \in 1..todo : Numbers(n)[i] = n + i
    BY <1>1, <1>2, NumbersType
  <2>5. n \in Nat /\ n + todo = Len(log)
    BY <1>1, <1>2
  <2> HIDE DEF n
  <2>6. Upto(n) \o Numbers(n) = Upto(n + todo)
    BY <2>4, <2>5, UptoExtended
  <2> QED BY <2>2, <2>3, <2>5, <2>6
<1>4. ReadModelFollows'
  BY <1>1, <1>2, <1>3 DEF ReadModelFollows, NextReadModel
<1>5. RowsAreWhole' /\ CaughtUp'
  BY <1>1 DEF AgreeInv, RowsAreWhole, CaughtUp
<1>6. SubscribersFollow'
  BY <1>1, <1>2 DEF AgreeInv, SubscribersFollow, Consecutive
<1> QED
  BY <1>4, <1>5, <1>6 DEF AgreeInv

\* What is published next is the event after the last one that was received.
LEMMA PublishAgrees ==
  ASSUME AgreeInv, GrowthInv', PublishEvent
  PROVE  AgreeInv'
<1> DEFINE n == Len(log) - todo + published + 1
<1>a. TypeOK
  BY DEF AgreeInv, GrowthInv, SettleInv
<1>1. /\ phase = "serving" /\ pc = "publish" /\ pc' = "publish" /\ published' = published + 1
      /\ published < todo /\ Publish(<<n>>)
      /\ UNCHANGED <<log, rows, cursor, known, phase, boot, readModel, todo, startSequence>>
      /\ todo \in Nat /\ todo <= Len(log) /\ Len(log) \in Nat /\ published \in Nat
  BY <1>a, LenProperties DEF PublishEvent, TypeOK, disk
<1>2. Installed' = Installed /\ Told' = n /\ Told = n - 1 /\ n \in Nat
  BY <1>1 DEF Installed, Told
<1> HIDE DEF n
<1>3. RowsAreWhole' /\ CaughtUp' /\ ReadModelFollows'
  BY <1>1, <1>2 DEF AgreeInv, RowsAreWhole, CaughtUp, ReadModelFollows
<1>4. ASSUME NEW s \in Subscribers, got'[s].events # << >>
      PROVE  /\ got'[s].on /\ Consecutive(got'[s].events)
             /\ got'[s].events[Len(got'[s].events)] = Told'
  <2> DEFINE e == got[s].events
             e1 == got'[s].events
  <2>1. e \in Seq(Nat) /\ Len(e) \in Nat
    BY <1>a, LenProperties DEF TypeOK
  <2>2. CASE got[s].on
    <3>1. e1 = e \o <<n>> /\ got'[s].on
      BY <1>1, <1>a, <2>2 DEF Publish, TypeOK
    <3>2. e \o <<n>> = Append(e, n)
      BY <1>2, <2>1, AppendIsConcat
    <3>3. /\ Len(e1) = Len(e) + 1 /\ e1[Len(e) + 1] = n
          /\ \A i \in 1..Len(e) : e1[i] = e[i]
      BY <1>2, <2>1, <3>1, <3>2, AppendProperties
    <3>4. CASE e = << >>
      <4>1. Len(e1) = 1 /\ e1[1] = n
        BY <2>1, <3>3, <3>4, EmptySeq
      <4> QED BY <1>2, <3>1, <4>1 DEF Consecutive
    <3>5. CASE e # << >>
      <4>1. Consecutive(e) /\ e[Len(e)] = n - 1 /\ 1 \in 1..Len(e) /\ Len(e) \in 1..Len(e)
        BY <1>2, <2>1, <3>5, EmptySeq DEF AgreeInv, SubscribersFollow
      <4>2. e[1] + Len(e) - 1 = n - 1 /\ e[1] \in Nat
        BY <2>1, <4>1, ElementOfSeq DEF Consecutive
      <4> HIDE DEF e, e1
      <4>3. ASSUME NEW i \in 1..(Len(e) + 1) PROVE e1[i] = e1[1] + i - 1
        <5>1. CASE i \in 1..Len(e)
          BY <3>3, <4>1, <5>1 DEF Consecutive
        <5>2. CASE i = Len(e) + 1
          <6>1. e1[1] = e[1] /\ e1[i] = n
            BY <3>3, <4>1, <5>2
          <6>2. n = e[1] + (Len(e) + 1) - 1
            BY <1>2, <2>1, <4>2
          <6> QED BY <5>2, <6>1, <6>2
        <5> QED BY <2>1, <5>1, <5>2
      <4> QED BY <1>2, <2>1, <3>1, <3>3, <4>3 DEF Consecutive, e, e1
    <3> QED BY <3>4, <3>5
  <2>3. CASE ~got[s].on
    <3>1. got'[s] = got[s]
      BY <1>1, <2>3 DEF Publish
    <3> QED BY <1>4, <2>3, <3>1 DEF AgreeInv, SubscribersFollow
  <2> QED BY <2>2, <2>3
<1>5. SubscribersFollow'
  BY <1>1, <1>4 DEF SubscribersFollow
<1> QED
  BY <1>3, <1>5 DEF AgreeInv

-----------------------------------------------------------------------------
(* Start-up.                                                               *)

\* One more event is read of the projector that is replayed.
LEMMA BootstrapAgrees ==
  ASSUME AgreeInv, GrowthInv', BootstrapEvent
  PROVE  AgreeInv'
<1> DEFINE b == boot.p
           c == cursor[boot.p]
<1>a. TypeOK
  BY DEF AgreeInv, GrowthInv, SettleInv
<1>1. b \in Nat /\ b \in 1..known /\ b \in Projectors /\ boot.left \in Nat /\ boot.left > 0
  <2>1. b \in Nat \ {0} /\ boot.left \in Nat /\ known \in Nat /\ known <= NumProjectors /\ NumProjectors \in Nat
    BY <1>a, ConstantsAssumption DEF TypeOK
  <2>2. b <= known /\ boot.left > 0
    BY DEF BootstrapEvent, Behind
  <2> QED BY <2>1, <2>2 DEF Projectors
<1>2. c \in Nat /\ c < Len(log) /\ Len(log) \in Nat
  BY <1>a, <1>1, LenProperties DEF TypeOK, BootstrapEvent, Behind
<1>3. /\ phase = "bootstrap" /\ phase' = "bootstrap" /\ pc = "idle" /\ pc' = "idle"
      /\ boot' = [boot EXCEPT !.left = boot.left - 1]
      /\ cursor' = [cursor EXCEPT ![b] = c + 1] /\ rows' = [rows EXCEPT ![b] = Append(rows[b], c + 1)]
      /\ UNCHANGED <<log, known, readModel, got>>
  BY <1>a DEF BootstrapEvent, worker, TypeOK
<1>4. boot'.p = b /\ boot'.left = boot.left - 1
  BY <1>a, <1>3 DEF TypeOK
<1>5. /\ cursor'[b] = c + 1 /\ rows'[b] = Append(rows[b], c + 1)
      /\ \A p \in Projectors \ {b} : cursor'[p] = cursor[p] /\ rows'[p] = rows[p]
  BY <1>a, <1>1, <1>3 DEF TypeOK
<1>6. rows[b] = Upto(c)
  BY <1>1 DEF AgreeInv, RowsAreWhole
<1>7. Len(log) <= c + boot.left
  BY <1>1, <1>3 DEF AgreeInv, CaughtUp
<1> HIDE DEF b, c
<1>8. rows'[b] = Upto(c + 1)
  <2>1. Upto(c) \in Seq(Nat) /\ <<c + 1>> \in Seq(Nat) /\ Len(<<c + 1>>) = 1 /\ <<c + 1>>[1] = c + 1
    BY <1>2, UptoProperties
  <2>2. Upto(c) \o <<c + 1>> = Upto(c + 1)
    <3>1. \A i \in 1..Len(<<c + 1>>) : <<c + 1>>[i] = c + i
      BY <1>2, <2>1
    <3> QED BY <1>2, <2>1, <3>1, UptoExtended
  <2>3. Append(Upto(c), c + 1) = Upto(c) \o <<c + 1>>
    BY <1>2, <2>1, AppendIsConcat
  <2> QED BY <1>5, <1>6, <2>2, <2>3
<1>9. RowsAreWhole'
  BY <1>5, <1>8 DEF AgreeInv, RowsAreWhole
<1>10. CaughtUp'
  <2>1. ASSUME NEW p \in 1..known
        PROVE  /\ p < b => cursor'[p] = Len(log)
               /\ p = b => Len(log) <= cursor'[p] + (boot.left - 1)
               /\ p > b => Len(log) <= cursor'[p] + ReadLimit
    <3>1. p \in Projectors /\ p \in Nat
      BY <1>a, ConstantsAssumption DEF TypeOK, Projectors
    <3>2. CASE p = b
      BY <1>1, <1>2, <1>5, <1>7, <3>2
    <3>3. CASE p # b
      BY <1>3, <1>5, <3>1, <3>3 DEF AgreeInv, CaughtUp, b
    <3> QED BY <3>2, <3>3
  <2> QED BY <1>3, <1>4, <2>1 DEF CaughtUp
<1>11. ReadModelFollows' /\ SubscribersFollow'
  <2>1. \A s \in Subscribers : got'[s].events = << >>
    BY <1>3 DEF AgreeInv, SubscribersFollow
  <2> QED BY <1>3, <2>1 DEF ReadModelFollows, SubscribersFollow
<1> QED
  BY <1>9, <1>10, <1>11 DEF AgreeInv

\* The other steps of the start-up, a crash and an upgrade.
LEMMA StartUpAgrees ==
  ASSUME AgreeInv, GrowthInv', WithinOneRead,
         Start \/ BootstrapNextProjector \/ Serve \/ Crash \/ Upgrade
  PROVE  AgreeInv'
<1>a. TypeOK
  BY DEF AgreeInv, GrowthInv, SettleInv
<1>b. Len(log) \in Nat /\ known \in Nat /\ \A p \in 1..known : p \in Projectors /\ cursor[p] \in Nat
  BY <1>a, LenProperties, ConstantsAssumption DEF TypeOK, Projectors
<1>1. CASE Start
  <2>1. /\ phase = "stopped" /\ phase' = "bootstrap" /\ pc' = "idle" /\ pc = "idle"
        /\ boot'.p = 1 /\ boot'.left = ReadLimit
        /\ UNCHANGED <<log, rows, cursor, known, readModel, got>>
    BY <1>1, <1>a DEF Start, disk, worker, TypeOK
  <2>2. CaughtUp'
    BY <1>b, <2>1 DEF CaughtUp, WithinOneRead
  <2>3. \A s \in Subscribers : got'[s].events = << >>
    BY <2>1 DEF AgreeInv, SubscribersFollow
  <2> QED BY <2>1, <2>2, <2>3 DEF AgreeInv, RowsAreWhole, ReadModelFollows, SubscribersFollow
<1>2. CASE BootstrapNextProjector
  <2>1. /\ phase = "bootstrap" /\ phase' = "bootstrap" /\ pc' = "idle" /\ pc = "idle"
        /\ boot.p <= known /\ ~Behind(boot.p) /\ boot'.p = boot.p + 1 /\ boot'.left = ReadLimit
        /\ boot.p \in 1..known /\ boot.left \in Nat
        /\ UNCHANGED <<log, rows, cursor, known, readModel, got>>
    BY <1>2, <1>a DEF BootstrapNextProjector, disk, worker, TypeOK
  <2>2. cursor[boot.p] = Len(log)
    <3>1. Len(log) <= cursor[boot.p] + boot.left /\ ~(boot.left > 0 /\ cursor[boot.p] < Len(log))
      BY <2>1 DEF AgreeInv, CaughtUp, Behind
    <3>2. cursor[boot.p] <= Len(log)
      BY <1>b, <2>1 DEF AgreeInv, GrowthInv, CursorsInLog
    <3> QED BY <1>b, <2>1, <3>1, <3>2
  <2>3. CaughtUp'
    BY <1>b, <2>1, <2>2 DEF AgreeInv, CaughtUp
  <2>4. \A s \in Subscribers : got'[s].events = << >>
    BY <2>1 DEF AgreeInv, SubscribersFollow
  <2> QED BY <2>1, <2>3, <2>4 DEF AgreeInv, RowsAreWhole, ReadModelFollows, SubscribersFollow
<1>3. CASE Serve
  <2>1. PICK q \in RequiredNow : readModel' = [rows |-> rows, seq |-> cursor[q]]
    BY <1>3 DEF Serve
  <2>2. /\ phase = "bootstrap" /\ phase' = "serving" /\ boot.p > known /\ pc' = "idle" /\ pc = "idle"
        /\ UNCHANGED <<log, rows, cursor, known, got>>
    BY <1>3, <1>a DEF Serve, disk, worker, TypeOK
  <2>3. \A p \in 1..known : cursor[p] = Len(log) /\ rows[p] = Upto(Len(log))
    BY <1>a, <1>b, <2>2 DEF AgreeInv, CaughtUp, RowsAreWhole, TypeOK
  <2>4. q \in 1..known
    BY DEF RequiredNow
  <2>5. CaughtUp' /\ RowsAreWhole'
    BY <2>2, <2>3 DEF AgreeInv, CaughtUp, RowsAreWhole
  <2>6. ReadModelFollows'
    BY <2>1, <2>2, <2>3, <2>4 DEF ReadModelFollows, Installed
  <2>7. \A s \in Subscribers : got'[s].events = << >>
    BY <2>2 DEF AgreeInv, SubscribersFollow
  <2> QED BY <2>2, <2>5, <2>6, <2>7 DEF AgreeInv, SubscribersFollow
<1>4. CASE Crash
  BY <1>4 DEF Crash, WorkerGone, disk, NotSubscribed, AgreeInv, RowsAreWhole, CaughtUp, ReadModelFollows, SubscribersFollow
<1>5. CASE Upgrade
  <2>1. /\ phase = "stopped" /\ phase' = "stopped" /\ pc = "idle" /\ pc' = "idle"
        /\ UNCHANGED <<rows, cursor, got>>
    BY <1>5, <1>a DEF Upgrade, memory, worker, TypeOK
  <2>2. \A s \in Subscribers : got'[s].events = << >>
    BY <2>1 DEF AgreeInv, SubscribersFollow
  <2> QED BY <2>1, <2>2 DEF AgreeInv, RowsAreWhole, CaughtUp, ReadModelFollows, SubscribersFollow
<1> QED
  BY <1>1, <1>2, <1>3, <1>4, <1>5

-----------------------------------------------------------------------------
LEMMA AgreeNext == AgreeInv /\ WithinOneRead /\ [Next]_vars => AgreeInv'
<1> SUFFICES ASSUME AgreeInv, WithinOneRead, [Next]_vars PROVE AgreeInv'
  OBVIOUS
<1>a. GrowthInv' /\ TypeOK /\ TypeOK'
  BY GrowthNext DEF AgreeInv, GrowthInv, SettleInv
<1> USE DEF disk, memory, worker, clients
<1>1. ASSUME NEW k \in Callers, NEW c \in Commands, Dispatch(k, c) PROVE AgreeInv'
  BY <1>1, <1>a, AgreeKept DEF Dispatch, Told, AgreeInv, ReadModelFollows, SubscribersFollow, RowsAreWhole, CaughtUp, Installed
<1>2. ASSUME NEW s \in Subscribers, Subscribe(s) PROVE AgreeInv'
  BY <1>2, <1>a DEF Subscribe, TypeOK, Told, AgreeInv, ReadModelFollows, SubscribersFollow, RowsAreWhole, CaughtUp, Installed
<1>3. CASE TakeCommand
  <2>1. startSequence' = Len(log)
    BY <1>3 DEF TakeCommand, AgreeInv, ReadModelFollows, Installed
  <2> QED BY <1>3, <1>a, <2>1, AgreeKept DEF TakeCommand, Told
<1>4. CASE AnswerFromReceipt \/ AnswerFailed
  BY <1>4, <1>a, AgreeKept DEF AnswerFromReceipt, AnswerFailed, Answer, Told
<1>5. CASE Decide
  BY <1>5, <1>a, AgreeKept DEF Decide, Told, AgreeInv, ReadModelFollows
<1>6. CASE DeciderRejects \/ SqlFails \/ NoEvents
  BY <1>6, <1>a, AgreeKept DEF DeciderRejects, SqlFails, NoEvents, Fail, Told, AgreeInv, ReadModelFollows
<1>7. CASE AppendEvent
  BY <1>7, <1>a, AgreeKept DEF AppendEvent, Told, AgreeInv, ReadModelFollows
<1>8. CASE Commit
  BY <1>8, <1>a, CommitAgrees
<1>9. CASE InstallReadModel
  BY <1>9, <1>a, InstallAgrees
<1>10. CASE PublishEvent
  BY <1>10, <1>a, PublishAgrees
<1>11. CASE AnswerAccepted
  <2>1. Told = Len(log) /\ Told' = Len(log)
    BY <1>11, <1>a, LenProperties DEF AnswerAccepted, Answer, Told, TypeOK
  <2> QED BY <1>11, <1>a, <2>1, AgreeKept DEF AnswerAccepted, Answer
<1>12. CASE Reconcile
  <2>1. ReadFrom(startSequence) = << >>
    BY <1>12, <1>a, NothingAfterTheEnd DEF Reconcile, TypeOK, AgreeInv, ReadModelFollows
  <2>2. UNCHANGED <<readModel, got>>
    BY <1>12, <2>1 DEF Reconcile
  <2> QED BY <1>12, <1>a, <2>2, AgreeKept DEF Reconcile, Told
<1>13. CASE ReconcileFails \/ RecordRejection \/ RecordRejectionFails
  BY <1>13, <1>a, AgreeKept DEF ReconcileFails, RecordRejection, RecordRejectionFails, Told
<1>14. CASE BootstrapEvent
  BY <1>14, <1>a, BootstrapAgrees
<1>15. CASE Start \/ BootstrapNextProjector \/ Serve \/ Crash \/ Upgrade
  BY <1>15, <1>a, StartUpAgrees
<1>16. CASE UNCHANGED vars
  BY <1>16, <1>a DEF vars, Told, AgreeInv, ReadModelFollows, SubscribersFollow, RowsAreWhole, CaughtUp, Installed, Consecutive
<1> QED
  BY <1>1, <1>2, <1>3, <1>4, <1>5, <1>6, <1>7, <1>8, <1>9, <1>10, <1>11, <1>12, <1>13, <1>14, <1>15, <1>16 DEF Next, WorkerStep, StartUp

LEMMA AgreeImplies ==
  ASSUME AgreeInv
  PROVE  ReadModelsAgree /\ StreamFollowsLog /\ BootstrapCatchesUp
<1>a. TypeOK
  BY DEF AgreeInv, GrowthInv, SettleInv
<1>b. known \in Nat /\ Len(log) \in Nat /\ todo \in Nat /\ published \in Nat /\ \A p \in 1..known : p \in Projectors
  BY <1>a, LenProperties, ConstantsAssumption DEF TypeOK, Projectors
<1>1. phase = "serving" => \A p \in 1..known : rows[p] = Upto(Len(log))
  BY <1>b DEF AgreeInv, CaughtUp, RowsAreWhole
<1>2. ReadModelsAgree
  BY <1>1 DEF ReadModelsAgree, AgreeInv, ReadModelFollows, Installed, RequiredNow
<1>3. BootstrapCatchesUp
  BY <1>1 DEF BootstrapCatchesUp
<1>4. ASSUME NEW s \in Subscribers, got[s].events # << >>
      PROVE  /\ \A i \in 1..Len(got[s].events) : got[s].events[i] = got[s].events[1] + i - 1
             /\ got[s].events[Len(got[s].events)] <= readModel.seq
             /\ pc = "idle" => got[s].events[Len(got[s].events)] = Len(log)
  <2>1. /\ phase = "serving" /\ Consecutive(got[s].events)
        /\ got[s].events[Len(got[s].events)] = Told
        /\ readModel.seq = Installed /\ (pc = "publish" => published <= todo)
    BY <1>4 DEF AgreeInv, SubscribersFollow, ReadModelFollows
  <2>2. Told <= Installed
    BY <1>a, <1>b, <2>1 DEF Told, Installed, TypeOK
  <2> QED BY <2>1, <2>2 DEF Consecutive, Told
<1> QED
  BY <1>2, <1>3, <1>4 DEF StreamFollowsLog

\* Between two commands the engine's read model, the rows of the projectors and
\* the log say the same, if no start finds a projector further behind than one read.
THEOREM ModelsAgree == Spec /\ []WithinOneRead => []ReadModelsAgree
  BY AgreeInit, AgreeNext, AgreeImplies, PTL DEF Spec

\* Subscribers receive the log without gap or repetition, under the same condition.
THEOREM StreamFollows == Spec /\ []WithinOneRead => []StreamFollowsLog
  BY AgreeInit, AgreeNext, AgreeImplies, PTL DEF Spec

\* A start-up replays all of the log, under the same condition: the limit of a
\* read is the only thing that keeps it from doing so.
THEOREM ReplayIsWhole == Spec /\ []WithinOneRead => []BootstrapCatchesUp
  BY AgreeInit, AgreeNext, AgreeImplies, PTL DEF Spec

-----------------------------------------------------------------------------
\* While the release is the one that was there first, its projectors are never behind.
NoneBehind == known = OldProjectors /\ \A p \in 1..known : cursor[p] = Len(log)

LEMMA NoneBehindNext ==
  ASSUME NumProjectors = OldProjectors, TypeOK, NoneBehind, [Next]_vars
  PROVE  NoneBehind'
<1> USE DEF disk, memory, worker, clients
<1>a. known \in Nat /\ Len(log) \in Nat /\ todo \in Nat /\ \A p \in 1..known : p \in Projectors
  BY LenProperties, ConstantsAssumption DEF TypeOK, Projectors
<1>1. CASE Commit
  <2>1. Len(log') = Len(log) + todo /\ known' = known
    BY <1>1, ConcatProperties DEF TypeOK, Commit
  <2> QED BY <1>1, <1>a, <2>1 DEF Commit, CursorAt, NoneBehind
<1>2. CASE BootstrapEvent
  <2>1. boot.p \in 1..known /\ cursor[boot.p] < Len(log)
    BY <1>2, <1>a DEF BootstrapEvent, Behind, TypeOK
  <2> QED BY <1>a, <2>1 DEF NoneBehind
<1>3. CASE Upgrade
  BY <1>3, <1>a DEF Upgrade, NoneBehind
<1>4. CASE UNCHANGED <<log, known, cursor>>
  BY <1>4 DEF NoneBehind
<1>5. Next /\ ~Commit /\ ~BootstrapEvent /\ ~Upgrade => UNCHANGED <<log, known, cursor>>
  BY DEF Next, WorkerStep, StartUp, Dispatch, Subscribe, TakeCommand, AnswerFromReceipt, Decide,
         DeciderRejects, SqlFails, AppendEvent, NoEvents, InstallReadModel, PublishEvent,
         AnswerAccepted, Reconcile, ReconcileFails, RecordRejection, RecordRejectionFails, AnswerFailed, Fail,
         Start, BootstrapNextProjector, Serve, Crash, WorkerGone
<1> QED
  BY <1>1, <1>2, <1>3, <1>4, <1>5 DEF vars

\* Without a release that brings new projectors, all of this holds after every
\* crash and for any ReadLimit.
THEOREM AgreesWithoutUpgrade ==
  ASSUME NumProjectors = OldProjectors
  PROVE  Spec => [](ReadModelsAgree /\ StreamFollowsLog /\ BootstrapCatchesUp)
<1>1. Init => NoneBehind
  <2>1. Init => \A p \in 1..OldProjectors : p \in Projectors
    BY ConstantsAssumption DEF Projectors
  <2> QED BY <2>1, EmptySeq DEF Init, NoneBehind
<1>2. TypeOK /\ NoneBehind /\ [Next]_vars => NoneBehind'
  BY NoneBehindNext
<1>3. TypeOK /\ NoneBehind => WithinOneRead
  <2> SUFFICES ASSUME TypeOK, NoneBehind, NEW p \in 1..known PROVE Len(log) <= cursor[p] + ReadLimit
    BY DEF WithinOneRead
  <2>1. cursor[p] = Len(log) /\ Len(log) \in Nat /\ ReadLimit \in Nat
    BY LenProperties, ConstantsAssumption DEF NoneBehind, TypeOK
  <2> QED BY <2>1
<1> QED
  BY <1>1, <1>2, <1>3, InitType, NextType, AgreeInit, AgreeNext, AgreeImplies, PTL DEF Spec
=============================================================================
