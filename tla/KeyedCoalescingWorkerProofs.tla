-------------------- MODULE KeyedCoalescingWorkerProofs --------------------
(***************************************************************************)
(* Type correctness of the keyed coalescing worker, the invariant that it  *)
(* forgets no key, what a drain promises, and the steps of CoalescingWork, *)
(* for all keys, values and callers.                                       *)
(***************************************************************************)
EXTENDS KeyedCoalescingWorker, SequenceTheorems, TLAPS

InQueue(q, k) == \E i \in 1..Len(q) : q[i] = k
Distinct(q) == \A i, j \in 1..Len(q) : q[i] = q[j] => i = j

\* A key enters at the end of the queue.
LEMMA Appended ==
  ASSUME NEW q \in Seq(Keys), NEW k \in Keys
  PROVE  /\ Append(q, k) \in Seq(Keys)
         /\ \A j \in Keys : InQueue(Append(q, k), j) <=> j = k \/ InQueue(q, j)
         /\ Distinct(q) /\ ~InQueue(q, k) => Distinct(Append(q, k))
  <1> DEFINE s == Append(q, k)
             n == Len(q)
  <1>1. s \in Seq(Keys) /\ n \in Nat /\ Len(s) = n + 1 /\ s[n + 1] = k
        /\ \A i \in 1..n : s[i] = q[i]
    BY AppendProperties, LenProperties
  <1> HIDE DEF s
  <1>2. \A i \in 1..(n + 1) : i \in 1..n \/ i = n + 1
    BY <1>1
  <1>3. \A i \in 1..n : i \in 1..(n + 1)
    BY <1>1
  <1>4. n + 1 \in 1..(n + 1)
    BY <1>1
  <1>5. \A j \in Keys : InQueue(s, j) <=> j = k \/ InQueue(q, j)
    BY <1>1, <1>2, <1>3, <1>4 DEF InQueue
  <1>6. ASSUME Distinct(q), ~InQueue(q, k) PROVE Distinct(s)
    <2> SUFFICES ASSUME NEW i \in 1..(n + 1), NEW j \in 1..(n + 1), s[i] = s[j]
                 PROVE  i = j
      BY <1>1 DEF Distinct
    <2> QED BY <1>1, <1>2, <1>6 DEF Distinct, InQueue
  <1> QED BY <1>1, <1>5, <1>6 DEF s

\* A key leaves at the front of the queue.
LEMMA Taken ==
  ASSUME NEW q \in Seq(Keys), q # << >>, Distinct(q)
  PROVE  /\ Tail(q) \in Seq(Keys) /\ Head(q) \in Keys
         /\ \A j \in Keys : InQueue(q, j) <=> j = Head(q) \/ InQueue(Tail(q), j)
         /\ Distinct(Tail(q)) /\ ~InQueue(Tail(q), Head(q))
  <1> DEFINE s == Tail(q)
             n == Len(s)
  <1>1. s \in Seq(Keys) /\ Head(q) \in Keys /\ n \in Nat /\ Len(q) = n + 1
        /\ q[1] = Head(q) /\ \A i \in 1..n : s[i] = q[i + 1]
    BY HeadTailProperties, LenProperties, EmptySeq
  <1> HIDE DEF s, n
  <1>2. \A i \in 1..(n + 1) : i = 1 \/ (i - 1 \in 1..n /\ i = (i - 1) + 1)
    BY <1>1
  <1>3. \A i \in 1..n : i + 1 \in 1..(n + 1) /\ i + 1 # 1
    BY <1>1
  <1>4. 1 \in 1..(n + 1)
    BY <1>1
  <1>5. Len(s) = n
    BY DEF n
  <1>6. \A j \in Keys : InQueue(q, j) <=> j = Head(q) \/ InQueue(s, j)
    <2> TAKE j \in Keys
    <2>1. ASSUME InQueue(q, j) PROVE j = Head(q) \/ InQueue(s, j)
      <3>1. PICK i \in 1..(n + 1) : q[i] = j
        BY <1>1, <2>1 DEF InQueue
      <3>2. CASE i = 1
        BY <1>1, <3>1, <3>2
      <3>3. CASE i - 1 \in 1..n /\ i = (i - 1) + 1
        <4>1. s[i - 1] = j
          BY <1>1, <3>1, <3>3
        <4> QED BY <1>5, <3>3, <4>1 DEF InQueue
      <3> QED BY <1>2, <3>2, <3>3
    <2>2. ASSUME InQueue(s, j) PROVE InQueue(q, j)
      <3>1. PICK i \in 1..n : s[i] = j
        BY <1>5, <2>2 DEF InQueue
      <3>2. q[i + 1] = j /\ i + 1 \in 1..Len(q)
        BY <1>1, <1>3, <3>1
      <3> QED BY <3>2 DEF InQueue
    <2>3. InQueue(q, Head(q))
      BY <1>1, <1>4 DEF InQueue
    <2> QED BY <2>1, <2>2, <2>3
  <1>7. Distinct(s)
    <2> SUFFICES ASSUME NEW i \in 1..n, NEW j \in 1..n, s[i] = s[j]
                 PROVE  i = j
      BY <1>5 DEF Distinct
    <2>1. q[i + 1] = q[j + 1] /\ i + 1 \in 1..Len(q) /\ j + 1 \in 1..Len(q)
      BY <1>1, <1>3
    <2>2. i + 1 = j + 1
      BY <2>1 DEF Distinct
    <2> QED BY <1>1, <2>2
  <1>8. ~InQueue(s, Head(q))
    <2> SUFFICES ASSUME NEW i \in 1..n, s[i] = Head(q) PROVE FALSE
      BY <1>5 DEF InQueue
    <2>1. q[i + 1] = q[1] /\ i + 1 \in 1..Len(q) /\ 1 \in 1..Len(q) /\ i + 1 # 1
      BY <1>1, <1>3, <1>4
    <2> QED BY <2>1 DEF Distinct
  <1> QED BY <1>1, <1>6, <1>7, <1>8 DEF s

-----------------------------------------------------------------------------
Inv == TypeOK /\ NothingIsForgotten

\* NothingIsForgotten in terms of InQueue and Distinct.
LEMMA Forgotten ==
  NothingIsForgotten <=>
    /\ Distinct(queue)
    /\ \A k \in Keys :
         /\ k \in queued <=> InQueue(queue, k) \/ (worker.key = k /\ worker.at \in {"taken", "requeue"})
         /\ k \in active <=> worker.key = k /\ worker.at \in {"busy", "failed"}
         /\ latest[k] # None => k \in queued \cup active
    /\ worker.at \in {"taken", "requeue"} => ~InQueue(queue, worker.key)
  BY DEF NothingIsForgotten, Distinct, InQueue

LEMMA ForgottenNext ==
  NothingIsForgotten' <=>
    /\ Distinct(queue')
    /\ \A k \in Keys :
         /\ k \in queued' <=> InQueue(queue', k) \/ (worker'.key = k /\ worker'.at \in {"taken", "requeue"})
         /\ k \in active' <=> worker'.key = k /\ worker'.at \in {"busy", "failed"}
         /\ latest'[k] # None => k \in queued' \cup active'
    /\ worker'.at \in {"taken", "requeue"} => ~InQueue(queue', worker'.key)
  BY DEF NothingIsForgotten, Distinct, InQueue

LEMMA WorkerInit == Init => Inv
  <1> SUFFICES ASSUME Init PROVE Inv
    OBVIOUS
  <1>1. queue \in Seq(Keys) /\ Len(queue) = 0
    BY EmptySeq DEF Init
  <1>2. TypeOK
    BY <1>1 DEF Init, TypeOK, Idle, Holds
  <1>3. \A i \in 1..Len(queue) : FALSE
    BY <1>1
  <1>4. NothingIsForgotten
    BY <1>3 DEF Init, NothingIsForgotten, Idle
  <1> QED BY <1>2, <1>4 DEF Inv

LEMMA EnqueueKeeps ==
  ASSUME Inv, NEW k \in Keys, NEW v \in Values, Enqueue(k, v)
  PROVE  Inv'
  <1>1. Newest(k, v) \in Values
    BY ValuesAssumption DEF Inv, TypeOK, Newest
  <1>2. latest' \in [Keys -> Values \cup {None}] /\ \A j \in Keys : j # k => latest'[j] = latest[j]
    BY <1>1 DEF Inv, TypeOK, Enqueue
  <1>3. CASE Due(k)
    <2>1. queued' = queued \cup {k} /\ queue' = Append(queue, k) /\ UNCHANGED <<active, worker, drains>>
      BY <1>3 DEF Enqueue
    <2>2. k \notin queued /\ k \notin active
      BY <1>3 DEF Due
    <2>3. ~InQueue(queue, k) /\ (worker.at \in {"taken", "requeue"} => worker.key # k)
      BY <2>2, Forgotten DEF Inv
    <2>4. queue' \in Seq(Keys) /\ Distinct(queue')
          /\ \A j \in Keys : InQueue(queue', j) <=> j = k \/ InQueue(queue, j)
      BY <2>1, <2>3, Appended, Forgotten DEF Inv, TypeOK
    <2>5. TypeOK'
      BY <1>2, <2>1, <2>4 DEF Inv, TypeOK
    <2>6. worker.at \in {"taken", "requeue"} => worker.key \in Keys
      BY DEF Inv, TypeOK
    <2>7. NothingIsForgotten'
      BY <1>2, <2>1, <2>3, <2>4, <2>6, Forgotten, ForgottenNext DEF Inv
    <2> QED BY <2>5, <2>7 DEF Inv
  <1>4. CASE ~Due(k)
    <2>1. UNCHANGED <<queued, queue, active, worker, drains>>
      BY <1>4 DEF Enqueue
    <2>2. TypeOK'
      BY <1>2, <2>1 DEF Inv, TypeOK
    <2>3. NothingIsForgotten'
      BY <1>2, <1>4, <2>1, Forgotten, ForgottenNext DEF Inv, Due
    <2> QED BY <2>2, <2>3 DEF Inv
  <1> QED BY <1>3, <1>4

LEMMA TakeKeeps ==
  ASSUME Inv, Take
  PROVE  Inv'
  <1> DEFINE k == Head(queue)
  <1>1. queue' = Tail(queue) /\ worker' = Holds(k, None, "taken") /\ worker.at = "idle" /\ UNCHANGED <<state, drains>>
    BY DEF Take
  <1>2. /\ queue' \in Seq(Keys) /\ k \in Keys /\ Distinct(queue') /\ ~InQueue(queue', k)
        /\ \A j \in Keys : InQueue(queue, j) <=> j = k \/ InQueue(queue', j)
    BY <1>1, Taken, Forgotten DEF Inv, TypeOK, Take
  <1> HIDE DEF k
  <1>3. worker'.key = k /\ worker'.at = "taken" /\ worker'.value = None
    BY <1>1 DEF Holds
  <1>4. TypeOK'
    BY <1>1, <1>2, <1>3 DEF Inv, TypeOK, state
  <1>5. NothingIsForgotten'
    BY <1>1, <1>2, <1>3, Forgotten, ForgottenNext DEF Inv, state
  <1> QED BY <1>4, <1>5 DEF Inv

LEMMA BeginKeeps ==
  ASSUME Inv, Begin
  PROVE  Inv'
  <1> DEFINE k == worker.key
  <1>1. k \in Keys /\ worker.at = "taken" /\ queued' = queued \ {k} /\ UNCHANGED <<queue, drains>>
    BY DEF Begin, Inv, TypeOK
  <1>2. CASE latest[k] = None
    <2>1. worker' = Idle /\ UNCHANGED <<latest, active>>
      BY <1>2 DEF Begin
    <2>2. worker'.at = "idle" /\ worker'.key = None /\ worker'.value = None
      BY <2>1 DEF Idle
    <2>3. TypeOK'
      BY <1>1, <2>1, <2>2 DEF Inv, TypeOK, Idle, Holds
    <2>4. NothingIsForgotten'
      BY <1>1, <1>2, <2>1, <2>2, Forgotten, ForgottenNext DEF Inv
    <2> QED BY <2>3, <2>4 DEF Inv
  <1>3. CASE latest[k] # None
    <2>1. worker' = Holds(k, latest[k], "busy") /\ active' = active \cup {k}
          /\ latest' = [latest EXCEPT ![k] = None]
      BY <1>3 DEF Begin, ActiveWith
    <2>2. worker'.at = "busy" /\ worker'.key = k /\ worker'.value = latest[k] /\ latest[k] \in Values
      BY <1>1, <1>3, <2>1 DEF Holds, Inv, TypeOK
    <2>3. latest' \in [Keys -> Values \cup {None}] /\ latest'[k] = None
          /\ \A j \in Keys : j # k => latest'[j] = latest[j]
      BY <1>1, <2>1 DEF Inv, TypeOK
    <2>4. TypeOK'
      BY <1>1, <2>1, <2>2, <2>3 DEF Inv, TypeOK
    <2>5. NothingIsForgotten'
      BY <1>1, <2>1, <2>2, <2>3, Forgotten, ForgottenNext DEF Inv
    <2> QED BY <2>4, <2>5 DEF Inv
  <1> QED BY <1>2, <1>3

LEMMA SucceedKeeps ==
  ASSUME Inv, Succeed
  PROVE  Inv'
  <1> DEFINE k == worker.key
  <1>1. k \in Keys /\ worker.at = "busy" /\ UNCHANGED <<queued, queue, drains>>
    BY DEF Succeed, Inv, TypeOK
  <1>2. CASE latest[k] = None
    <2>1. worker' = Idle /\ active' = active \ {k} /\ UNCHANGED latest
      BY <1>2 DEF Succeed, GoesOn
    <2>2. worker'.at = "idle" /\ worker'.key = None /\ worker'.value = None
      BY <2>1 DEF Idle
    <2>3. TypeOK'
      BY <1>1, <2>1, <2>2 DEF Inv, TypeOK, Idle, Holds
    <2>4. NothingIsForgotten'
      BY <1>1, <1>2, <2>1, <2>2, Forgotten, ForgottenNext DEF Inv
    <2> QED BY <2>3, <2>4 DEF Inv
  <1>3. CASE latest[k] # None
    <2>1. worker' = Holds(k, latest[k], "busy") /\ UNCHANGED active
          /\ latest' = [latest EXCEPT ![k] = None]
      BY <1>3 DEF Succeed, GoesOn
    <2>2. worker'.at = "busy" /\ worker'.key = k /\ worker'.value = latest[k] /\ latest[k] \in Values
      BY <1>1, <1>3, <2>1 DEF Holds, Inv, TypeOK
    <2>3. latest' \in [Keys -> Values \cup {None}] /\ latest'[k] = None
          /\ \A j \in Keys : j # k => latest'[j] = latest[j]
      BY <1>1, <2>1 DEF Inv, TypeOK
    <2>4. TypeOK'
      BY <1>1, <2>1, <2>2, <2>3 DEF Inv, TypeOK
    <2>5. NothingIsForgotten'
      BY <1>1, <2>1, <2>2, <2>3, Forgotten, ForgottenNext DEF Inv
    <2> QED BY <2>4, <2>5 DEF Inv
  <1> QED BY <1>2, <1>3

LEMMA FailKeeps ==
  ASSUME Inv, Fail
  PROVE  Inv'
  <1>1. worker.key \in Keys /\ worker.at = "busy" /\ worker' = Holds(worker.key, None, "failed")
        /\ UNCHANGED <<state, queue, drains>>
    BY DEF Fail, Inv, TypeOK
  <1>2. worker'.at = "failed" /\ worker'.key = worker.key /\ worker'.value = None
    BY <1>1 DEF Holds
  <1>3. TypeOK'
    BY <1>1, <1>2 DEF Inv, TypeOK, state
  <1>4. NothingIsForgotten'
    BY <1>1, <1>2, Forgotten, ForgottenNext DEF Inv, state
  <1> QED BY <1>3, <1>4 DEF Inv

LEMMA CleanupKeeps ==
  ASSUME Inv, Cleanup
  PROVE  Inv'
  <1> DEFINE k == worker.key
  <1>1. k \in Keys /\ worker.at = "failed" /\ active' = active \ {k} /\ UNCHANGED <<latest, queue, drains>>
    BY DEF Cleanup, Inv, TypeOK
  <1>2. CASE Requeues(k)
    <2>1. queued' = queued \cup {k} /\ worker' = Holds(k, None, "requeue") /\ k \notin queued
      BY <1>2 DEF Cleanup, Requeues
    <2>2. worker'.at = "requeue" /\ worker'.key = k /\ worker'.value = None
      BY <2>1 DEF Holds
    <2>3. TypeOK'
      BY <1>1, <2>1, <2>2 DEF Inv, TypeOK
    <2>4. NothingIsForgotten'
      BY <1>1, <2>1, <2>2, Forgotten, ForgottenNext DEF Inv
    <2> QED BY <2>3, <2>4 DEF Inv
  <1>3. CASE ~Requeues(k)
    <2>1. worker' = Idle /\ UNCHANGED queued
      BY <1>3 DEF Cleanup
    <2>2. worker'.at = "idle" /\ worker'.key = None /\ worker'.value = None
      BY <2>1 DEF Idle
    <2>3. TypeOK'
      BY <1>1, <2>1, <2>2 DEF Inv, TypeOK, Idle, Holds
    <2>4. NothingIsForgotten'
      BY <1>1, <1>3, <2>1, <2>2, Forgotten, ForgottenNext DEF Inv, Requeues
    <2> QED BY <2>3, <2>4 DEF Inv
  <1> QED BY <1>2, <1>3

LEMMA RequeueKeeps ==
  ASSUME Inv, Requeue
  PROVE  Inv'
  <1> DEFINE k == worker.key
  <1>1. k \in Keys /\ worker.at = "requeue" /\ queue' = Append(queue, k) /\ worker' = Idle
        /\ UNCHANGED <<state, drains>>
    BY DEF Requeue, Inv, TypeOK
  <1>2. ~InQueue(queue, k) /\ Distinct(queue) /\ queue \in Seq(Keys)
    BY <1>1, Forgotten DEF Inv, TypeOK
  <1>3. queue' \in Seq(Keys) /\ Distinct(queue')
        /\ \A j \in Keys : InQueue(queue', j) <=> j = k \/ InQueue(queue, j)
    BY <1>1, <1>2, Appended
  <1>4. worker'.at = "idle" /\ worker'.key = None /\ worker'.value = None
    BY <1>1 DEF Idle
  <1>5. TypeOK'
    BY <1>1, <1>3, <1>4 DEF Inv, TypeOK, state, Idle, Holds
  <1>6. NothingIsForgotten'
    BY <1>1, <1>3, <1>4, Forgotten, ForgottenNext DEF Inv, state
  <1> QED BY <1>5, <1>6 DEF Inv

LEMMA WorkerNext ==
  ASSUME Inv, [Next]_vars
  PROVE  Inv'
  <1>1. ASSUME NEW c \in Callers, NEW k \in Keys, Drain(c, k) PROVE Inv'
    BY <1>1 DEF Inv, TypeOK, NothingIsForgotten, Drain, state
  <1>2. ASSUME NEW c \in Callers, DrainReturns(c) PROVE Inv'
    BY <1>2 DEF Inv, TypeOK, NothingIsForgotten, DrainReturns, state
  <1>3. CASE UNCHANGED vars
    BY <1>3 DEF Inv, TypeOK, NothingIsForgotten, vars, state
  <1> QED BY <1>1, <1>2, <1>3, EnqueueKeeps, TakeKeeps, BeginKeeps, SucceedKeeps, FailKeeps,
             CleanupKeeps, RequeueKeeps DEF Next, Work

\* Every variable keeps its type, and a fiber that is not idle holds a key.
THEOREM WorkerTypeCorrect == Spec => []TypeOK
  <1>1. Inv => TypeOK
    BY DEF Inv
  <1> QED BY <1>1, WorkerInit, WorkerNext, PTL DEF Spec

\* No key is queued twice, none with a value is forgotten, and the sets the
\* worker decides by agree with its queue and its fiber.
THEOREM NothingForgotten == Spec => []NothingIsForgotten
  <1>1. Inv => NothingIsForgotten
    BY DEF Inv
  <1> QED BY <1>1, WorkerInit, WorkerNext, PTL DEF Spec

-----------------------------------------------------------------------------
\* Only DrainReturns ends a wait, and it finds the key in none of the sets.
LEMMA DrainedStepHolds ==
  ASSUME Inv, [Next]_vars
  PROVE  DrainedStep
  <1> SUFFICES ASSUME NEW c \in Callers, drains[c] # None, drains'[c] = None
               PROVE  worker.key # drains[c] /\ ~InQueue(queue, drains[c])
    BY DEF DrainedStep, InQueue
  <1>1. drains[c] \in Keys
    BY DEF Inv, TypeOK
  <1>2. ASSUME NEW d \in Callers, NEW k \in Keys, Drain(d, k) PROVE FALSE
    BY <1>2 DEF Drain, Inv, TypeOK
  <1>3. PICK d \in Callers : DrainReturns(d)
    BY <1>2 DEF Next, Work, Enqueue, Take, Begin, Succeed, Fail, Cleanup, Requeue, vars
  <1>4. d = c
    BY <1>3 DEF DrainReturns, Inv, TypeOK
  <1>5. drains[c] \notin queued /\ drains[c] \notin active
    BY <1>3, <1>4 DEF DrainReturns, Quiet
  <1>6. ~InQueue(queue, drains[c])
    BY <1>1, <1>5, Forgotten DEF Inv
  <1>7. worker.key = drains[c] => worker.at \notin {"taken", "requeue", "busy", "failed"}
    BY <1>1, <1>5, Forgotten DEF Inv
  <1>8. worker.at = "idle" => worker.key = None
    BY DEF Inv, TypeOK, Idle
  <1> QED BY <1>6, <1>7, <1>8 DEF Inv, TypeOK

\* A drain returns only when neither the queue nor the fiber holds its key.
THEOREM DrainsAreIdle == Spec => DrainedIsIdle
  <1>1. Inv /\ [Next]_vars => [DrainedStep]_vars
    BY DrainedStepHolds
  <1> QED BY <1>1, WorkerInit, WorkerNext, PTL DEF Spec, DrainedIsIdle

-----------------------------------------------------------------------------
\* Every step of the worker is a step of CoalescingWork or changes nothing
\* that CoalescingWork sees.
LEMMA WorkStep ==
  ASSUME Inv, [Next]_vars
  PROVE  [Promise!Next]_(Promise!work)
  <1> DEFINE doing == IF worker.at = "busy" THEN <<worker.key, worker.value>> ELSE << >>
  <1>1. ASSUME NEW k \in Keys, NEW v \in Values, Enqueue(k, v)
        PROVE  Promise!Submit(k, v)
    <2>1. latest' = [latest EXCEPT ![k] = IF latest[k] = None THEN v ELSE Merge(latest[k], v)]
      BY <1>1 DEF Enqueue, Newest
    <2>2. worker' = worker
      BY <1>1 DEF Enqueue
    <2> QED BY <2>1, <2>2 DEF Promise!Submit
  <1>2. CASE Begin
    <2> DEFINE k == worker.key
    <2>1. k \in Keys /\ worker.at = "taken"
      BY <1>2 DEF Begin, Inv, TypeOK
    <2>2. CASE latest[k] = None
      BY <1>2, <2>1, <2>2 DEF Begin, Idle, Promise!work
    <2>3. CASE latest[k] # None
      <3>1. worker' = Holds(k, latest[k], "busy") /\ latest' = [latest EXCEPT ![k] = None]
        BY <1>2, <2>3 DEF Begin
      <3>2. doing = << >> /\ doing' = <<k, latest[k]>>
        BY <2>1, <3>1 DEF Holds
      <3>3. Promise!Start(k)
        BY <2>3, <3>1, <3>2 DEF Promise!Start
      <3> QED BY <2>1, <3>3 DEF Promise!Next, Promise!Step
    <2> QED BY <2>2, <2>3
  <1>3. CASE Succeed
    <2> DEFINE k == worker.key
    <2>1. k \in Keys /\ worker.at = "busy" /\ doing = <<k, worker.value>>
      BY <1>3 DEF Succeed, Inv, TypeOK
    <2>2. doing # << >> /\ doing[1] = k
      BY <2>1
    <2>3. CASE latest[k] = None
      <3>1. worker' = Idle /\ latest' = latest
        BY <1>3, <2>3 DEF Succeed, GoesOn
      <3>2. doing' = << >>
        BY <3>1 DEF Idle
      <3>3. Promise!Finish
        BY <2>2, <3>1, <3>2 DEF Promise!Finish
      <3> QED BY <3>3 DEF Promise!Next, Promise!Step
    <2>4. CASE latest[k] # None
      <3>1. worker' = Holds(k, latest[k], "busy") /\ latest' = [latest EXCEPT ![k] = None]
        BY <1>3, <2>4 DEF Succeed, GoesOn
      <3>2. doing' = <<k, latest[k]>>
        BY <3>1 DEF Holds
      <3>3. Promise!GoOn
        BY <2>2, <2>4, <3>1, <3>2 DEF Promise!GoOn
      <3> QED BY <3>3 DEF Promise!Next, Promise!Step
    <2> QED BY <2>3, <2>4
  <1>4. CASE Fail
    <2>1. doing # << >> /\ doing' = << >> /\ latest' = latest
      BY <1>4 DEF Fail, Holds, state
    <2>2. Promise!Finish
      BY <2>1 DEF Promise!Finish
    <2> QED BY <2>2 DEF Promise!Next, Promise!Step
  <1>5. CASE Take \/ Cleanup \/ Requeue
    <2>1. worker.at # "busy" /\ worker'.at # "busy" /\ latest' = latest
      BY <1>5 DEF Take, Cleanup, Requeue, Holds, Idle, state
    <2> QED BY <2>1 DEF Promise!work
  <1>6. ASSUME NEW c \in Callers, (\E k \in Keys : Drain(c, k)) \/ DrainReturns(c)
        PROVE  UNCHANGED Promise!work
    BY <1>6 DEF Drain, DrainReturns, state, Promise!work
  <1>7. CASE UNCHANGED vars
    BY <1>7 DEF vars, state, Promise!work
  <1> QED BY <1>1, <1>2, <1>3, <1>4, <1>5, <1>6, <1>7 DEF Next, Work, Promise!Next

\* The queue, the three sets and the steps of the fiber implement
\* CoalescingWork: every value that is worked on was handed over and merged.
THEOREM WorkerImplementsCoalescingWork == Spec => Promise!Spec
  <1>1. Init => Promise!Init
    BY DEF Init, Promise!Init, Idle
  <1> QED BY <1>1, WorkerInit, WorkerNext, WorkStep, PTL DEF Spec, Promise!Spec
=============================================================================
