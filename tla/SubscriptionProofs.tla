------------------------ MODULE SubscriptionProofs -------------------------
(***************************************************************************)
(* Two streams to a browser, and proofs of what it shows: ShellShowsTheRows *)
(* of ShellSubscription, for every set of threads and every number of      *)
(* events and faults, and ViewersShowTheCache of VcsStatusBroadcaster, for *)
(* every set of viewers, of fibers that refresh and of statuses.           *)
(***************************************************************************)
EXTENDS ShellSubscription, VcsStatusBroadcaster, SequenceTheorems, TLAPS

Event == [thread : Threads, removes : BOOLEAN]

TypeOK ==
  /\ log \in Seq(Event)
  /\ row \in [Threads -> Nat] /\ view \in [Threads -> Nat]
  /\ version = [sequence |-> version.sequence, updatedAt |-> version.updatedAt]
  /\ missed \subseteq Threads

\* How far each of them is.
Counted ==
  /\ version.sequence \in Int /\ version.sequence <= Len(log)
  /\ published \in Nat /\ published <= Len(log)
  /\ next \in Nat /\ next > 0 /\ next <= published + 1
  /\ snapshot \in Nat /\ snapshot <= Len(log)
  /\ subscription = "loaded" => snapshot <= version.sequence

\* A thread that is there has its last event for a row.
RowIsLast(t) ==
  row[t] # 0 =>
    /\ row[t] \in 1..Len(log) /\ log[row[t]].thread = t /\ ~log[row[t]].removes
    /\ \A e \in 1..Len(log) : log[e].thread = t => e <= row[t]

\* The browser can still be told of an event: it would not skip it, and the
\* live stream, if there is one, has not passed it.
Pending(e) ==
  /\ e \in 1..Len(log) /\ e > version.sequence
  /\ subscription = "live" => e >= next

\* A thread that is shown as it was has its row, or its removal, to come.
ToldOrPending(t) ==
  t \notin missed =>
    \/ view[t] = row[t]
    \/ row[t] # 0 /\ Pending(row[t])
    \/ row[t] = 0 /\ \E e \in 1..Len(log) : Pending(e) /\ log[e].thread = t /\ log[e].removes

Rows == \A t \in Threads : RowIsLast(t)
Told == \A t \in Threads : ToldOrPending(t)
IInv == TypeOK /\ Counted /\ Rows /\ Told

-----------------------------------------------------------------------------
LEMMA InitEstablishes == ShellInit => IInv
<1> SUFFICES ASSUME ShellInit PROVE IInv
  OBVIOUS
<1>1. log \in Seq(Event) /\ Len(log) = 0
  BY EmptySeq DEF ShellInit
<1>2. version.sequence = -1 /\ version = [sequence |-> version.sequence, updatedAt |-> version.updatedAt]
  BY DEF ShellInit
<1>3. TypeOK
  BY <1>1, <1>2 DEF ShellInit, TypeOK
<1>4. Counted
  BY <1>1, <1>2 DEF ShellInit, Counted
<1>5. Rows /\ Told
  BY DEF ShellInit, Rows, RowIsLast, Told, ToldOrPending
<1> QED
  BY <1>3, <1>4, <1>5 DEF IInv

\* What changes neither the log, the rows nor the browser keeps the rest, if
\* no event ceases to be pending.
LEMMA QuietSteps ==
  ASSUME IInv, UNCHANGED <<log, row, version, view>>, missed' \subseteq Threads, missed \subseteq missed',
         Counted',
         \A e \in 1..Len(log) : Pending(e) => Pending(e)' \/ log[e].thread \in missed'
  PROVE  IInv'
<1>1. TypeOK'
  BY DEF IInv, TypeOK
<1>2. Rows'
  BY DEF IInv, Rows, RowIsLast
<1>3. ASSUME NEW t \in Threads PROVE ToldOrPending(t)'
  <2> SUFFICES ASSUME t \notin missed' PROVE ToldOrPending(t)'
    BY DEF ToldOrPending
  <2>1. ToldOrPending(t) /\ t \notin missed /\ RowIsLast(t)
    BY DEF IInv, Told, Rows
  <2>2. CASE view[t] = row[t]
    BY <2>2 DEF ToldOrPending
  <2>3. CASE row[t] # 0 /\ Pending(row[t])
    <3>1. row[t] \in 1..Len(log) /\ log[row[t]].thread = t
      BY <2>1, <2>3 DEF RowIsLast
    <3>2. Pending(row[t])'
      BY <2>3, <3>1
    <3> QED
      BY <2>3, <3>2 DEF ToldOrPending
  <2>4. CASE row[t] = 0 /\ \E e \in 1..Len(log) : Pending(e) /\ log[e].thread = t /\ log[e].removes
    <3>1. PICK e \in 1..Len(log) : Pending(e) /\ log[e].thread = t /\ log[e].removes
      BY <2>4
    <3>2. Pending(e)'
      BY <3>1
    <3> QED
      BY <2>4, <3>1, <3>2 DEF ToldOrPending
  <2> QED
    BY <2>1, <2>2, <2>3, <2>4 DEF ToldOrPending
<1> QED
  BY <1>1, <1>2, <1>3 DEF IInv, Told

-----------------------------------------------------------------------------
LEMMA CommitKeeps ==
  ASSUME IInv, NEW t \in Threads, NEW removes \in BOOLEAN, NEW lists \in BOOLEAN, NEW time,
         Commit(t, removes, lists, time)
  PROVE  IInv'
<1> DEFINE n == Len(log) + 1
           new == [thread |-> t, removes |-> removes]
<1>1. log \in Seq(Event) /\ new \in Event /\ Len(log) \in Nat
  BY DEF IInv, TypeOK, Event
<1>2. /\ log' \in Seq(Event) /\ Len(log') = n /\ log'[n] = new
      /\ \A e \in 1..Len(log) : log'[e] = log[e]
  <2>1. log' = Append(log, new)
    BY DEF Commit
  <2> QED
    BY <1>1, <2>1, AppendProperties
<1>3. row' \in [Threads -> Nat] /\ row'[t] = (IF removes \/ (row[t] = 0 /\ ~lists) THEN 0 ELSE n)
      /\ \A u \in Threads \ {t} : row'[u] = row[u]
  BY <1>1 DEF IInv, TypeOK, Commit
<1>4. UNCHANGED <<published, subscription, snapshot, next, version, view, missed>>
  BY DEF Commit, browser
<1>5. TypeOK'
  BY <1>2, <1>3, <1>4 DEF IInv, TypeOK
<1>6. Counted'
  BY <1>1, <1>2, <1>4 DEF IInv, Counted
<1>7. \A e \in 1..Len(log) : Pending(e) => Pending(e)'
  BY <1>1, <1>2, <1>4 DEF Pending
<1>8. Pending(Len(log))'
  <2>1. n \in 1..Len(log') /\ n > version'.sequence /\ n >= next'
    BY <1>1, <1>2, <1>4 DEF IInv, Counted
  <2> QED
    BY <1>2, <2>1 DEF Pending
<1>9. ASSUME NEW u \in Threads PROVE RowIsLast(u)'
  <2>1. RowIsLast(u)
    BY DEF IInv, Rows
  <2>2. CASE u = t
    BY <1>1, <1>2, <1>3, <2>2 DEF RowIsLast
  <2>3. CASE u # t
    <3>1. row'[u] = row[u] /\ log'[n].thread # u
      BY <1>2, <1>3, <2>3
    <3> QED
      BY <1>1, <1>2, <2>1, <3>1 DEF RowIsLast
  <2> QED
    BY <2>2, <2>3
<1>10. ASSUME NEW u \in Threads PROVE ToldOrPending(u)'
  <2> SUFFICES ASSUME u \notin missed' PROVE ToldOrPending(u)'
    BY DEF ToldOrPending
  <2>1. ToldOrPending(u) /\ u \notin missed /\ RowIsLast(u)
    BY <1>4 DEF IInv, Told, Rows
  <2>2. CASE u = t /\ row'[t] # 0
    BY <1>1, <1>2, <1>3, <1>8, <2>2 DEF ToldOrPending
  <2>3. CASE u = t /\ removes
    <3>1. row'[t] = 0 /\ n \in 1..Len(log') /\ log'[n].thread = t /\ log'[n].removes
      BY <1>1, <1>2, <1>3, <2>3
    <3> QED
      BY <1>2, <1>8, <2>3, <3>1 DEF ToldOrPending
  <2>4. CASE row'[u] = row[u]
    <3>1. CASE view[u] = row[u]
      BY <1>4, <2>4, <3>1 DEF ToldOrPending
    <3>2. CASE row[u] # 0 /\ Pending(row[u])
      BY <1>7, <2>1, <2>4, <3>2 DEF ToldOrPending, RowIsLast
    <3>3. CASE row[u] = 0 /\ \E e \in 1..Len(log) : Pending(e) /\ log[e].thread = u /\ log[e].removes
      <4>1. PICK e \in 1..Len(log) : Pending(e) /\ log[e].thread = u /\ log[e].removes
        BY <3>3
      <4>2. e \in 1..Len(log') /\ Pending(e)' /\ log'[e].thread = u /\ log'[e].removes
        BY <1>1, <1>2, <1>7, <4>1
      <4> QED
        BY <2>4, <3>3, <4>2 DEF ToldOrPending
    <3> QED
      BY <2>1, <3>1, <3>2, <3>3 DEF ToldOrPending
  <2>5. (u = t /\ row'[t] # 0) \/ (u = t /\ removes) \/ row'[u] = row[u]
    <3>1. CASE u = t /\ ~removes /\ row[t] = 0 /\ ~lists
      BY <1>3, <3>1
    <3>2. CASE u = t /\ ~(removes \/ (row[t] = 0 /\ ~lists))
      BY <1>1, <1>3, <3>2
    <3> QED
      BY <1>3, <3>1, <3>2
  <2> QED
    BY <2>2, <2>3, <2>4, <2>5
<1> QED
  BY <1>5, <1>6, <1>9, <1>10 DEF IInv, Rows, Told

LEMMA PublishKeeps == ASSUME IInv, Publish PROVE IInv'
<1>1. UNCHANGED <<log, row, subscription, snapshot, next, version, view, missed>>
      /\ published' = published + 1 /\ published < Len(log)
  BY DEF Publish, browser
<1>2. Len(log) \in Nat
  BY DEF IInv, TypeOK
<1>3. Counted'
  BY <1>1, <1>2 DEF IInv, Counted
<1>4. \A e \in 1..Len(log) : Pending(e) => Pending(e)'
  BY <1>1 DEF Pending
<1>5. missed \subseteq Threads
  BY DEF IInv, TypeOK
<1> QED
  BY <1>1, <1>3, <1>4, <1>5, QuietSteps

-----------------------------------------------------------------------------
LEMMA LoadSnapshotKeeps == ASSUME IInv, LoadSnapshot PROVE IInv'
<1>1. UNCHANGED <<log, row, published, next>> /\ snapshot' = Len(log)
      /\ subscription = "closed" /\ subscription' = "loaded" /\ syncShellSnapshot
  BY DEF LoadSnapshot, server
<1>2. Len(log) \in Nat
  BY DEF IInv, TypeOK
<1>3. CASE shouldApplyProjectionSnapshot(Len(log), stamp)
  <2>1. /\ version' = [sequence |-> Len(log), updatedAt |-> stamp]
        /\ view' = row /\ missed' = {}
    BY <1>1, <1>3 DEF syncShellSnapshot
  <2>2. version'.sequence = Len(log)
        /\ version' = [sequence |-> version'.sequence, updatedAt |-> version'.updatedAt]
    BY <2>1
  <2>3. TypeOK'
    BY <1>1, <2>1, <2>2 DEF IInv, TypeOK
  <2>4. Counted'
    BY <1>1, <1>2, <2>2 DEF IInv, Counted
  <2>5. Rows'
    BY <1>1 DEF IInv, Rows, RowIsLast
  <2>6. Told'
    BY <1>1, <2>1 DEF Told, ToldOrPending
  <2> QED
    BY <2>3, <2>4, <2>5, <2>6 DEF IInv
<1>4. CASE ~shouldApplyProjectionSnapshot(Len(log), stamp)
  <2>1. UNCHANGED <<version, view, missed>>
    BY <1>1, <1>4 DEF syncShellSnapshot, browser
  <2>2. ~(version.sequence < Len(log))
    BY <1>4 DEF shouldApplyProjectionSnapshot
  <2>3. Counted'
    BY <1>1, <1>2, <2>1, <2>2 DEF IInv, Counted
  <2>4. \A e \in 1..Len(log) : Pending(e) => Pending(e)'
    BY <1>1, <2>1 DEF Pending
  <2>5. missed \subseteq Threads
    BY DEF IInv, TypeOK
  <2> QED
    BY <1>1, <2>1, <2>3, <2>4, <2>5, QuietSteps
<1> QED
  BY <1>3, <1>4

LEMMA GoLiveKeeps == ASSUME IInv, GoLive PROVE IInv'
<1> DEFINE passed == {log[e].thread : e \in (snapshot + 1)..published}
<1>1. UNCHANGED <<log, row, published, snapshot, version, view>>
      /\ subscription = "loaded" /\ subscription' = "live" /\ next' = published + 1
      /\ missed' = missed \cup passed
  BY DEF GoLive, server, browser
<1>2. log \in Seq(Event) /\ Len(log) \in Nat /\ missed \subseteq Threads
  BY DEF IInv, TypeOK
<1>3. snapshot \in Nat /\ published \in Nat /\ published <= Len(log) /\ snapshot <= version.sequence
      /\ version.sequence \in Int
  BY <1>1 DEF IInv, Counted
<1>4. passed \subseteq Threads
  <2>1. \A e \in (snapshot + 1)..published : e \in 1..Len(log)
    BY <1>2, <1>3
  <2>2. \A e \in 1..Len(log) : log[e] \in Event
    BY <1>2, ElementOfSeq
  <2> QED
    BY <2>1, <2>2 DEF Event
<1>5. Counted'
  BY <1>1, <1>2 DEF IInv, Counted
<1>6. ASSUME NEW e \in 1..Len(log), Pending(e) PROVE Pending(e)' \/ log[e].thread \in missed'
  <2>1. e > version.sequence
    BY <1>6 DEF Pending
  <2>2. CASE e <= published
    <3>1. e \in (snapshot + 1)..published
      BY <1>2, <1>3, <2>1, <2>2
    <3> QED
      BY <1>1, <3>1
  <2>3. CASE e > published
    BY <1>1, <1>3, <2>1, <2>3 DEF Pending
  <2> QED
    BY <1>2, <1>3, <2>2, <2>3
<1> HIDE DEF passed
<1> QED
  BY <1>1, <1>2, <1>4, <1>5, <1>6, QuietSteps

-----------------------------------------------------------------------------
\* An event the browser is sent with what is the row of its thread, if the
\* thread is there, or a removal.
LEMMA AppliedKeeps ==
  ASSUME IInv, NEW r \in Nat,
         subscription = "live", next <= published, next' = next + 1,
         UNCHANGED <<server, subscription, snapshot>>,
         NEW t \in Threads, t = log[next].thread,
         applyShellEvent(next, t, r),
         r = row[t] \/ (r = 0 /\ log[next].removes)
  PROVE  IInv'
<1>1. UNCHANGED <<log, row, published, snapshot, subscription>>
  BY DEF server
<1>2. Len(log) \in Nat /\ published \in Nat /\ published <= Len(log) /\ next \in Nat /\ next > 0
      /\ version.sequence \in Int /\ version.sequence <= Len(log)
  BY DEF IInv, TypeOK, Counted
<1>3. next \in 1..Len(log)
  BY <1>2
<1>4. CASE ~shouldApplyProjectionEvent(next)
  <2>1. UNCHANGED <<version, view, missed>>
    BY <1>4 DEF applyShellEvent, browser
  <2>2. next <= version.sequence
    BY <1>2, <1>4 DEF shouldApplyProjectionEvent
  <2>3. Counted'
    BY <1>1, <1>2, <2>1 DEF IInv, Counted
  <2>4. \A e \in 1..Len(log) : Pending(e) => Pending(e)'
    BY <1>1, <1>2, <2>1, <2>2 DEF Pending
  <2>5. missed \subseteq Threads
    BY DEF IInv, TypeOK
  <2> QED
    BY <1>1, <2>1, <2>3, <2>4, <2>5, QuietSteps
<1>5. CASE shouldApplyProjectionEvent(next)
  <2>1. /\ version' = [version EXCEPT !.sequence = next]
        /\ view' = [view EXCEPT ![t] = r] /\ missed' = missed \ {t}
    BY <1>5 DEF applyShellEvent
  <2>2. version.sequence < next
    BY <1>5 DEF shouldApplyProjectionEvent
  <2>3. version'.sequence = next
        /\ version' = [sequence |-> version'.sequence, updatedAt |-> version'.updatedAt]
    BY <2>1 DEF IInv, TypeOK
  <2>4. view' \in [Threads -> Nat] /\ view'[t] = r /\ \A u \in Threads \ {t} : view'[u] = view[u]
    BY <2>1 DEF IInv, TypeOK
  <2>5. TypeOK'
    BY <1>1, <2>1, <2>3, <2>4 DEF IInv, TypeOK
  <2>6. Counted'
    BY <1>1, <1>2, <2>3 DEF IInv, Counted
  <2>7. Rows'
    BY <1>1 DEF IInv, Rows, RowIsLast
  <2>8. \A e \in 1..Len(log) : Pending(e) /\ e # next => Pending(e)'
    BY <1>1, <1>2, <2>3 DEF Pending
  <2>9. ASSUME NEW u \in Threads PROVE ToldOrPending(u)'
    <3>1. RowIsLast(u)
      BY DEF IInv, Rows
    <3>2. CASE u = t /\ r = row[t]
      BY <1>1, <2>4, <3>2 DEF ToldOrPending
    <3>3. CASE u = t /\ r # row[t]
      <4>1. log[next].removes /\ row[t] # 0
        BY <3>3
      <4>2. row[t] \in 1..Len(log) /\ ~log[row[t]].removes /\ next <= row[t]
        BY <1>3, <3>1, <3>3, <4>1 DEF RowIsLast
      <4>3. next < row[t]
        BY <1>2, <4>1, <4>2
      <4>4. Pending(row[t])'
        BY <1>1, <1>2, <2>3, <4>2, <4>3 DEF Pending
      <4> QED
        BY <1>1, <3>3, <4>1, <4>4 DEF ToldOrPending
    <3>4. CASE u # t
      <4> SUFFICES ASSUME u \notin missed' PROVE ToldOrPending(u)'
        BY DEF ToldOrPending
      <4>1. ToldOrPending(u) /\ u \notin missed
        BY <2>1, <3>4 DEF IInv, Told
      <4>2. CASE view[u] = row[u]
        BY <1>1, <2>4, <3>4, <4>2 DEF ToldOrPending
      <4>3. CASE row[u] # 0 /\ Pending(row[u])
        <5>1. row[u] \in 1..Len(log) /\ row[u] # next
          BY <3>1, <3>4, <4>3 DEF RowIsLast
        <5>2. Pending(row[u])'
          BY <1>1, <2>8, <4>3, <5>1
        <5> QED
          BY <1>1, <4>3, <5>2 DEF ToldOrPending
      <4>4. CASE row[u] = 0 /\ \E e \in 1..Len(log) : Pending(e) /\ log[e].thread = u /\ log[e].removes
        <5>1. PICK e \in 1..Len(log) : Pending(e) /\ log[e].thread = u /\ log[e].removes
          BY <4>4
        <5>2. Pending(e)'
          BY <2>8, <3>4, <5>1
        <5> QED
          BY <1>1, <4>4, <5>1, <5>2 DEF ToldOrPending
      <4> QED
        BY <4>1, <4>2, <4>3, <4>4 DEF ToldOrPending
    <3> QED
      BY <3>2, <3>3, <3>4
  <2> QED
    BY <2>5, <2>6, <2>7, <2>9 DEF IInv, Told
<1> QED
  BY <1>4, <1>5

\* An event that the live stream passes without a message, because its
\* thread is not there or because its row could not be read.
LEMMA PassedKeeps ==
  ASSUME IInv, subscription = "live", next <= published, next' = next + 1,
         UNCHANGED <<server, subscription, snapshot, browser>>,
         ~log[next].removes,
         \/ row[log[next].thread] = 0 /\ UNCHANGED missed
         \/ missed' = missed \cup {log[next].thread}
  PROVE  IInv'
<1>1. UNCHANGED <<log, row, published, snapshot, subscription, version, view>>
  BY DEF server, browser
<1>2. log \in Seq(Event) /\ Len(log) \in Nat /\ published \in Nat /\ published <= Len(log)
      /\ next \in Nat /\ next > 0 /\ version.sequence \in Int
  BY DEF IInv, TypeOK, Counted
<1>3. Counted'
  BY <1>1, <1>2 DEF IInv, Counted
<1>4. \A e \in 1..Len(log) : Pending(e) /\ e # next => Pending(e)'
  BY <1>1, <1>2 DEF Pending
<1>5. next \in 1..Len(log) /\ log[next] \in Event
  BY <1>2, ElementOfSeq
<1>6. missed \subseteq missed' /\ missed' \subseteq Threads
  BY <1>5 DEF IInv, TypeOK, Event
<1>7. ASSUME NEW t \in Threads PROVE ToldOrPending(t)'
  <2> SUFFICES ASSUME t \notin missed' PROVE ToldOrPending(t)'
    BY DEF ToldOrPending
  <2>1. ToldOrPending(t) /\ t \notin missed /\ RowIsLast(t)
    BY <1>6 DEF IInv, Told, Rows
  <2>2. CASE view[t] = row[t]
    BY <1>1, <2>2 DEF ToldOrPending
  <2>3. CASE row[t] # 0 /\ Pending(row[t])
    <3>1. row[t] \in 1..Len(log) /\ row[t] # next
      BY <2>1, <2>3 DEF RowIsLast
    <3>2. Pending(row[t])'
      BY <1>1, <1>4, <2>3, <3>1
    <3> QED
      BY <1>1, <2>3, <3>2 DEF ToldOrPending
  <2>4. CASE row[t] = 0 /\ \E e \in 1..Len(log) : Pending(e) /\ log[e].thread = t /\ log[e].removes
    <3>1. PICK e \in 1..Len(log) : Pending(e) /\ log[e].thread = t /\ log[e].removes
      BY <2>4
    <3>2. Pending(e)'
      BY <1>4, <3>1
    <3> QED
      BY <1>1, <2>4, <3>1, <3>2 DEF ToldOrPending
  <2> QED
    BY <2>1, <2>2, <2>3, <2>4 DEF ToldOrPending
<1>8. TypeOK'
  BY <1>1, <1>6 DEF IInv, TypeOK
<1>9. Rows'
  BY <1>1 DEF IInv, Rows, RowIsLast
<1> QED
  BY <1>3, <1>7, <1>8, <1>9 DEF IInv, Told

LEMMA SendKeeps == ASSUME IInv, Send PROVE IInv'
<1> DEFINE t == log[next].thread
<1>1. subscription = "live" /\ next <= published /\ next' = next + 1
      /\ UNCHANGED <<server, subscription, snapshot>>
  BY DEF Send
<1>2. log \in Seq(Event) /\ row \in [Threads -> Nat] /\ next \in 1..Len(log)
  BY <1>1 DEF IInv, TypeOK, Counted
<1>3. t \in Threads /\ log[next].removes \in BOOLEAN
  <2>1. log[next] \in Event
    BY <1>2, ElementOfSeq
  <2> QED
    BY <2>1 DEF Event
<1>4. row[t] \in Nat
  BY <1>2, <1>3
<1>5. CASE log[next].removes
  <2>1. applyShellEvent(next, t, 0)
    BY <1>5 DEF Send
  <2> HIDE DEF t
  <2>2. t = log[next].thread
    BY DEF t
  <2> QED
    BY <1>1, <1>3, <1>5, <2>1, <2>2, AppliedKeeps
<1>6. CASE ~log[next].removes /\ row[t] # 0
  <2>1. applyShellEvent(next, t, row[t])
    BY <1>6 DEF Send
  <2> HIDE DEF t
  <2>2. t = log[next].thread
    BY DEF t
  <2> QED
    BY <1>1, <1>3, <1>4, <1>6, <2>1, <2>2, AppliedKeeps
<1>7. CASE ~log[next].removes /\ row[t] = 0
  <2>1. UNCHANGED <<browser, missed>>
    BY <1>7 DEF Send
  <2> QED
    BY <1>1, <1>7, <2>1, PassedKeeps
<1> QED
  BY <1>3, <1>5, <1>6, <1>7

LEMMA SendFailsKeeps == ASSUME IInv, SendFails PROVE IInv'
  BY PassedKeeps DEF SendFails

-----------------------------------------------------------------------------
\* Nothing ceases to be pending when a subscription ends, is given up or the
\* server restarts.
LEMMA EndsKeep == ASSUME IInv, LoadFails \/ Disconnect \/ ServerRestarts PROVE IInv'
<1>1. UNCHANGED <<log, row, snapshot, next, version, view, missed>>
      /\ subscription' \in {"closed", "failed"}
      /\ (published' = published \/ published' = Len(log))
  BY DEF LoadFails, Disconnect, ServerRestarts, server, browser
<1>2. Len(log) \in Nat /\ missed \subseteq Threads
  BY DEF IInv, TypeOK
<1>3. subscription' # "loaded" /\ subscription' # "live"
  BY <1>1
<1>4. Counted'
  BY <1>1, <1>2, <1>3 DEF IInv, Counted
<1>5. \A e \in 1..Len(log) : Pending(e) => Pending(e)'
  BY <1>1, <1>3 DEF Pending
<1> QED
  BY <1>1, <1>2, <1>4, <1>5, QuietSteps

LEMMA StutterKeeps == ASSUME IInv, UNCHANGED shellVars PROVE IInv'
<1>1. UNCHANGED <<log, row, published, subscription, snapshot, next, version, view, missed>>
  BY DEF shellVars, server, browser
<1>2. Counted' /\ missed \subseteq Threads
  BY <1>1 DEF IInv, Counted, TypeOK
<1>3. \A e \in 1..Len(log) : Pending(e) => Pending(e)'
  BY <1>1 DEF Pending
<1> QED
  BY <1>1, <1>2, <1>3, QuietSteps

\* Every step keeps the invariant.
LEMMA StepKeeps == IInv /\ [ShellNext]_shellVars => IInv'
<1> SUFFICES ASSUME IInv, [ShellNext]_shellVars PROVE IInv'
  OBVIOUS
<1>1. CASE \E t \in Threads, removes, lists \in BOOLEAN, time \in 0..1 : Commit(t, removes, lists, time)
  BY <1>1, CommitKeeps
<1>2. CASE Go
  BY <1>2, PublishKeeps, LoadSnapshotKeeps, GoLiveKeeps, SendKeeps DEF Go
<1>3. CASE SendFails
  BY <1>3, SendFailsKeeps
<1>4. CASE LoadFails \/ Disconnect \/ ServerRestarts
  BY <1>4, EndsKeep
<1>5. CASE UNCHANGED shellVars
  BY <1>5, StutterKeeps
<1> QED
  BY <1>1, <1>2, <1>3, <1>4, <1>5 DEF ShellNext

\* A browser that was sent every event shows every row as it is, apart from
\* those it cannot know it missed, for every set of threads and every number
\* of events, lost connections, restarts and failing reads.
THEOREM ShellIsShown == ShellSpec => []ShellShowsTheRows
<1>1. IInv => ShellShowsTheRows
  <2> SUFFICES ASSUME IInv, subscription = "live", next > Len(log), NEW t \in Threads
               PROVE  view[t] = row[t] \/ t \in missed
    BY DEF ShellShowsTheRows
  <2>1. Len(log) \in Nat /\ next \in Nat
    BY DEF IInv, TypeOK, Counted
  <2>2. \A e \in 1..Len(log) : ~Pending(e)
    BY <2>1 DEF Pending
  <2>3. ToldOrPending(t) /\ RowIsLast(t)
    BY DEF IInv, Told, Rows
  <2> QED
    BY <2>2, <2>3 DEF ToldOrPending, RowIsLast
<1> QED
  BY <1>1, InitEstablishes, StepKeeps, PTL DEF ShellSpec

-----------------------------------------------------------------------------
(* The status of a working directory.                                      *)

Change == [part : Parts, value : Statuses]
Cacheable == [Parts -> Statuses \cup {Unknown}]
ViewRecord == [at : {"none", "loading", "live"}, value : Statuses \cup {Unknown},
               queue : Seq(Change), shows : Cacheable]

\* The last change of a part that is queued says so, or none is queued.
Ends(q, p, v) ==
  \E i \in 1..Len(q) : /\ q[i].part = p /\ q[i].value = v
                       /\ \A j \in 1..Len(q) : j > i => q[j].part # p
Silent(q, p) == \A i \in 1..Len(q) : q[i].part # p

\* A viewer shows, or is about to be told, that a part is v.
WillShow(w, p, v) ==
  Ends(w.queue, p, v) \/ (Silent(w.queue, p) /\ (w.at = "live" => w.shows[p] = v))

Announced == \A s \in Viewers, p \in Parts :
  viewers[s].at # "none" /\ (p = "local" => s \notin misled) => WillShow(viewers[s], p, cached[p])

LiveIsLoaded == \A s \in Viewers : viewers[s].at = "live" => cached["local"] # Unknown
NoneIsEmpty == \A s \in Viewers : viewers[s].at = "none" => viewers[s] = NoView

-----------------------------------------------------------------------------
LEMMA AppendEnds ==
  ASSUME NEW q \in Seq(Change), NEW p \in Parts, NEW v \in Statuses
  PROVE  LET a == Append(q, [part |-> p, value |-> v]) IN
         /\ a \in Seq(Change) /\ Ends(a, p, v)
         /\ \A r \in Parts : \A w : r # p => /\ (Ends(q, r, w) => Ends(a, r, w))
                                           /\ (Silent(q, r) => Silent(a, r))
<1> DEFINE e == [part |-> p, value |-> v]
           a == Append(q, e)
<1>1. e \in Change /\ e.part = p /\ e.value = v
  BY DEF Change
<1>2. a \in Seq(Change) /\ Len(a) = Len(q) + 1 /\ Len(q) \in Nat
      /\ a[Len(q) + 1] = e /\ \A i \in 1..Len(q) : a[i] = q[i]
  BY <1>1, AppendProperties, LenProperties
<1> HIDE DEF a, e
<1>3. Ends(a, p, v)
  BY <1>1, <1>2 DEF Ends
<1>4. ASSUME NEW r \in Parts, NEW w, r # p, Ends(q, r, w) PROVE Ends(a, r, w)
  <2>1. PICK i \in 1..Len(q) : /\ q[i].part = r /\ q[i].value = w
                               /\ \A j \in 1..Len(q) : j > i => q[j].part # r
    BY <1>4 DEF Ends
  <2>2. i \in 1..Len(a) /\ a[i] = q[i]
    BY <1>2
  <2>3. ASSUME NEW j \in 1..Len(a), j > i PROVE a[j].part # r
    <3>1. CASE j \in 1..Len(q)
      BY <3>1, <2>1, <2>3, <1>2
    <3>2. CASE j = Len(q) + 1
      BY <3>2, <1>1, <1>2, <1>4
    <3> QED
      BY <3>1, <3>2, <1>2
  <2> QED
    BY <2>1, <2>2, <2>3 DEF Ends
<1>5. ASSUME NEW r \in Parts, r # p, Silent(q, r) PROVE Silent(a, r)
  <2>1. ASSUME NEW j \in 1..Len(a) PROVE a[j].part # r
    <3>1. CASE j \in 1..Len(q)
      BY <3>1, <1>5, <1>2 DEF Silent
    <3>2. CASE j = Len(q) + 1
      BY <3>2, <1>1, <1>2, <1>5
    <3> QED
      BY <3>1, <3>2, <1>2
  <2> QED
    BY <2>1 DEF Silent
<1> QED
  BY <1>2, <1>3, <1>4, <1>5 DEF a, e

LEMMA TailEnds ==
  ASSUME NEW q \in Seq(Change), q # << >>, NEW p \in Parts, NEW v
  PROVE  /\ Head(q) \in Change /\ Tail(q) \in Seq(Change)
         /\ Ends(q, p, v) => \/ Ends(Tail(q), p, v)
                             \/ Silent(Tail(q), p) /\ Head(q).part = p /\ Head(q).value = v
         /\ Silent(q, p) => Silent(Tail(q), p) /\ Head(q).part # p
<1> DEFINE t == Tail(q)
<1>1. Len(q) \in Nat /\ Len(q) >= 1 /\ q[1] = Head(q) /\ Head(q) \in Change
      /\ t \in Seq(Change) /\ Len(t) = Len(q) - 1 /\ \A i \in 1..Len(t) : t[i] = q[i + 1]
  BY HeadTailProperties, LenProperties, EmptySeq
<1> HIDE DEF t
<1>2. ASSUME Ends(q, p, v)
      PROVE  Ends(t, p, v) \/ (Silent(t, p) /\ Head(q).part = p /\ Head(q).value = v)
  <2>1. PICK i \in 1..Len(q) : /\ q[i].part = p /\ q[i].value = v
                               /\ \A j \in 1..Len(q) : j > i => q[j].part # p
    BY <1>2 DEF Ends
  <2>2. CASE i = 1
    <3>1. \A j \in 1..Len(t) : j + 1 \in 1..Len(q) /\ j + 1 > i
      BY <2>2, <1>1
    <3>2. Silent(t, p)
      BY <3>1, <2>1, <1>1 DEF Silent
    <3> QED
      BY <3>2, <2>1, <2>2, <1>1
  <2>3. CASE i > 1
    <3>1. i - 1 \in 1..Len(t) /\ t[i - 1] = q[i]
      BY <2>3, <1>1
    <3>2. \A j \in 1..Len(t) : j > i - 1 => j + 1 \in 1..Len(q) /\ j + 1 > i
      BY <1>1
    <3>3. \A j \in 1..Len(t) : j > i - 1 => t[j].part # p
      BY <3>2, <2>1, <1>1
    <3> QED
      BY <3>1, <3>3, <2>1 DEF Ends
  <2> QED
    BY <2>2, <2>3
<1>3. ASSUME Silent(q, p) PROVE Silent(t, p) /\ Head(q).part # p
  <2>1. \A j \in 1..Len(t) : j + 1 \in 1..Len(q)
    BY <1>1
  <2>2. 1 \in 1..Len(q)
    BY <1>1
  <2> QED
    BY <2>1, <2>2, <1>1, <1>3 DEF Silent
<1> QED
  BY <1>1, <1>2, <1>3 DEF t

LEMMA NothingQueued == \A p \in Parts : Silent(<< >>, p)
  BY DEF Silent

-----------------------------------------------------------------------------
\* What the cache, the subscriptions and the viewers are to each other.
Views == cached \in Cacheable /\ viewers \in [Viewers -> ViewRecord]
         /\ Announced /\ LiveIsLoaded /\ NoneIsEmpty

LEMMA QuietViews == ASSUME Views, UNCHANGED cacheVars PROVE Views'
  BY DEF Views, cacheVars, Announced, LiveIsLoaded, NoneIsEmpty

LEMMA PublishKeepsViews ==
  ASSUME Views, NEW p \in Parts, NEW v \in Statuses, Publishes(p, v)
  PROVE  Views'
<1> USE StatusesAssumption
<1>1. CASE cached[p] = v
  <2>1. cached' = cached /\ UNCHANGED <<viewers, misled>>
    BY <1>1 DEF Publishes, Views, Cacheable
  <2> QED
    BY <2>1, QuietViews DEF cacheVars
<1>2. CASE cached[p] # v
  <2> DEFINE e == [part |-> p, value |-> v]
  <2>1. cached' \in Cacheable /\ cached'[p] = v
        /\ \A r \in Parts : r # p => cached'[r] = cached[r]
    BY DEF Publishes, Views, Cacheable
  <2>2. /\ viewers' = [s \in Viewers |->
              IF s \in Subscribed THEN [viewers[s] EXCEPT !.queue = Append(@, e)] ELSE viewers[s]]
        /\ misled' = IF p = "local" THEN {} ELSE misled
    BY <1>2 DEF Publishes
  <2>3. ASSUME NEW s \in Viewers
        PROVE  /\ viewers'[s] \in ViewRecord
               /\ viewers'[s].at = viewers[s].at
               /\ viewers'[s].at = "none" => viewers'[s] = NoView
               /\ viewers'[s].at = "live" => cached'["local"] # Unknown
               /\ \A r \in Parts :
                    viewers'[s].at # "none" /\ (r = "local" => s \notin misled')
                      => WillShow(viewers'[s], r, cached'[r])
    <3>0. viewers[s] \in ViewRecord
      BY DEF Views
    <3>1. CASE viewers[s].at = "none"
      <4>1. viewers'[s] = viewers[s]
        BY <3>1, <2>2 DEF Subscribed
      <4> QED
        BY <4>1, <3>0, <3>1 DEF Views, NoneIsEmpty
    <3>2. CASE viewers[s].at # "none"
      <4> DEFINE w == viewers[s]
                 a == Append(w.queue, e)
      <4>1. viewers'[s] = [w EXCEPT !.queue = a]
        BY <3>2, <2>2 DEF Subscribed
      <4>2. w.queue \in Seq(Change)
        BY <3>0 DEF ViewRecord
      <4>3. /\ a \in Seq(Change) /\ Ends(a, p, v)
            /\ \A r \in Parts : \A u : r # p => /\ (Ends(w.queue, r, u) => Ends(a, r, u))
                                              /\ (Silent(w.queue, r) => Silent(a, r))
        BY <4>2, AppendEnds
      <4> HIDE DEF a
      <4>4. /\ viewers'[s] \in ViewRecord /\ viewers'[s].at = w.at
            /\ viewers'[s].queue = a /\ viewers'[s].shows = w.shows
        BY <3>0, <4>1, <4>3 DEF ViewRecord
      <4>5. w.at = "live" => cached'["local"] # Unknown
        BY <2>1 DEF Views, LiveIsLoaded, Parts
      <4>6. ASSUME NEW r \in Parts, r = "local" => s \notin misled'
            PROVE  WillShow(viewers'[s], r, cached'[r])
        <5>1. CASE r = p
          BY <5>1, <4>3, <4>4, <2>1 DEF WillShow
        <5>2. CASE r # p
          <6>1. WillShow(w, r, cached[r]) /\ cached'[r] = cached[r]
            BY <5>2, <3>2, <4>6, <2>1, <2>2 DEF Views, Announced, Parts
          <6> QED
            BY <6>1, <5>2, <4>3, <4>4 DEF WillShow
        <5> QED
          BY <5>1, <5>2
      <4> QED
        BY <3>2, <4>4, <4>5, <4>6
    <3> QED
      BY <3>1, <3>2
  <2>4. viewers' \in [Viewers -> ViewRecord]
    BY <2>2, <2>3
  <2> QED
    BY <2>1, <2>3, <2>4 DEF Views, Announced, LiveIsLoaded, NoneIsEmpty
<1> QED
  BY <1>1, <1>2

LEMMA ViewKeepsViews == ASSUME Views, NEW s \in Viewers, View(s) PROVE Views'
<1>0. viewers[s] = NoView /\ cached' = cached /\ misled' = misled \ {s}
      /\ cached \in Cacheable /\ viewers \in [Viewers -> ViewRecord]
  BY DEF View, Views, NoneIsEmpty
<1>1. CASE cached["local"] # Unknown
  <2>1. viewers' = [viewers EXCEPT ![s] = Opened(s, cached)]
    BY <1>1 DEF View
  <2>2. /\ Opened(s, cached) \in ViewRecord /\ Opened(s, cached).at = "live"
        /\ Opened(s, cached).queue = << >> /\ Opened(s, cached).shows = cached
    <3>1. viewers[s] \in ViewRecord /\ viewers[s].queue = << >>
      BY <1>0 DEF NoView
    <3> QED
      BY <1>0, <3>1 DEF Opened, ViewRecord
  <2>3. \A p \in Parts : WillShow(Opened(s, cached), p, cached[p])
    BY <2>2, NothingQueued DEF WillShow
  <2> DEFINE w == Opened(s, cached)
  <2> HIDE DEF w
  <2>4. viewers' = [viewers EXCEPT ![s] = w] /\ w \in ViewRecord /\ w.at = "live"
    BY <2>1, <2>2 DEF w
  <2>5. \A p \in Parts : WillShow(w, p, cached[p])
    BY <2>3 DEF w
  <2>6. Announced'
    BY <1>0, <2>4, <2>5 DEF Views, Announced
  <2>7. LiveIsLoaded' /\ NoneIsEmpty'
    BY <1>0, <1>1, <2>4 DEF Views, LiveIsLoaded, NoneIsEmpty
  <2> QED
    BY <1>0, <2>4, <2>6, <2>7 DEF Views
<1>2. CASE cached["local"] = Unknown
  <2> DEFINE w == [NoView EXCEPT !.at = "loading"]
  <2>1. viewers' = [viewers EXCEPT ![s] = w]
    BY <1>0, <1>2 DEF View
  <2>2. w \in ViewRecord /\ w.at = "loading" /\ w.queue = << >>
    BY <1>0, NoView = viewers[s] DEF NoView, ViewRecord
  <2>3. \A p \in Parts : WillShow(w, p, cached[p])
    BY <2>2, NothingQueued DEF WillShow
  <2> HIDE DEF w
  <2> QED
    BY <1>0, <2>1, <2>2, <2>3 DEF Views, Announced, LiveIsLoaded, NoneIsEmpty
<1> QED
  BY <1>1, <1>2

LEMMA LoadReadsKeepsViews ==
  ASSUME Views, git \in [Parts -> Statuses], NEW s \in Viewers, LoadReads(s) PROVE Views'
<1> DEFINE w == [viewers[s] EXCEPT !.value = git["local"]]
<1>0. cached' = cached /\ misled' = misled /\ viewers' = [viewers EXCEPT ![s] = w]
      /\ viewers[s].at = "loading" /\ viewers \in [Viewers -> ViewRecord]
  BY DEF LoadReads, Views
<1>1. w \in ViewRecord /\ w.at = "loading" /\ w.queue = viewers[s].queue
  BY <1>0 DEF ViewRecord, Parts
<1>2. \A p \in Parts : \A v : WillShow(viewers[s], p, v) => WillShow(w, p, v)
  BY <1>0, <1>1 DEF WillShow
<1> HIDE DEF w
<1> QED
  BY <1>0, <1>1, <1>2 DEF Views, Announced, LiveIsLoaded, NoneIsEmpty

LEMMA LoadEndsKeepsViews == ASSUME Views, NEW s \in Viewers, LoadEnds(s) PROVE Views'
<1> USE StatusesAssumption
<1> DEFINE v == viewers[s].value
           w == Opened(s, cached')
<1>0. /\ viewers[s].at = "loading" /\ v \in Statuses
      /\ cached \in Cacheable /\ viewers \in [Viewers -> ViewRecord] /\ viewers[s] \in ViewRecord
      /\ cached' = [cached EXCEPT !["local"] = v]
      /\ viewers' = [viewers EXCEPT ![s] = w]
      /\ misled' = IF cached["local"] \in {Unknown, v} THEN misled ELSE Subscribed
  BY DEF LoadEnds, Views, ViewRecord
<1>1. cached' \in Cacheable /\ cached'["local"] = v /\ v # Unknown
      /\ \A p \in Parts : p # "local" => cached'[p] = cached[p]
  BY <1>0 DEF Cacheable, Parts
<1>2. w \in ViewRecord /\ w.at = "live" /\ w.queue = viewers[s].queue /\ w.shows = cached'
  BY <1>0, <1>1 DEF Opened, ViewRecord
<1> HIDE DEF w
<1>3. ASSUME NEW t \in Viewers, NEW p \in Parts, viewers'[t].at # "none", p = "local" => t \notin misled'
      PROVE  WillShow(viewers'[t], p, cached'[p])
  <2>1. viewers[t].at # "none" /\ t \in Subscribed
    BY <1>0, <1>3 DEF Subscribed
  <2>2. (p = "local" => cached["local"] \in {Unknown, v}) /\ (p = "local" => t \notin misled)
    BY <1>0, <1>3, <2>1
  <2>3. WillShow(viewers[t], p, cached[p]) /\ viewers[t] \in ViewRecord
    BY <2>1, <2>2 DEF Views, Announced
  <2>4. CASE cached'[p] = cached[p]
    <3>1. CASE t = s
      BY <3>1, <2>3, <2>4, <1>0, <1>2 DEF WillShow
    <3>2. CASE t # s
      BY <3>2, <2>3, <2>4, <1>0
    <3> QED
      BY <3>1, <3>2
  <2>5. CASE cached'[p] # cached[p]
    <3>1. p = "local" /\ cached["local"] = Unknown
      BY <2>5, <2>2, <1>1
    <3>2. viewers[t].at # "live"
      BY <3>1 DEF Views, LiveIsLoaded
    <3>3. ~Ends(viewers[t].queue, p, Unknown)
      <4>1. viewers[t].queue \in Seq(Change)
        BY <2>3 DEF ViewRecord
      <4>2. \A i \in 1..Len(viewers[t].queue) : viewers[t].queue[i] \in Change
        BY <4>1, ElementOfSeq
      <4>3. \A c \in Change : c.value # Unknown
        BY DEF Change
      <4> QED
        BY <4>2, <4>3 DEF Ends
    <3>4. Silent(viewers[t].queue, p)
      BY <2>3, <3>1, <3>3 DEF WillShow
    <3>5. CASE t = s
      BY <3>4, <3>5, <1>0, <1>2 DEF WillShow
    <3>6. CASE t # s
      BY <3>2, <3>4, <3>6, <1>0 DEF WillShow
    <3> QED
      BY <3>5, <3>6
  <2> QED
    BY <2>4, <2>5
<1>4. Announced'
  BY <1>3 DEF Announced
<1>5. LiveIsLoaded' /\ NoneIsEmpty'
  BY <1>0, <1>1, <1>2 DEF Views, LiveIsLoaded, NoneIsEmpty
<1> QED
  BY <1>0, <1>1, <1>2, <1>4, <1>5 DEF Views

LEMMA ReceiveKeepsViews == ASSUME Views, NEW s \in Viewers, Receive(s) PROVE Views'
<1> DEFINE q == viewers[s].queue
           w == [viewers[s] EXCEPT !.queue = Tail(q),
                                   !.shows = [viewers[s].shows EXCEPT ![Head(q).part] = Head(q).value]]
<1>0. /\ viewers[s].at = "live" /\ q # << >> /\ viewers[s] \in ViewRecord
      /\ cached' = cached /\ misled' = misled /\ viewers \in [Viewers -> ViewRecord]
      /\ viewers' = [viewers EXCEPT ![s] = w]
  BY DEF Receive, Views
<1>1. q \in Seq(Change) /\ viewers[s].shows \in Cacheable
  BY <1>0 DEF ViewRecord
<1>2. Head(q).part \in Parts /\ Head(q).value \in Statuses /\ Tail(q) \in Seq(Change)
  <2>1. Head(q) \in Change /\ Tail(q) \in Seq(Change)
    BY <1>0, <1>1, HeadTailProperties
  <2> QED
    BY <2>1 DEF Change
<1>3. /\ w \in ViewRecord /\ w.at = "live" /\ w.queue = Tail(q)
      /\ w.shows[Head(q).part] = Head(q).value
      /\ \A p \in Parts : p # Head(q).part => w.shows[p] = viewers[s].shows[p]
  BY <1>0, <1>1, <1>2 DEF ViewRecord, Cacheable
<1>4. \A p \in Parts : \A v : WillShow(viewers[s], p, v) => WillShow(w, p, v)
  <2>1. ASSUME NEW p \in Parts, NEW v, WillShow(viewers[s], p, v) PROVE WillShow(w, p, v)
    <3>1. /\ Ends(q, p, v) => \/ Ends(Tail(q), p, v)
                              \/ Silent(Tail(q), p) /\ Head(q).part = p /\ Head(q).value = v
          /\ Silent(q, p) => Silent(Tail(q), p) /\ Head(q).part # p
      BY <1>0, <1>1, TailEnds
    <3> HIDE DEF w
    <3>2. CASE Ends(q, p, v)
      BY <3>1, <3>2, <1>3 DEF WillShow
    <3>3. CASE Silent(q, p) /\ viewers[s].shows[p] = v
      BY <3>1, <3>3, <1>3 DEF WillShow
    <3> QED
      BY <2>1, <3>2, <3>3, <1>0 DEF WillShow
  <2> QED
    BY <2>1
<1> HIDE DEF w
<1> QED
  BY <1>0, <1>3, <1>4 DEF Views, Announced, LiveIsLoaded, NoneIsEmpty

LEMMA LeaveKeepsViews == ASSUME Views, NEW s \in Viewers, Leave(s) PROVE Views'
<1>0. cached' = cached /\ misled' = misled /\ viewers' = [viewers EXCEPT ![s] = NoView]
      /\ viewers \in [Viewers -> ViewRecord]
  BY DEF Leave, Views
<1>1. NoView \in ViewRecord /\ NoView.at = "none"
  BY DEF NoView, ViewRecord, Cacheable
<1> HIDE DEF NoView
<1> QED
  BY <1>0, <1>1 DEF Views, Announced, LiveIsLoaded, NoneIsEmpty

-----------------------------------------------------------------------------
\* What a read holds is a status.
Reads ==
  /\ git \in [Parts -> Statuses]
  /\ poller.at = "read" => poller.value \in Statuses
  /\ \A r \in Refreshers : refreshes[r].value # Unknown =>
       refreshes[r].value \in Statuses /\ refreshes[r].at \in Parts
  /\ poller = [at |-> poller.at, value |-> poller.value, count |-> poller.count]
  /\ refreshes = [r \in Refreshers |-> [at |-> refreshes[r].at, value |-> refreshes[r].value,
                                         both |-> refreshes[r].both]]
  /\ \A r \in Refreshers : refreshes[r].at \in Parts \cup {"idle"}

StatusInv == Views /\ Reads

LEMMA ViewersStepKeeps ==
  ASSUME StatusInv, NEW s \in Viewers,
         View(s) \/ LoadReads(s) \/ LoadEnds(s) \/ Receive(s) \/ Leave(s)
  PROVE  StatusInv'
<1>1. Views'
  BY ViewKeepsViews, LoadReadsKeepsViews, LoadEndsKeepsViews, ReceiveKeepsViews, LeaveKeepsViews
     DEF StatusInv, Reads
<1>2. git' = git /\ refreshes' = refreshes
  BY DEF View, LoadReads, LoadEnds, Receive, Leave, environment
<1>3. poller' = [at |-> poller'.at, value |-> poller'.value, count |-> poller'.count]
      /\ (poller'.at = "read" => poller'.value \in Statuses)
  <2>1. poller' = poller \/ Retain \/ Release
    BY DEF View, LoadReads, LoadEnds, Receive, Leave
  <2>2. \/ poller' = poller \/ poller' = [poller EXCEPT !.count = poller.count + 1]
        \/ poller' = [poller EXCEPT !.count = poller.count - 1] \/ poller' = Off
        \/ poller' = [at |-> "sleeping", value |-> Unknown, count |-> 1]
    BY <2>1 DEF Retain, Release
  <2> DEFINE Sound(w) == /\ w = [at |-> w.at, value |-> w.value, count |-> w.count]
                         /\ w.at = "read" => w.value \in Statuses
  <2>3. Sound(poller)
    BY DEF StatusInv, Reads
  <2>4. \A n : Sound([poller EXCEPT !.count = n])
    BY <2>3
  <2>5. Sound(Off) /\ Sound([at |-> "sleeping", value |-> Unknown, count |-> 1])
    BY DEF Off
  <2> HIDE DEF Sound
  <2>6. Sound(poller')
    BY <2>2, <2>3, <2>4, <2>5
  <2> QED
    BY <2>6 DEF Sound
<1> QED
  BY <1>1, <1>2, <1>3 DEF StatusInv, Reads

LEMMA PollStepKeeps == ASSUME StatusInv, Poll \/ PollFails PROVE StatusInv'
<1>1. Views'
  <2>1. CASE PollEnds
    BY <2>1, PublishKeepsViews DEF PollEnds, StatusInv, Reads, Parts
  <2>2. CASE PollBegins \/ PollReads \/ PollFails
    BY <2>2, QuietViews DEF PollBegins, PollReads, PollFails, StatusInv
  <2> QED
    BY <2>1, <2>2 DEF Poll
<1>2. git' = git /\ refreshes' = refreshes
  BY DEF Poll, PollBegins, PollReads, PollEnds, PollFails, environment
<1>3. poller' = [at |-> poller'.at, value |-> poller'.value, count |-> poller'.count]
      /\ (poller'.at = "read" => poller'.value \in Statuses)
  BY DEF StatusInv, Reads, Poll, PollBegins, PollReads, PollEnds, PollFails, Parts
<1> QED
  BY <1>1, <1>2, <1>3 DEF StatusInv, Reads

LEMMA RefreshStepKeeps ==
  ASSUME StatusInv, NEW r \in Refreshers,
         (\E both \in BOOLEAN : Refresh(r, both)) \/ RefreshReads(r) \/ RefreshEnds(r) \/ RefreshFails(r)
  PROVE  StatusInv'
<1> USE StatusesAssumption
<1>1. Views'
  <2>1. CASE RefreshEnds(r)
    BY <2>1, PublishKeepsViews DEF RefreshEnds, StatusInv, Reads
  <2>2. CASE (\E both \in BOOLEAN : Refresh(r, both)) \/ RefreshReads(r) \/ RefreshFails(r)
    BY <2>2, QuietViews DEF Refresh, RefreshReads, RefreshFails, StatusInv
  <2> QED
    BY <2>1, <2>2
<1>2. git' = git /\ poller' = poller
  BY DEF Refresh, RefreshReads, RefreshEnds, RefreshFails, environment
<1> DEFINE Sound(w) == /\ w = [at |-> w.at, value |-> w.value, both |-> w.both]
                       /\ w.at \in Parts \cup {"idle"}
                       /\ w.value # Unknown => w.value \in Statuses /\ w.at \in Parts
<1>3. Sound(refreshes[r]) /\ Sound(NoRefresh)
      /\ \A both : Sound([at |-> "local", value |-> Unknown, both |-> both])
      /\ Sound([at |-> "remote", value |-> Unknown, both |-> TRUE])
  <2>1. Sound(refreshes[r])
    BY DEF StatusInv, Reads
  <2>2. Sound(NoRefresh)
    BY DEF NoRefresh
  <2>3. \A both : Sound([at |-> "local", value |-> Unknown, both |-> both])
    BY DEF Parts
  <2>4. Sound([at |-> "remote", value |-> Unknown, both |-> TRUE])
    BY DEF Parts
  <2> QED
    BY <2>1, <2>2, <2>3, <2>4
<1>4. \E w : Sound(w) /\ refreshes' = [refreshes EXCEPT ![r] = w]
  <2>2. CASE RefreshReads(r)
    <3> DEFINE w == [refreshes[r] EXCEPT !.value = git[refreshes[r].at]]
    <3>1. refreshes' = [refreshes EXCEPT ![r] = w] /\ refreshes[r].at \in Parts
      BY <2>2 DEF RefreshReads, StatusInv, Reads
    <3>2. Sound(w)
      BY <1>3, <3>1 DEF StatusInv, Reads
    <3> QED
      BY <3>1, <3>2
  <2> HIDE DEF Sound
  <2>1. CASE \E both \in BOOLEAN : Refresh(r, both)
    BY <2>1, <1>3 DEF Refresh
  <2>3. CASE RefreshEnds(r)
    <3>1. refreshes' = [refreshes EXCEPT ![r] =
            IF refreshes[r].at = "local" /\ refreshes[r].both
              THEN [at |-> "remote", value |-> Unknown, both |-> TRUE] ELSE NoRefresh]
      BY <2>3 DEF RefreshEnds, StatusInv, Reads
    <3> QED
      BY <3>1, <1>3
  <2>4. CASE RefreshFails(r)
    BY <2>4, <1>3 DEF RefreshFails
  <2> QED
    BY <2>1, <2>2, <2>3, <2>4
<1>5. Reads'
  BY <1>2, <1>4 DEF StatusInv, Reads
<1> QED
  BY <1>1, <1>5 DEF StatusInv

LEMMA WorldStepKeeps ==
  ASSUME StatusInv, GitChanges \/ SettingChanges \/ UNCHANGED statusVars PROVE StatusInv'
<1>1. UNCHANGED cacheVars /\ poller' = poller /\ refreshes' = refreshes
  BY DEF GitChanges, SettingChanges, statusVars
<1>2. git' \in [Parts -> Statuses]
  BY DEF GitChanges, SettingChanges, statusVars, environment, StatusInv, Reads
<1> QED
  BY <1>1, <1>2, QuietViews DEF StatusInv, Reads

LEMMA StatusInitEstablishes == StatusInit => StatusInv
<1> SUFFICES ASSUME StatusInit PROVE StatusInv
  OBVIOUS
<1>1. cached \in Cacheable /\ viewers = [s \in Viewers |-> NoView] /\ NoView.at = "none"
  BY DEF StatusInit, Cacheable, NoView
<1>2. NoView \in ViewRecord
  BY DEF NoView, ViewRecord, Cacheable
<1>3. Views
  BY <1>1, <1>2 DEF Views, Announced, LiveIsLoaded, NoneIsEmpty
<1>4. Reads
  BY DEF StatusInit, Reads, Off, NoRefresh
<1> QED
  BY <1>3, <1>4 DEF StatusInv

\* For every set of viewers, of fibers that refresh and of statuses: a viewer
\* that was sent everything shows what is cached, apart from the local part
\* for those before whose eyes a first load replaced it.
THEOREM ViewersAreTold == StatusSpec => []ViewersShowTheCache
<1>1. StatusInv => ViewersShowTheCache
  <2> SUFFICES ASSUME StatusInv, NEW s \in Viewers, viewers[s].at = "live", viewers[s].queue = << >>
               PROVE  /\ viewers[s].shows["remote"] = cached["remote"]
                      /\ s \notin misled => viewers[s].shows["local"] = cached["local"]
    BY DEF ViewersShowTheCache
  <2>1. \A p \in Parts : (p = "local" => s \notin misled) => WillShow(viewers[s], p, cached[p])
    BY DEF StatusInv, Views, Announced
  <2>2. \A p \in Parts : ~Ends(viewers[s].queue, p, cached[p])
    BY DEF Ends
  <2> QED
    BY <2>1, <2>2 DEF WillShow, Parts
<1>2. StatusInv /\ [StatusNext]_statusVars => StatusInv'
  BY ViewersStepKeeps, PollStepKeeps, RefreshStepKeeps, WorldStepKeeps DEF StatusNext
<1> QED
  BY <1>1, <1>2, StatusInitEstablishes, PTL DEF StatusSpec
=============================================================================
