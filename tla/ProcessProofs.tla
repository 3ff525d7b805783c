---------------------------- MODULE ProcessProofs ----------------------------
(***************************************************************************)
(* What starts processes and stops them: NoBackendIsLeftBehind and         *)
(* StoppedStaysStopped hold of BackendManager, for every number of starts, *)
(* stops and failures, and SessionsAreBound of ProviderSessions, for every *)
(* set of instances and of calls.                                          *)
(***************************************************************************)
EXTENDS BackendManager, ProviderSessions, SequenceTheorems, TLAPS

-----------------------------------------------------------------------------
(* BackendManager.                                                         *)

Place == {"waiting", "preparing", "sleeping", "done"}
RunRecord == [process : {"spawning", "up", "ended"},
              at : {"running", "ending", "finalizing", "ended"}, closed : BOOLEAN]

TypeOK ==
  /\ fibers \in Seq(Place) /\ runs \in Seq(RunRecord)
  /\ activeRun \in Nat /\ restartFiber \in Nat
  /\ desired \in BOOLEAN /\ ready \in BOOLEAN /\ stopped \in BOOLEAN

\* At most one start prepares, in the mutex, and no run is active meanwhile.
OneStarts ==
  \A i \in 1..Len(fibers) : fibers[i] = "preparing" =>
    /\ mutex = "start" /\ activeRun = 0
    /\ \A j \in 1..Len(fibers) : fibers[j] = "preparing" => j = i

\* At most one run is finalized, in the mutex.
OneEnds ==
  \A r \in 1..Len(runs) : runs[r].at = "finalizing" =>
    /\ mutex = "end"
    /\ \A s \in 1..Len(runs) : runs[s].at = "finalizing" => s = r

\* A run ends after its process.
EndsLast == \A r \in 1..Len(runs) : runs[r].at # "running" => runs[r].process = "ended"

\* The fiber that sleeps is the one a stop interrupts.
OneSleeps == \A i \in 1..Len(fibers) : fibers[i] = "sleeping" => i = restartFiber

IInv == TypeOK /\ OneStarts /\ OneEnds /\ EndsLast /\ OneSleeps
        /\ NoBackendIsLeftBehind /\ StoppedStaysStopped

-----------------------------------------------------------------------------
(* What the updates of fibers and runs do.                                 *)

LEMMA FiberMoved ==
  ASSUME fibers \in Seq(Place), NEW i \in 1..Len(fibers), NEW p \in Place,
         fibers' = [fibers EXCEPT ![i] = p]
  PROVE  /\ fibers' \in Seq(Place) /\ Len(fibers') = Len(fibers)
         /\ \A j \in 1..Len(fibers) : fibers'[j] = IF j = i THEN p ELSE fibers[j]
<1>1. /\ [fibers EXCEPT ![i] = p] \in Seq(Place)
      /\ Len([fibers EXCEPT ![i] = p]) = Len(fibers)
      /\ \A j \in 1..Len(fibers) : [fibers EXCEPT ![i] = p][j] = IF j = i THEN p ELSE fibers[j]
  BY ExceptSeq
<1> QED
  BY <1>1

LEMMA FibersCancelled ==
  ASSUME fibers \in Seq(Place), NEW i
  PROVE  /\ Cancelled(i) \in Seq(Place) /\ Len(Cancelled(i)) = Len(fibers)
         /\ \A j \in 1..Len(fibers) :
              Cancelled(i)[j] = IF j \in {i, restartFiber} THEN "done" ELSE fibers[j]
<1>1. Len(fibers) \in Nat /\ \A j \in 1..Len(fibers) : fibers[j] \in Place
  BY ElementOfSeq
<1>2. "done" \in Place
  BY DEF Place
<1>3. Cancelled(i) \in [1..Len(fibers) -> Place]
  BY <1>1, <1>2 DEF Cancelled
<1> QED
  BY <1>1, <1>3 DEF Cancelled

LEMMA FiberAdded ==
  ASSUME NEW fs \in Seq(Place), NEW p \in Place, fibers' = Append(fs, p)
  PROVE  /\ fibers' \in Seq(Place) /\ Len(fibers') = Len(fs) + 1 /\ fibers'[Len(fs) + 1] = p
         /\ \A j \in 1..Len(fs) : fibers'[j] = fs[j]
  BY AppendProperties

LEMMA RunChanged ==
  ASSUME runs \in Seq(RunRecord), NEW r \in 1..Len(runs), NEW new \in RunRecord,
         runs' = [runs EXCEPT ![r] = new]
  PROVE  /\ runs' \in Seq(RunRecord) /\ Len(runs') = Len(runs)
         /\ \A s \in 1..Len(runs) : runs'[s] = IF s = r THEN new ELSE runs[s]
<1>1. /\ [runs EXCEPT ![r] = new] \in Seq(RunRecord)
      /\ Len([runs EXCEPT ![r] = new]) = Len(runs)
      /\ \A s \in 1..Len(runs) : [runs EXCEPT ![r] = new][s] = IF s = r THEN new ELSE runs[s]
  BY ExceptSeq
<1> QED
  BY <1>1

-----------------------------------------------------------------------------
LEMMA InitEstablishes == BackendInit => IInv
<1> SUFFICES ASSUME BackendInit PROVE IInv
  OBVIOUS
<1>1. fibers \in Seq(Place) /\ runs \in Seq(RunRecord) /\ Len(fibers) = 0 /\ Len(runs) = 0
  BY EmptySeq DEF BackendInit
<1>2. TypeOK
  BY <1>1 DEF BackendInit, TypeOK
<1>3. OneStarts /\ OneEnds /\ EndsLast /\ OneSleeps
  BY <1>1 DEF OneStarts, OneEnds, EndsLast, OneSleeps
<1>4. NoBackendIsLeftBehind /\ StoppedStaysStopped
  BY <1>1 DEF BackendInit, NoBackendIsLeftBehind, StoppedStaysStopped
<1> QED
  BY <1>2, <1>3, <1>4 DEF IInv

LEMMA RequestKeeps == ASSUME IInv, Request PROVE IInv'
<1>1. /\ fibers' = Append(fibers, "waiting") /\ stopped' = FALSE
      /\ UNCHANGED <<desired, configured, ready, activeRun, restartFiber, mutex, runs, stops>>
  BY DEF Request
<1>2. fibers \in Seq(Place) /\ "waiting" \in Place /\ Len(fibers) \in Nat
  BY DEF IInv, TypeOK, Place
<1>3. /\ fibers' \in Seq(Place) /\ Len(fibers') = Len(fibers) + 1 /\ fibers'[Len(fibers) + 1] = "waiting"
      /\ \A j \in 1..Len(fibers) : fibers'[j] = fibers[j]
  BY <1>1, <1>2, FiberAdded
<1>4. TypeOK'
  BY <1>1, <1>3 DEF IInv, TypeOK
<1>5. OneStarts' /\ OneSleeps'
  BY <1>1, <1>2, <1>3 DEF IInv, OneStarts, OneSleeps
<1>6. OneEnds' /\ EndsLast' /\ NoBackendIsLeftBehind' /\ StoppedStaysStopped'
  BY <1>1 DEF IInv, OneEnds, EndsLast, NoBackendIsLeftBehind, StoppedStaysStopped
<1> QED
  BY <1>4, <1>5, <1>6 DEF IInv

\* The steps of a fiber that only move it.
LEMMA BeginKeeps == ASSUME IInv, NEW i \in 1..Len(fibers), BeginStart(i) PROVE IInv'
<1>1. fibers[i] = "waiting" /\ mutex = "free"
      /\ UNCHANGED <<desired, configured, activeRun, restartFiber, runs, stops, stopped, counts>>
  BY DEF BeginStart
<1>2. ~stopped
  BY <1>1 DEF IInv, StoppedStaysStopped
<1>3. \A j \in 1..Len(fibers) : fibers[j] # "preparing"
  BY <1>1 DEF IInv, OneStarts
<1>4. OneEnds' /\ EndsLast' /\ NoBackendIsLeftBehind' /\ StoppedStaysStopped'
  <2>1. \A r \in 1..Len(runs) : runs[r].at # "finalizing"
    BY <1>1 DEF IInv, OneEnds
  <2> QED
    BY <1>1, <1>2, <2>1 DEF IInv, OneEnds, EndsLast, NoBackendIsLeftBehind, StoppedStaysStopped
<1>5. PICK p \in {"done", "preparing"} :
        /\ fibers' = [fibers EXCEPT ![i] = p]
        /\ p = "preparing" => activeRun = 0 /\ mutex' = "start" /\ ready' = FALSE
        /\ p = "done" => UNCHANGED <<mutex, ready>>
  BY DEF BeginStart
<1>6. fibers \in Seq(Place) /\ p \in Place
  BY DEF IInv, TypeOK, Place
<1>7. /\ fibers' \in Seq(Place) /\ Len(fibers') = Len(fibers)
      /\ \A j \in 1..Len(fibers) : fibers'[j] = IF j = i THEN p ELSE fibers[j]
  BY <1>5, <1>6, FiberMoved
<1>8. TypeOK'
  BY <1>1, <1>5, <1>7 DEF IInv, TypeOK
<1>9. OneStarts' /\ OneSleeps'
  BY <1>1, <1>3, <1>5, <1>7 DEF IInv, OneStarts, OneSleeps
<1> QED
  BY <1>4, <1>8, <1>9 DEF IInv

LEMMA UnconfiguredKeeps == ASSUME IInv, NEW i \in 1..Len(fibers), Unconfigured(i) PROVE IInv'
<1>1. fibers[i] = "preparing" /\ mutex' = "free" /\ fibers' = [fibers EXCEPT ![i] = "done"]
      /\ UNCHANGED <<desired, configured, ready, activeRun, restartFiber, runs, stops, stopped, counts>>
  BY DEF Unconfigured
<1>2. ~stopped
  BY <1>1 DEF IInv, StoppedStaysStopped
<1>3. mutex = "start" /\ \A j \in 1..Len(fibers) : fibers[j] = "preparing" => j = i
  BY <1>1 DEF IInv, OneStarts
<1>4. OneEnds' /\ EndsLast' /\ NoBackendIsLeftBehind' /\ StoppedStaysStopped'
  <2>1. \A r \in 1..Len(runs) : runs[r].at # "finalizing"
    BY <1>3 DEF IInv, OneEnds
  <2> QED
    BY <1>1, <1>2, <2>1 DEF IInv, OneEnds, EndsLast, NoBackendIsLeftBehind, StoppedStaysStopped
<1>5. fibers \in Seq(Place) /\ "done" \in Place
  BY DEF IInv, TypeOK, Place
<1>6. /\ fibers' \in Seq(Place) /\ Len(fibers') = Len(fibers)
      /\ \A j \in 1..Len(fibers) : fibers'[j] = IF j = i THEN "done" ELSE fibers[j]
  BY <1>1, <1>5, FiberMoved
<1>7. TypeOK'
  BY <1>1, <1>6 DEF IInv, TypeOK
<1>8. OneStarts' /\ OneSleeps'
  BY <1>1, <1>3, <1>6 DEF IInv, OneStarts, OneSleeps
<1> QED
  BY <1>4, <1>7, <1>8 DEF IInv

LEMMA WakeKeeps == ASSUME IInv, NEW i \in 1..Len(fibers), Wake(i) PROVE IInv'
<1>1. fibers[i] = "sleeping" /\ restartFiber' = 0
      /\ UNCHANGED <<desired, configured, ready, activeRun, mutex, runs, stops, stopped, counts>>
  BY DEF Wake
<1>2. ~stopped
  BY <1>1 DEF IInv, StoppedStaysStopped
<1>3. OneEnds' /\ EndsLast' /\ NoBackendIsLeftBehind' /\ StoppedStaysStopped'
  BY <1>1, <1>2 DEF IInv, OneEnds, EndsLast, NoBackendIsLeftBehind, StoppedStaysStopped
<1>4. PICK p \in {"done", "waiting"} : fibers' = [fibers EXCEPT ![i] = p]
  BY DEF Wake
<1>5. fibers \in Seq(Place) /\ p \in Place
  BY DEF IInv, TypeOK, Place
<1>6. /\ fibers' \in Seq(Place) /\ Len(fibers') = Len(fibers)
      /\ \A j \in 1..Len(fibers) : fibers'[j] = IF j = i THEN p ELSE fibers[j]
  BY <1>4, <1>5, FiberMoved
<1>7. TypeOK'
  BY <1>1, <1>6 DEF IInv, TypeOK
<1>8. OneStarts'
  BY <1>1, <1>4, <1>6 DEF IInv, OneStarts
<1>9. OneSleeps'
  BY <1>1, <1>4, <1>6 DEF IInv, OneSleeps
<1> QED
  BY <1>3, <1>7, <1>8, <1>9 DEF IInv

-----------------------------------------------------------------------------
\* scheduleRestart, where nothing sleeps unless f does.
LEMMA Scheduled ==
  ASSUME NEW fs \in Seq(Place), NEW f \in Nat, Schedule(fs, f),
         \A j \in 1..Len(fs) : fs[j] = "sleeping" => j = f
  PROVE  /\ fibers' \in Seq(Place) /\ restartFiber' \in Nat /\ OneSleeps'
         /\ \A j \in 1..Len(fibers') : fibers'[j] = "preparing" =>
              j \in 1..Len(fs) /\ fs[j] = "preparing"
<1>1. CASE f = 0
  <2>1. fibers' = Append(fs, "sleeping") /\ restartFiber' = Len(fs) + 1
    BY <1>1 DEF Schedule
  <2>2. "sleeping" \in Place /\ Len(fs) \in Nat
    BY DEF Place
  <2>3. /\ fibers' \in Seq(Place) /\ Len(fibers') = Len(fs) + 1 /\ fibers'[Len(fs) + 1] = "sleeping"
        /\ \A j \in 1..Len(fs) : fibers'[j] = fs[j]
    BY <2>1, <2>2, FiberAdded
  <2> QED
    BY <1>1, <2>1, <2>2, <2>3 DEF OneSleeps
<1>2. CASE f # 0
  BY <1>2 DEF Schedule, OneSleeps
<1> QED
  BY <1>1, <1>2

LEMMA EntryMissingKeeps == ASSUME IInv, NEW i \in 1..Len(fibers), EntryMissing(i) PROVE IInv'
<1>1. /\ fibers[i] = "preparing" /\ desired' = TRUE /\ ready' = FALSE
      /\ Schedule(Cancelled(i), 0) /\ mutex' = "free"
      /\ UNCHANGED <<activeRun, runs, stops, stopped>>
  BY DEF EntryMissing
<1>2. ~stopped /\ fibers \in Seq(Place)
  BY <1>1 DEF IInv, TypeOK, StoppedStaysStopped
<1>3. mutex = "start" /\ \A j \in 1..Len(fibers) : fibers[j] = "preparing" => j = i
  BY <1>1 DEF IInv, OneStarts
<1>4. /\ Cancelled(i) \in Seq(Place) /\ Len(Cancelled(i)) = Len(fibers)
      /\ \A j \in 1..Len(fibers) :
           Cancelled(i)[j] = IF j \in {i, restartFiber} THEN "done" ELSE fibers[j]
  BY <1>2, FibersCancelled
<1>5. \A j \in 1..Len(fibers) : Cancelled(i)[j] # "sleeping" /\ Cancelled(i)[j] # "preparing"
  BY <1>3, <1>4 DEF IInv, OneSleeps
<1>6. /\ fibers' \in Seq(Place) /\ restartFiber' \in Nat /\ OneSleeps'
      /\ \A j \in 1..Len(fibers') : fibers'[j] # "preparing"
  <2>1. 0 \in Nat
    OBVIOUS
  <2> QED
    BY <1>1, <1>4, <1>5, <2>1, Scheduled
<1>7. TypeOK'
  BY <1>1, <1>6 DEF IInv, TypeOK
<1>8. OneStarts'
  BY <1>6 DEF OneStarts
<1>9. OneEnds' /\ EndsLast' /\ NoBackendIsLeftBehind' /\ StoppedStaysStopped'
  <2>1. \A r \in 1..Len(runs) : runs[r].at # "finalizing"
    BY <1>3 DEF IInv, OneEnds
  <2> QED
    BY <1>1, <1>2, <2>1 DEF IInv, OneEnds, EndsLast, NoBackendIsLeftBehind, StoppedStaysStopped
<1> QED
  BY <1>6, <1>7, <1>8, <1>9 DEF IInv

LEMMA LaunchKeeps == ASSUME IInv, NEW i \in 1..Len(fibers), Launch(i) PROVE IInv'
<1> DEFINE n == Len(runs) + 1
           new == [process |-> "spawning", at |-> "running", closed |-> FALSE]
<1>1. /\ fibers[i] = "preparing" /\ desired' = TRUE /\ ready' = FALSE
      /\ fibers' = Cancelled(i) /\ restartFiber' = 0 /\ mutex' = "free"
      /\ runs' = Append(runs, new) /\ activeRun' = n
      /\ UNCHANGED <<stops, stopped, counts>>
  BY DEF Launch
<1>2. ~stopped /\ fibers \in Seq(Place) /\ runs \in Seq(RunRecord) /\ Len(runs) \in Nat
  BY <1>1 DEF IInv, TypeOK, StoppedStaysStopped
<1>3. mutex = "start" /\ activeRun = 0 /\ \A j \in 1..Len(fibers) : fibers[j] = "preparing" => j = i
  BY <1>1 DEF IInv, OneStarts
<1>4. /\ fibers' \in Seq(Place) /\ Len(fibers') = Len(fibers)
      /\ \A j \in 1..Len(fibers) : fibers'[j] = IF j \in {i, restartFiber} THEN "done" ELSE fibers[j]
  BY <1>1, <1>2, FibersCancelled
<1>5. new \in RunRecord
  BY DEF RunRecord
<1>6. /\ runs' \in Seq(RunRecord) /\ Len(runs') = n /\ runs'[n] = new
      /\ \A r \in 1..Len(runs) : runs'[r] = runs[r]
  BY <1>1, <1>2, <1>5, AppendProperties
<1>7. TypeOK'
  <2>1. activeRun' \in Nat /\ restartFiber' \in Nat
    BY <1>1, <1>2
  <2>2. desired' \in BOOLEAN /\ ready' \in BOOLEAN /\ stopped' \in BOOLEAN
    BY <1>1 DEF IInv, TypeOK
  <2> QED
    BY <1>4, <1>6, <2>1, <2>2 DEF TypeOK
<1>8. OneStarts' /\ OneSleeps'
  BY <1>3, <1>4 DEF IInv, OneStarts, OneSleeps
<1>9. ASSUME NEW r \in 1..Len(runs')
      PROVE  /\ runs'[r].at # "finalizing"
             /\ runs'[r].at # "running" => runs'[r].process = "ended"
             /\ runs'[r].process # "ended" /\ ~runs'[r].closed => activeRun' = r
  <2>1. CASE r = n
    BY <1>1, <1>6, <2>1
  <2>2. CASE r \in 1..Len(runs)
    BY <1>3, <1>6, <2>2 DEF IInv, OneEnds, EndsLast, NoBackendIsLeftBehind
  <2> QED
    BY <1>2, <1>6, <2>1, <2>2
<1>10. OneEnds' /\ EndsLast' /\ NoBackendIsLeftBehind' /\ StoppedStaysStopped'
  BY <1>1, <1>2, <1>9 DEF OneEnds, EndsLast, NoBackendIsLeftBehind, StoppedStaysStopped
<1> QED
  BY <1>7, <1>8, <1>10 DEF IInv

-----------------------------------------------------------------------------
LEMMA SpawnedKeeps == ASSUME IInv, NEW r \in 1..Len(runs), Spawned(r) PROVE IInv'
<1> DEFINE new == [runs[r] EXCEPT !.process = "up"]
<1>1. /\ runs[r].process = "spawning" /\ runs' = [runs EXCEPT ![r] = new]
      /\ UNCHANGED <<desired, configured, ready, activeRun, restartFiber, mutex, fibers, stops, stopped, counts>>
  BY DEF Spawned
<1>2. runs \in Seq(RunRecord) /\ runs[r] \in RunRecord
  BY ElementOfSeq DEF IInv, TypeOK
<1>3. new \in RunRecord /\ new.process = "up" /\ new.at = runs[r].at /\ new.closed = runs[r].closed
  BY <1>2 DEF RunRecord
<1> HIDE DEF new
<1>4. /\ runs' \in Seq(RunRecord) /\ Len(runs') = Len(runs)
      /\ \A s \in 1..Len(runs) : runs'[s] = IF s = r THEN new ELSE runs[s]
  BY <1>1, <1>2, <1>3, RunChanged
<1>5. TypeOK' /\ OneStarts' /\ OneSleeps'
  BY <1>1, <1>4 DEF IInv, TypeOK, OneStarts, OneSleeps
<1>6. OneEnds' /\ EndsLast'
  BY <1>1, <1>3, <1>4 DEF IInv, OneEnds, EndsLast
<1>7. NoBackendIsLeftBehind' /\ StoppedStaysStopped'
  BY <1>1, <1>3, <1>4 DEF IInv, NoBackendIsLeftBehind, StoppedStaysStopped
<1> QED
  BY <1>5, <1>6, <1>7 DEF IInv

LEMMA ProcessEndsKeeps == ASSUME IInv, NEW r \in 1..Len(runs), ProcessEnds(r) PROVE IInv'
<1> DEFINE new == [runs[r] EXCEPT !.process = "ended", !.at = "ending"]
<1>1. /\ runs[r].process # "ended" /\ runs' = [runs EXCEPT ![r].process = "ended", ![r].at = "ending"]
      /\ UNCHANGED <<desired, configured, ready, activeRun, restartFiber, mutex, fibers, stops, stopped>>
  BY DEF ProcessEnds
<1>2. runs \in Seq(RunRecord) /\ runs[r] \in RunRecord
  BY ElementOfSeq DEF IInv, TypeOK
<1>3. new \in RunRecord /\ new.process = "ended" /\ new.at = "ending" /\ new.closed = runs[r].closed
  BY <1>2 DEF RunRecord
<1>4. runs' = [runs EXCEPT ![r] = new]
  BY <1>1, <1>2
<1> HIDE DEF new
<1>5. /\ runs' \in Seq(RunRecord) /\ Len(runs') = Len(runs)
      /\ \A s \in 1..Len(runs) : runs'[s] = IF s = r THEN new ELSE runs[s]
  BY <1>2, <1>3, <1>4, RunChanged
<1>6. TypeOK' /\ OneStarts' /\ OneSleeps'
  BY <1>1, <1>5 DEF IInv, TypeOK, OneStarts, OneSleeps
<1>7. OneEnds' /\ EndsLast'
  BY <1>1, <1>3, <1>5 DEF IInv, OneEnds, EndsLast
<1>8. NoBackendIsLeftBehind' /\ StoppedStaysStopped'
  BY <1>1, <1>3, <1>5 DEF IInv, NoBackendIsLeftBehind, StoppedStaysStopped
<1> QED
  BY <1>6, <1>7, <1>8 DEF IInv

LEMMA ReadyKeeps == ASSUME IInv, NEW r \in 1..Len(runs), Ready(r) PROVE IInv'
<1>1. /\ activeRun = r /\ ready' = TRUE
      /\ UNCHANGED <<desired, configured, activeRun, restartFiber, mutex, fibers, runs, stops, stopped, counts>>
  BY DEF Ready
<1>2. ~stopped
  BY <1>1 DEF IInv, StoppedStaysStopped
<1>3. TypeOK' /\ OneStarts' /\ OneSleeps'
  BY <1>1 DEF IInv, TypeOK, OneStarts, OneSleeps
<1>4. OneEnds' /\ EndsLast' /\ NoBackendIsLeftBehind' /\ StoppedStaysStopped'
  BY <1>1, <1>2 DEF IInv, OneEnds, EndsLast, NoBackendIsLeftBehind, StoppedStaysStopped
<1> QED
  BY <1>3, <1>4 DEF IInv

LEMMA EndKeeps == ASSUME IInv, NEW r \in 1..Len(runs), End(r) PROVE IInv'
<1>1. /\ runs[r].at = "ending" /\ mutex = "free"
      /\ UNCHANGED <<desired, configured, ready, restartFiber, fibers, stops, stopped, counts>>
  BY DEF End
<1>2. runs \in Seq(RunRecord) /\ runs[r] \in RunRecord /\ runs[r].process = "ended"
  BY <1>1, ElementOfSeq DEF IInv, TypeOK, EndsLast
<1>3. \A s \in 1..Len(runs) : runs[s].at # "finalizing"
  BY <1>1 DEF IInv, OneEnds
<1>4. \A j \in 1..Len(fibers) : fibers[j] # "preparing"
  BY <1>1 DEF IInv, OneStarts
<1>5. OneSleeps' /\ OneStarts'
  BY <1>1, <1>4 DEF IInv, OneSleeps, OneStarts
<1>6. CASE activeRun = r
  <2> DEFINE new == [runs[r] EXCEPT !.at = "finalizing"]
  <2>1. activeRun' = 0 /\ mutex' = "end" /\ runs' = [runs EXCEPT ![r] = new]
    BY <1>6 DEF End, IsActive
  <2>2. new \in RunRecord /\ new.process = "ended" /\ new.at = "finalizing" /\ new.closed = runs[r].closed
    BY <1>2 DEF RunRecord
  <2> HIDE DEF new
  <2>3. /\ runs' \in Seq(RunRecord) /\ Len(runs') = Len(runs)
        /\ \A s \in 1..Len(runs) : runs'[s] = IF s = r THEN new ELSE runs[s]
    BY <1>2, <2>1, <2>2, RunChanged
  <2>4. ~stopped
    BY <1>6 DEF IInv, StoppedStaysStopped
  <2>5. TypeOK'
    BY <1>1, <2>1, <2>3 DEF IInv, TypeOK
  <2>6. OneEnds' /\ EndsLast'
    BY <1>3, <2>1, <2>2, <2>3 DEF IInv, OneEnds, EndsLast
  <2>7. NoBackendIsLeftBehind' /\ StoppedStaysStopped'
    BY <1>1, <1>6, <2>1, <2>2, <2>3, <2>4 DEF IInv, NoBackendIsLeftBehind, StoppedStaysStopped
  <2> QED
    BY <1>5, <2>5, <2>6, <2>7 DEF IInv
<1>7. CASE activeRun # r
  <2> DEFINE new == [runs[r] EXCEPT !.at = "ended", !.closed = TRUE]
  <2>1. UNCHANGED <<activeRun, mutex>> /\ runs' = [runs EXCEPT ![r].at = "ended", ![r].closed = TRUE]
    BY <1>7 DEF End, IsActive
  <2>2. new \in RunRecord /\ new.process = "ended" /\ new.at = "ended" /\ new.closed = TRUE
    BY <1>2 DEF RunRecord
  <2>3. runs' = [runs EXCEPT ![r] = new]
    BY <1>2, <2>1
  <2> HIDE DEF new
  <2>4. /\ runs' \in Seq(RunRecord) /\ Len(runs') = Len(runs)
        /\ \A s \in 1..Len(runs) : runs'[s] = IF s = r THEN new ELSE runs[s]
    BY <1>2, <2>2, <2>3, RunChanged
  <2>5. TypeOK'
    BY <1>1, <2>1, <2>4 DEF IInv, TypeOK
  <2>6. OneEnds' /\ EndsLast'
    <3>1. \A s \in 1..Len(runs') : runs'[s].at # "finalizing"
      BY <1>3, <2>2, <2>4
    <3>2. \A s \in 1..Len(runs') : runs'[s].at # "running" => runs'[s].process = "ended"
      BY <2>2, <2>4 DEF IInv, EndsLast
    <3> QED
      BY <3>1, <3>2 DEF OneEnds, EndsLast
  <2>7. NoBackendIsLeftBehind' /\ StoppedStaysStopped'
    BY <1>1, <2>1, <2>2, <2>4 DEF IInv, NoBackendIsLeftBehind, StoppedStaysStopped
  <2> QED
    BY <1>5, <2>5, <2>6, <2>7 DEF IInv
<1> QED
  BY <1>6, <1>7

LEMMA FinalizedKeeps == ASSUME IInv, NEW r \in 1..Len(runs), Finalized(r) PROVE IInv'
<1> DEFINE new == [runs[r] EXCEPT !.at = "ended", !.closed = TRUE]
<1>1. /\ runs[r].at = "finalizing" /\ ready' = FALSE /\ mutex' = "free"
      /\ runs' = [runs EXCEPT ![r].at = "ended", ![r].closed = TRUE]
      /\ UNCHANGED <<desired, configured, activeRun, stops, stopped, counts>>
  BY DEF Finalized
<1>2. runs \in Seq(RunRecord) /\ runs[r] \in RunRecord /\ runs[r].process = "ended"
      /\ fibers \in Seq(Place) /\ restartFiber \in Nat
  BY <1>1, ElementOfSeq DEF IInv, TypeOK, EndsLast
<1>3. new \in RunRecord /\ new.process = "ended" /\ new.at = "ended" /\ new.closed = TRUE
  BY <1>2 DEF RunRecord
<1>4. runs' = [runs EXCEPT ![r] = new]
  BY <1>1, <1>2
<1> HIDE DEF new
<1>5. /\ runs' \in Seq(RunRecord) /\ Len(runs') = Len(runs)
      /\ \A s \in 1..Len(runs) : runs'[s] = IF s = r THEN new ELSE runs[s]
  BY <1>2, <1>3, <1>4, RunChanged
<1>6. \A s \in 1..Len(runs) : runs[s].at = "finalizing" => s = r
  BY <1>1 DEF IInv, OneEnds
<1>7. \A j \in 1..Len(fibers) : fibers[j] # "preparing"
  BY <1>1 DEF IInv, OneStarts, OneEnds
<1>8. /\ fibers' \in Seq(Place) /\ restartFiber' \in Nat /\ OneSleeps'
      /\ \A j \in 1..Len(fibers') : fibers'[j] # "preparing"
  <2>1. CASE desired
    <3>1. Schedule(fibers, restartFiber)
      BY <2>1 DEF Finalized, Again
    <3>2. \A j \in 1..Len(fibers) : fibers[j] = "sleeping" => j = restartFiber
      BY DEF IInv, OneSleeps
    <3> QED
      BY <1>2, <1>7, <3>1, <3>2, Scheduled
  <2>2. CASE ~desired
    <3>1. UNCHANGED <<fibers, restartFiber>>
      BY <2>2 DEF Finalized, Again
    <3> QED
      BY <1>2, <1>7, <3>1 DEF IInv, OneSleeps
  <2> QED
    BY <2>1, <2>2
<1>9. TypeOK' /\ OneStarts'
  BY <1>1, <1>5, <1>8 DEF IInv, TypeOK, OneStarts
<1>10. OneEnds' /\ EndsLast'
  BY <1>3, <1>5, <1>6 DEF IInv, OneEnds, EndsLast
<1>11. NoBackendIsLeftBehind'
  BY <1>1, <1>3, <1>5 DEF IInv, NoBackendIsLeftBehind
<1>12. StoppedStaysStopped'
  <2> SUFFICES ASSUME stopped PROVE StoppedStaysStopped'
    BY <1>1 DEF StoppedStaysStopped
  <2>1. StoppedStaysStopped /\ ~desired
    BY DEF IInv, StoppedStaysStopped
  <2>2. UNCHANGED <<fibers, restartFiber>>
    BY <2>1 DEF Finalized, Again
  <2> QED
    BY <1>1, <1>3, <1>5, <2>1, <2>2 DEF StoppedStaysStopped
<1> QED
  BY <1>8, <1>9, <1>10, <1>11, <1>12 DEF IInv

-----------------------------------------------------------------------------
LEMMA StopKeeps == ASSUME IInv, NEW s \in Stops, Stop(s) PROVE IInv'
<1>1. /\ mutex = "free" /\ desired' = FALSE /\ ready' = FALSE /\ activeRun' = 0 /\ restartFiber' = 0
      /\ fibers' = Cancelled(0)
      /\ runs' = [r \in 1..Len(runs) |->
                    IF r = activeRun THEN [runs[r] EXCEPT !.closed = TRUE] ELSE runs[r]]
      /\ stopped' = \A i \in 1..Len(fibers) : fibers[i] # "waiting"
      /\ UNCHANGED mutex
  BY DEF Stop
<1>2. fibers \in Seq(Place) /\ runs \in Seq(RunRecord) /\ Len(runs) \in Nat
      /\ \A r \in 1..Len(runs) : runs[r] \in RunRecord
  BY ElementOfSeq DEF IInv, TypeOK
<1>3. \A j \in 1..Len(fibers) : fibers[j] # "preparing" /\ (fibers[j] = "sleeping" => j = restartFiber)
  BY <1>1 DEF IInv, OneStarts, OneSleeps
<1>4. /\ fibers' \in Seq(Place) /\ Len(fibers') = Len(fibers)
      /\ \A j \in 1..Len(fibers) : fibers'[j] = IF j \in {0, restartFiber} THEN "done" ELSE fibers[j]
  BY <1>1, <1>2, FibersCancelled
<1>5. ASSUME NEW r \in 1..Len(runs)
      PROVE  /\ runs'[r] \in RunRecord /\ runs'[r].process = runs[r].process /\ runs'[r].at = runs[r].at
             /\ runs[r].closed \/ r = activeRun => runs'[r].closed
  <2>1. CASE r = activeRun
    <3>1. runs'[r] = [runs[r] EXCEPT !.closed = TRUE]
      BY <1>1, <2>1
    <3> QED
      BY <1>2, <3>1 DEF RunRecord
  <2>2. CASE r # activeRun
    BY <1>1, <1>2, <2>2
  <2> QED
    BY <2>1, <2>2
<1>6. runs' \in Seq(RunRecord) /\ Len(runs') = Len(runs)
  <2>1. DOMAIN runs' = 1..Len(runs)
    BY <1>1
  <2>2. runs' = [r \in 1..Len(runs) |-> runs'[r]]
    BY <1>1
  <2>3. runs' \in [1..Len(runs) -> RunRecord]
    BY <1>5, <2>2
  <2> QED
    BY <1>2, <2>1, <2>3, LenProperties
<1>7. TypeOK'
  BY <1>1, <1>4, <1>6 DEF IInv, TypeOK
<1>8. OneStarts' /\ OneSleeps'
  BY <1>3, <1>4 DEF OneStarts, OneSleeps
<1>9. OneEnds' /\ EndsLast'
  BY <1>1, <1>5, <1>6 DEF IInv, OneEnds, EndsLast
<1>10. \A r \in 1..Len(runs') : runs'[r].process # "ended" => runs'[r].closed
  BY <1>5, <1>6 DEF IInv, NoBackendIsLeftBehind
<1>11. NoBackendIsLeftBehind'
  BY <1>10 DEF NoBackendIsLeftBehind
<1>12. StoppedStaysStopped'
  <2> SUFFICES ASSUME stopped'
               PROVE  \A j \in 1..Len(fibers') : fibers'[j] = "done"
    BY <1>1, <1>10 DEF StoppedStaysStopped
  <2>1. \A j \in 1..Len(fibers) : fibers[j] \in Place /\ fibers[j] # "waiting"
    BY <1>1, <1>2, ElementOfSeq
  <2> QED
    BY <1>3, <1>4, <2>1 DEF Place
<1> QED
  BY <1>7, <1>8, <1>9, <1>11, <1>12 DEF IInv

\* Asking for a stop, its return and stuttering change nothing that counts.
LEMMA OthersKeep ==
  ASSUME IInv, UNCHANGED <<desired, ready, activeRun, restartFiber, mutex, fibers, runs, stopped>>
  PROVE  IInv'
<1>1. TypeOK' /\ OneStarts' /\ OneSleeps'
  BY DEF IInv, TypeOK, OneStarts, OneSleeps
<1>2. OneEnds' /\ EndsLast' /\ NoBackendIsLeftBehind' /\ StoppedStaysStopped'
  BY DEF IInv, OneEnds, EndsLast, NoBackendIsLeftBehind, StoppedStaysStopped
<1> QED
  BY <1>1, <1>2 DEF IInv

\* Every step keeps the invariant.
LEMMA StepKeeps == IInv /\ [BackendNext]_backendVars => IInv'
<1> SUFFICES ASSUME IInv, [BackendNext]_backendVars PROVE IInv'
  OBVIOUS
<1>1. CASE Request
  BY <1>1, RequestKeeps
<1>2. CASE \E i \in 1..Len(fibers) : Starting(i)
  BY <1>2, BeginKeeps, UnconfiguredKeeps, EntryMissingKeeps, LaunchKeeps, WakeKeeps DEF Starting
<1>3. CASE \E r \in 1..Len(runs) : Run(r)
  BY <1>3, SpawnedKeeps, ProcessEndsKeeps, ReadyKeeps, EndKeeps, FinalizedKeeps DEF Run
<1>4. CASE \E s \in Stops : RequestStop(s) \/ Stop(s) \/ StopReturns(s)
  BY <1>4, StopKeeps, OthersKeep DEF RequestStop, StopReturns
<1>5. CASE UNCHANGED backendVars
  BY <1>5, OthersKeep DEF backendVars
<1> QED
  BY <1>1, <1>2, <1>3, <1>4, <1>5 DEF BackendNext

\* For every number of starts, stops and failures: a process that runs and
\* whose run was not closed is the active run's.
THEOREM NoneLeftBehind == BackendSpec => []NoBackendIsLeftBehind
<1>1. IInv => NoBackendIsLeftBehind
  BY DEF IInv
<1> QED
  BY <1>1, InitEstablishes, StepKeeps, PTL DEF BackendSpec

\* For every number of starts, stops and failures: after a stop nothing is
\* left that would start a backend.
THEOREM StopHolds == BackendSpec => []StoppedStaysStopped
<1>1. IInv => StoppedStaysStopped
  BY DEF IInv
<1> QED
  BY <1>1, InitEstablishes, StepKeeps, PTL DEF BackendSpec

-----------------------------------------------------------------------------
(* ProviderSessions.                                                       *)

Kinds == {"turn", "other", "stop", Nothing}
Places == {"idle", "routed", "recovering", "recovered", "ready", "done"}
CallRecords == [at : Places, kind : Kinds, instance : Instances \cup {Nothing}]

SessionsTypeOK ==
  /\ live \subseteq Instances /\ binding \in Instances \cup {Nothing}
  /\ reactor = [at |-> reactor.at, instance |-> reactor.instance, stale |-> reactor.stale]
  /\ reactor.at \in {"idle", "starting", "started"}
  /\ reactor.at # "idle" => reactor.instance \in Instances
  /\ reactor.at # "started" => reactor.stale = {}
  /\ calls \in [Calls -> CallRecords]
  /\ \A c \in Calls : calls[c].at # "idle" => calls[c].instance \in Instances

\* All calls under way are routed to instance i.
RoutedTo(i) == \A c \in Calls : calls[c].at # "idle" => calls[c].instance = i

\* What a start that no call overlaps and of which nothing failed keeps: the
\* calls under way agree with the binding and, during the start, with it.
Agreed ==
  ~overlapped /\ ~failed =>
    /\ RoutedTo(binding)
    /\ reactor.at # "idle" => RoutedTo(reactor.instance)
    /\ reactor.at # "started" => Listed
    /\ reactor.at = "started" => live \subseteq {reactor.instance} \cup reactor.stale

AgreedInv == SessionsTypeOK /\ Agreed

-----------------------------------------------------------------------------
\* Moving a call changes its place and nothing else.
LEMMA MovedCalls ==
  ASSUME SessionsTypeOK, NEW c \in Calls, NEW at \in Places \ {"idle"}, calls[c].at # "idle", Moves(c, at)
  PROVE  /\ calls' \in [Calls -> CallRecords]
         /\ \A d \in Calls : calls'[d].instance = calls[d].instance
         /\ \A d \in Calls : calls'[d].at # "idle" <=> calls[d].at # "idle"
<1>1. calls[c] \in CallRecords
  BY DEF SessionsTypeOK
<1>2. [calls[c] EXCEPT !.at = at] \in CallRecords
  BY <1>1 DEF CallRecords
<1>3. calls' = [calls EXCEPT ![c] = [calls[c] EXCEPT !.at = at]]
  BY DEF Moves, SessionsTypeOK
<1>4. calls' \in [Calls -> CallRecords]
  BY <1>2, <1>3 DEF SessionsTypeOK
<1>5. ASSUME NEW d \in Calls
      PROVE  calls'[d].instance = calls[d].instance /\ (calls'[d].at # "idle" <=> calls[d].at # "idle")
  <2>1. CASE d = c
    BY <1>1, <1>3, <2>1 DEF SessionsTypeOK, CallRecords
  <2>2. CASE d # c
    BY <1>3, <2>2 DEF SessionsTypeOK
  <2> QED
    BY <2>1, <2>2
<1> QED
  BY <1>4, <1>5

\* A call that ends leaves the others as they are.
LEMMA EndedCalls ==
  ASSUME SessionsTypeOK, NEW c \in Calls, Ends(c)
  PROVE  /\ calls' \in [Calls -> CallRecords]
         /\ \A d \in Calls : calls'[d].at # "idle" => calls[d].at # "idle" /\ calls'[d] = calls[d]
<1>1. NoCall \in CallRecords
  BY DEF NoCall, CallRecords, Kinds, Places
<1>2. calls' = [calls EXCEPT ![c] = NoCall]
  BY DEF Ends
<1>3. calls' \in [Calls -> CallRecords]
  BY <1>1, <1>2 DEF SessionsTypeOK
<1>4. ASSUME NEW d \in Calls, calls'[d].at # "idle"
      PROVE  calls[d].at # "idle" /\ calls'[d] = calls[d]
  <2>1. NoCall.at = "idle"
    BY DEF NoCall
  <2>2. CASE d = c
    BY <1>2, <1>4, <2>1, <2>2 DEF SessionsTypeOK
  <2>3. CASE d # c
    BY <1>2, <1>4, <2>3 DEF SessionsTypeOK
  <2> QED
    BY <2>2, <2>3
<1> QED
  BY <1>3, <1>4

LEMMA AgreedInit == SessionsInit => AgreedInv
<1> SUFFICES ASSUME SessionsInit PROVE AgreedInv
  OBVIOUS
<1>1. NoStart = [at |-> "idle", instance |-> Nothing, stale |-> {}]
  BY DEF NoStart
<1>2. NoCall \in CallRecords /\ NoCall.at = "idle"
  BY DEF NoCall, CallRecords, Kinds, Places
<1>3. SessionsTypeOK
  BY <1>1, <1>2 DEF SessionsInit, SessionsTypeOK
<1>4. Agreed
  BY <1>1, <1>2 DEF SessionsInit, Agreed, RoutedTo, Listed
<1> QED
  BY <1>3, <1>4 DEF AgreedInv

-----------------------------------------------------------------------------
\* The steps of startSession.
LEMMA StartKeeps == ASSUME AgreedInv, Start PROVE AgreedInv'
<1> USE DEF AgreedInv
<1>1. ASSUME NEW i \in Instances, Ensure(i) PROVE AgreedInv'
  <2>1. reactor' = [at |-> "starting", instance |-> i, stale |-> {}]
        /\ live' = live /\ binding' = binding /\ calls' = calls
    BY <1>1 DEF Ensure
  <2>2. SessionsTypeOK'
    BY <2>1 DEF SessionsTypeOK
  <2>3. ~overlapped' => RoutedTo(i) /\ RoutedTo(binding)
    BY <1>1 DEF Ensure, RoutedElsewhere, RoutedTo
  <2>4. Listed
    BY <1>1 DEF Ensure
  <2>5. Agreed'
    BY <2>1, <2>3, <2>4 DEF Agreed, RoutedTo, Listed
  <2> QED
    BY <2>2, <2>5
<1>2. CASE Started
  <2>1. reactor' = [at |-> "started", instance |-> reactor.instance, stale |-> Instances \ {reactor.instance}]
    BY <1>2 DEF Started, SessionsTypeOK, Stale
  <2>2. reactor.at = "starting" /\ live' = live \cup {reactor.instance} /\ binding' = binding
        /\ calls' = calls /\ overlapped' = overlapped /\ failed' = failed
    BY <1>2 DEF Started
  <2>3. SessionsTypeOK'
    BY <2>1, <2>2 DEF SessionsTypeOK
  <2>4. live' \subseteq {reactor'.instance} \cup reactor'.stale
    BY <2>1, <2>2 DEF SessionsTypeOK
  <2>5. Agreed'
    BY <2>1, <2>2, <2>4 DEF Agreed, RoutedTo
  <2> QED
    BY <2>3, <2>5
<1>3. CASE StartFails
  <2>1. reactor' = NoStart /\ reactor.at = "starting" /\ live' = live /\ binding' = binding
        /\ calls' = calls /\ overlapped' = overlapped /\ failed' = failed
    BY <1>3 DEF StartFails
  <2>2. SessionsTypeOK'
    BY <2>1 DEF SessionsTypeOK, NoStart
  <2>3. Agreed'
    BY <2>1 DEF Agreed, RoutedTo, Listed, NoStart
  <2> QED
    BY <2>2, <2>3
<1>4. ASSUME NEW i \in Instances, StopStale(i) PROVE AgreedInv'
  <2>1. reactor' = [at |-> reactor.at, instance |-> reactor.instance, stale |-> reactor.stale \ {i}]
    BY <1>4 DEF StopStale, SessionsTypeOK
  <2>2. reactor.at = "started" /\ binding' = binding /\ calls' = calls /\ overlapped' = overlapped
    BY <1>4 DEF StopStale, SessionsTypeOK
  <2>3. live' \subseteq live
    BY <1>4 DEF StopStale
  <2>4. SessionsTypeOK'
    BY <2>1, <2>2, <2>3 DEF SessionsTypeOK
  <2>5. ~failed' => ~failed /\ live' = live \ {i}
    BY <1>4 DEF StopStale
  <2>6. Agreed'
    BY <2>1, <2>2, <2>5 DEF Agreed, RoutedTo
  <2> QED
    BY <2>4, <2>6
<1>5. CASE Bind
  <2>1. reactor' = NoStart /\ reactor.at = "started" /\ reactor.stale = {} /\ live' = live
        /\ calls' = calls /\ overlapped' = overlapped
    BY <1>5 DEF Bind
  <2>2. binding' \in {binding, reactor.instance}
    BY <1>5 DEF Bind
  <2>3. SessionsTypeOK'
    BY <2>1, <2>2 DEF SessionsTypeOK, NoStart
  <2>4. ~failed' => ~failed /\ binding' = reactor.instance
    BY <1>5 DEF Bind
  <2>5. Agreed'
    BY <2>1, <2>4 DEF Agreed, RoutedTo, Listed, NoStart
  <2> QED
    BY <2>3, <2>5
<1> QED
  BY <1>1, <1>2, <1>3, <1>4, <1>5 DEF Start

-----------------------------------------------------------------------------
\* What the steps of a call have in common: the calls under way, other than
\* those that end, keep their instances, and the reactor is elsewhere.
LEMMA CallsKeep ==
  ASSUME AgreedInv, UNCHANGED <<reactor, overlapped, failed>>,
         calls' \in [Calls -> CallRecords],
         \A d \in Calls : calls'[d].at # "idle" =>
           calls[d].at # "idle" /\ calls'[d].instance = calls[d].instance,
         live' \subseteq Instances, binding' \in Instances \cup {Nothing},
         ~overlapped /\ ~failed =>
           /\ binding' = binding
           /\ \A j \in live' : j \in live \/ \E c \in Calls : calls[c].at # "idle" /\ calls[c].instance = j
  PROVE  AgreedInv'
<1>1. SessionsTypeOK'
  BY DEF AgreedInv, SessionsTypeOK
<1>2. ASSUME ~overlapped, ~failed
      PROVE  Agreed'
  <2>1. binding' = binding
    BY <1>2
  <2>2. RoutedTo(binding) /\ (reactor.at # "idle" => RoutedTo(reactor.instance))
    BY <1>2 DEF AgreedInv, Agreed
  <2>3. RoutedTo(binding)' /\ (reactor'.at # "idle" => RoutedTo(reactor.instance)')
    BY <2>1, <2>2 DEF RoutedTo
  <2>4. \A j \in live' : j \in live \/ j = binding
    BY <1>2, <2>2 DEF RoutedTo
  <2>5. reactor.at # "idle" => \A j \in live' : j \in live \/ j = reactor.instance
    BY <1>2, <2>2 DEF RoutedTo
  <2>6. reactor'.at # "started" => Listed'
    BY <1>2, <2>1, <2>4 DEF AgreedInv, Agreed, Listed
  <2>7. reactor'.at = "started" => live' \subseteq {reactor'.instance} \cup reactor'.stale
    BY <1>2, <2>5 DEF AgreedInv, Agreed
  <2> QED
    BY <2>3, <2>6, <2>7 DEF Agreed, RoutedTo
<1>3. Agreed'
  BY <1>2 DEF Agreed
<1> QED
  BY <1>1, <1>3 DEF AgreedInv

\* The steps of a routed call.
LEMMA RoutedKeeps == ASSUME AgreedInv, NEW c \in Calls, Routed(c) PROVE AgreedInv'
<1> USE DEF AgreedInv
<1>1. ASSUME NEW kind \in {"turn", "other", "stop"}, Route(c, kind) PROVE AgreedInv'
  <2> DEFINE new == [at |-> "routed", kind |-> kind, instance |-> binding]
  <2>1. new \in CallRecords /\ binding \in Instances
    BY <1>1 DEF Route, SessionsTypeOK, CallRecords, Kinds, Places
  <2>2. calls' = [calls EXCEPT ![c] = new] /\ live' = live /\ binding' = binding
        /\ reactor' = reactor /\ failed' = failed
    BY <1>1 DEF Route
  <2>3. ASSUME NEW d \in Calls PROVE calls'[d] = IF d = c THEN new ELSE calls[d]
    BY <2>2 DEF SessionsTypeOK
  <2>4. SessionsTypeOK'
    <3>1. calls' \in [Calls -> CallRecords]
      BY <2>1, <2>2 DEF SessionsTypeOK
    <3>2. \A d \in Calls : calls'[d].at # "idle" => calls'[d].instance \in Instances
      BY <2>1, <2>3 DEF SessionsTypeOK
    <3> QED
      BY <2>2, <3>1, <3>2 DEF SessionsTypeOK
  <2>5. ~overlapped' => ~overlapped /\ (reactor.at # "idle" => reactor.instance = binding)
    BY <1>1 DEF Route
  <2>6. Agreed'
    BY <2>2, <2>3, <2>5 DEF Agreed, RoutedTo, Listed
  <2> QED
    BY <2>4, <2>6
<1>2. CASE Check(c)
  <2>1. PICK at \in {"ready", "done", "recovering"} : Moves(c, at)
    BY <1>2 DEF Check
  <2>2. calls[c].at # "idle"
    BY <1>2 DEF Check
  <2>3. at \in Places \ {"idle"}
    BY DEF Places
  <2> QED
    BY <1>2, <2>1, <2>2, <2>3, MovedCalls, CallsKeep DEF Check, SessionsTypeOK
<1>3. CASE Recover(c)
  <2>1. calls[c].at # "idle" /\ Moves(c, "recovered") /\ "recovered" \in Places \ {"idle"}
    BY <1>3 DEF Recover, Places
  <2>2. live' = live \cup {calls[c].instance} /\ calls[c].instance \in Instances
    BY <1>3, <2>1 DEF Recover, SessionsTypeOK
  <2> QED
    BY <1>3, <2>1, <2>2, MovedCalls, CallsKeep DEF Recover, SessionsTypeOK
<1>4. CASE Adopt(c)
  <2>1. calls[c].at # "idle" /\ Moves(c, "ready") /\ "ready" \in Places \ {"idle"}
    BY <1>4 DEF Adopt, Places
  <2>2. binding' = calls[c].instance /\ calls[c].instance \in Instances
    BY <1>4, <2>1 DEF Adopt, SessionsTypeOK
  <2>3. ~overlapped /\ ~failed => binding' = binding
    BY <2>1, <2>2 DEF Agreed, RoutedTo
  <2> QED
    BY <1>4, <2>1, <2>2, <2>3, MovedCalls, CallsKeep DEF Adopt, SessionsTypeOK
<1>5. CASE Call(c)
  <2>1. live' \subseteq live
    BY <1>5 DEF Call
  <2>2. CASE Ends(c)
    BY <1>5, <2>1, <2>2, EndedCalls, CallsKeep DEF Call, SessionsTypeOK
  <2>3. CASE Moves(c, "done")
    <3>1. calls[c].at # "idle" /\ "done" \in Places \ {"idle"}
      BY <1>5 DEF Call, Places
    <3> QED
      BY <1>5, <2>1, <2>3, <3>1, MovedCalls, CallsKeep DEF Call, SessionsTypeOK
  <2> QED
    BY <1>5, <2>2, <2>3 DEF Call
<1>6. CASE Record(c)
  <2>1. calls[c].at # "idle"
    BY <1>6 DEF Record
  <2>2. binding' = calls[c].instance /\ calls[c].instance \in Instances
    BY <1>6, <2>1 DEF Record, SessionsTypeOK
  <2>3. ~overlapped /\ ~failed => binding' = binding
    BY <2>1, <2>2 DEF Agreed, RoutedTo
  <2> QED
    BY <1>6, <2>2, <2>3, EndedCalls, CallsKeep DEF Record, SessionsTypeOK
<1>7. CASE CallFails(c)
  BY <1>7, EndedCalls, CallsKeep DEF CallFails, SessionsTypeOK
<1> QED
  BY <1>1, <1>2, <1>3, <1>4, <1>5, <1>6, <1>7 DEF Routed

\* The exit of an agent and a restart of the server.
LEMMA OtherCallsKeep ==
  ASSUME AgreedInv, (\E i \in Instances : Exit(i)) \/ Restart \/ UNCHANGED sessionsVars
  PROVE  AgreedInv'
<1>1. CASE (\E i \in Instances : Exit(i)) \/ UNCHANGED sessionsVars
  BY <1>1 DEF AgreedInv, Exit, sessionsVars, SessionsTypeOK, Agreed, RoutedTo, Listed
<1>2. CASE Restart
  <2>1. NoCall \in CallRecords /\ NoCall.at = "idle"
    BY DEF NoCall, CallRecords, Kinds, Places
  <2>2. reactor' = NoStart /\ calls' = [c \in Calls |-> NoCall] /\ live' = {} /\ binding' \in Instances \cup {Nothing}
    BY <1>2 DEF Restart, AgreedInv, SessionsTypeOK
  <2>3. \A c \in Calls : calls'[c].at = "idle"
    BY <2>1, <2>2
  <2>4. SessionsTypeOK'
    BY <2>1, <2>2, <2>3 DEF SessionsTypeOK, NoStart
  <2>5. Agreed'
    BY <2>2, <2>3 DEF Agreed, RoutedTo, Listed, NoStart
  <2> QED
    BY <2>4, <2>5 DEF AgreedInv
<1> QED
  BY <1>1, <1>2

\* Every step keeps the invariant.
LEMMA SessionStepKeeps == AgreedInv /\ [SessionsNext]_sessionsVars => AgreedInv'
  BY StartKeeps, RoutedKeeps, OtherCallsKeep DEF SessionsNext

\* listSessions does not die between two starts, for every set of instances
\* and of calls, unless a call routed to another instance overlapped the last
\* start or a stop or write of it failed.
THEOREM SessionsBound == SessionsSpec => []SessionsAreBound
<1>1. AgreedInv => SessionsAreBound
  BY DEF AgreedInv, SessionsTypeOK, Agreed, SessionsAreBound
<1> QED
  BY <1>1, AgreedInit, SessionStepKeeps, PTL DEF SessionsSpec
=============================================================================
