---------------------------- MODULE ThreadProofs ----------------------------
(***************************************************************************)
(* That what the thread lists as a checkpoint is in git, for any number of *)
(* turns, edits, reverts and failures, and that placeholders are replaced; *)
(* that a fork is a snapshot of its source, and that a fork that fails is  *)
(* undone.                                                                 *)
(***************************************************************************)
EXTENDS Checkpoints, ThreadForks, TLAPS

\* What the reactor's step relies on: a capture is in git before it is recorded,
\* and a revert deletes nothing that it keeps, and what is listed and lacks its ref
\* is what the revert is deleting, or a failed one has deleted.
RecordsWhatIsThere == step = "record" => job.count \in DOMAIN refs
DeletesLaterOnes == step = "delete" => \A c \in job.stale : c > job.count
LacksWhatItDeletes ==
  \A t \in Turns : InGitAt(t) =>
    \/ checkpoint[t].count \in DOMAIN refs \cup torn
    \/ step = "delete" /\ checkpoint[t].count \in job.stale

StoredInv == RecordsWhatIsThere /\ DeletesLaterOnes /\ LacksWhatItDeletes

-----------------------------------------------------------------------------
\* Nothing is listed at first.
LEMMA StoredInit == CheckpointsInit => StoredInv
  BY DEF CheckpointsInit, StoredInv, RecordsWhatIsThere, DeletesLaterOnes, LacksWhatItDeletes,
         InGitAt, InGit, NoCheckpoint

\* A step that leaves the list, git and the reactor alone.
LEMMA StoredElsewhere ==
  ASSUME StoredInv, UNCHANGED <<git, checkpoint, reactorJob>>
  PROVE  StoredInv'
  BY DEF StoredInv, RecordsWhatIsThere, DeletesLaterOnes, LacksWhatItDeletes, InGitAt, git, reactorJob

\* A placeholder is no checkpoint in git; the turn it takes the count from loses its own.
LEMMA StoredPlaceholder ==
  ASSUME StoredInv, DispatchPlaceholder
  PROVE  StoredInv'
<1>1. checkpoint' = WithCheckpoint(noted[1].turn, noted[1].count, "placeholder")
  BY DEF DispatchPlaceholder
<1>2. \A t \in Turns : InGitAt(t)' => InGitAt(t) /\ checkpoint'[t] = checkpoint[t]
  BY <1>1 DEF WithCheckpoint, InGitAt, InGit, NoCheckpoint
<1> QED
  BY <1>2 DEF StoredInv, RecordsWhatIsThere, DeletesLaterOnes, LacksWhatItDeletes,
              DispatchPlaceholder, files, git, reactorJob

\* The first step of an input only chooses the next one.
LEMMA StoredTake ==
  ASSUME StoredInv, Take
  PROVE  StoredInv'
<1>1. step = "idle" /\ UNCHANGED <<refs, checkpoint, torn>>
  BY DEF Take, Go, EnsureBaseline, TurnCompleted, ReplacePlaceholder, Restore, files, git
<1>2. PICK input \in Heads :
        EnsureBaseline(input) \/ TurnCompleted(input) \/ ReplacePlaceholder(input) \/ Restore(input)
  BY DEF Take
<1>3. CASE EnsureBaseline(input) \/ TurnCompleted(input) \/ ReplacePlaceholder(input)
  <2>1. step' \in {"capture", "idle"}
    BY <1>3 DEF EnsureBaseline, TurnCompleted, ReplacePlaceholder, Go
  <2> QED
    BY <1>1, <2>1 DEF StoredInv, RecordsWhatIsThere, DeletesLaterOnes, LacksWhatItDeletes, InGitAt
<1>4. CASE Restore(input)
  <2>1. CASE step' = "idle"
    BY <1>1, <2>1 DEF StoredInv, RecordsWhatIsThere, DeletesLaterOnes, LacksWhatItDeletes, InGitAt
  <2>2. CASE step' # "idle"
    <3>1. step' = "delete"
      BY <1>4, <2>2 DEF Restore, Go
    <3>2. job' = [Input("revert", 0, input.count, "none") EXCEPT !.stale = StaleRefs(input.count)]
      BY <1>4, <2>2 DEF Restore, Go
    <3>3. job'.count = input.count /\ job'.stale = StaleRefs(input.count)
      BY <3>2 DEF Input
    <3>4. \A c \in StaleRefs(input.count) : c > input.count
      BY DEF StaleRefs
    <3> QED
      BY <1>1, <3>1, <3>3, <3>4 DEF StoredInv, RecordsWhatIsThere, DeletesLaterOnes, LacksWhatItDeletes, InGitAt
  <2> QED BY <2>1, <2>2
<1> QED BY <1>2, <1>3, <1>4

\* A capture adds a ref, the one that is recorded next.
LEMMA StoredCapture ==
  ASSUME StoredInv, CaptureFiles
  PROVE  StoredInv'
<1>1. DOMAIN refs' = {job.count} \cup DOMAIN refs /\ torn' = torn \ {job.count}
  BY DEF CaptureFiles
<1>2. step = "capture" /\ step' \in {"idle", "record"} /\ UNCHANGED checkpoint
  BY DEF CaptureFiles, Go
<1>3. step' = "record" => job' = job
  BY DEF CaptureFiles, Go
<1> QED
  BY <1>1, <1>2, <1>3 DEF StoredInv, RecordsWhatIsThere, DeletesLaterOnes, LacksWhatItDeletes, InGitAt

\* What is recorded is in git, and the others keep their counts or lose them.
LEMMA StoredRecord ==
  ASSUME StoredInv, Record
  PROVE  StoredInv'
<1>1. step = "record" /\ step' = "idle" /\ UNCHANGED <<refs, torn>>
  BY DEF Record, Go, files, git
<1>2. checkpoint' = WithCheckpoint(job.turn, job.count, job.status)
  BY DEF Record
<1>3. \A t \in Turns : InGitAt(t)' => \/ checkpoint'[t].count = job.count
                                      \/ InGitAt(t) /\ checkpoint'[t] = checkpoint[t]
  BY <1>2 DEF WithCheckpoint, InGitAt, InGit, NoCheckpoint
<1> QED
  BY <1>1, <1>3 DEF StoredInv, RecordsWhatIsThere, DeletesLaterOnes, LacksWhatItDeletes

\* A ref that is deleted is one of those the revert deletes; one that git refuses
\* to delete is there.
LEMMA StoredDelete ==
  ASSUME StoredInv, DeleteRefs
  PROVE  StoredInv'
<1>1. PICK c \in NextToDelete :
        \/ Delete(c) /\ Go("delete", job)
        \/ UNCHANGED refs /\ Go("delete", [job EXCEPT !.stale = @ \ {c}])
  BY DEF DeleteRefs
<1>2. c \in job.stale /\ c \in DOMAIN refs
  BY DEF NextToDelete, ToDelete
<1>3. step = "delete" /\ step' = "delete" /\ UNCHANGED <<checkpoint, torn>>
  BY <1>1 DEF DeleteRefs, Go
<1>4. CASE Delete(c) /\ Go("delete", job)
  <2>1. DOMAIN refs' = DOMAIN refs \ {c} /\ job' = job
    BY <1>4 DEF Delete, Go
  <2> QED
    BY <1>2, <1>3, <2>1 DEF StoredInv, RecordsWhatIsThere, DeletesLaterOnes, LacksWhatItDeletes, InGitAt
<1>5. CASE UNCHANGED refs /\ Go("delete", [job EXCEPT !.stale = @ \ {c}])
  <2>1. job' = [job EXCEPT !.stale = @ \ {c}]
    BY <1>5 DEF Go
  <2>2. job'.count = job.count /\ \A d \in job'.stale : d \in job.stale
    BY <2>1
  <2>3. \A d \in job.stale : d \in job'.stale \/ d = c
    BY <2>1
  <2> QED
    BY <1>2, <1>3, <1>5, <2>2, <2>3 DEF StoredInv, RecordsWhatIsThere, DeletesLaterOnes, LacksWhatItDeletes, InGitAt
<1> QED BY <1>1, <1>4, <1>5

\* The turns of the deleted refs go.
LEMMA StoredReverted ==
  ASSUME StoredInv, Reverted
  PROVE  StoredInv'
<1>1. step = "delete" /\ step' = "idle" /\ UNCHANGED <<refs, torn>>
  BY DEF Reverted, Go, files, git
<1>2. checkpoint' = [t \in Turns |-> IF checkpoint[t].count > job.count THEN NoCheckpoint ELSE checkpoint[t]]
  BY DEF Reverted
<1>3. \A t \in Turns : InGitAt(t)' => /\ InGitAt(t) /\ checkpoint'[t] = checkpoint[t]
                                      /\ ~(checkpoint[t].count > job.count)
  BY <1>2 DEF InGitAt, InGit, NoCheckpoint
<1> QED
  BY <1>1, <1>3 DEF StoredInv, RecordsWhatIsThere, DeletesLaterOnes, LacksWhatItDeletes

\* What a revert has deleted when it fails is remembered.
LEMMA StoredFailure ==
  ASSUME StoredInv, InputFails
  PROVE  StoredInv'
<1>1. /\ step' = "idle" /\ torn' = torn \cup (job.stale \ DOMAIN refs')
      /\ UNCHANGED checkpoint
  BY DEF InputFails
<1>2. \/ UNCHANGED refs
      \/ step = "delete" /\ \E c \in NextToDelete : Delete(c)
  BY DEF InputFails
<1>3. \A c \in DOMAIN refs : c \in DOMAIN refs' \/ c \in job.stale
  BY <1>2 DEF Delete, NextToDelete, ToDelete
<1> QED
  BY <1>1, <1>3 DEF StoredInv, RecordsWhatIsThere, DeletesLaterOnes, LacksWhatItDeletes, InGitAt

-----------------------------------------------------------------------------
LEMMA StoredNext ==
  ASSUME StoredInv, [CheckpointsNext]_checkpointVars
  PROVE  StoredInv'
<1>1. CASE SendPrompt
  BY <1>1, StoredElsewhere DEF SendPrompt, files
<1>2. CASE TurnBegins
  BY <1>2, StoredElsewhere DEF TurnBegins, files
<1>3. CASE Edit
  BY <1>3, StoredElsewhere DEF Edit
<1>4. ASSUME NEW s \in Outcomes, EndTurn(s) PROVE StoredInv'
  BY <1>4, StoredElsewhere DEF EndTurn, files
<1>5. ASSUME NEW c \in 0..TurnCount, RequestRevert(c) PROVE StoredInv'
  BY <1>5, StoredElsewhere DEF RequestRevert, files
<1>6. CASE Ingest
  BY <1>6, StoredElsewhere DEF Ingest, files
<1>7. CASE DispatchPlaceholder
  BY <1>7, StoredPlaceholder
<1>8. CASE React
  BY <1>8, StoredTake, StoredCapture, StoredRecord, StoredDelete, StoredReverted DEF React
<1>9. CASE InputFails
  BY <1>9, StoredFailure
<1>10. CASE UNCHANGED checkpointVars
  BY <1>10, StoredElsewhere DEF checkpointVars, files
<1> QED
  BY <1>1, <1>2, <1>3, <1>4, <1>5, <1>6, <1>7, <1>8, <1>9, <1>10 DEF CheckpointsNext

\* A checkpoint that the thread lists has its ref in git, whatever is captured,
\* replaced, reverted or fails, after any of the refs a revert deletes: it lacks it
\* only while a revert deletes it, or when one that deleted it has failed since its
\* capture.
THEOREM ListedCheckpointsAreStored == CheckpointsSpec => []CheckpointsAreStored
<1>1. CheckpointsInit => StoredInv
  BY StoredInit
<1>2. StoredInv /\ [CheckpointsNext]_checkpointVars => StoredInv'
  BY StoredNext
<1>3. StoredInv => CheckpointsAreStored
  BY DEF StoredInv, DeletesLaterOnes, LacksWhatItDeletes, CheckpointsAreStored
<1> QED
  BY <1>1, <1>2, <1>3, PTL DEF CheckpointsSpec

-----------------------------------------------------------------------------
(* Placeholders.                                                           *)

IsInput(m) ==
  m = [kind |-> m.kind, turn |-> m.turn, count |-> m.count, status |-> m.status, stale |-> m.stale]
IsQueue(q) == q \in Seq({q[i] : i \in DOMAIN q}) /\ \A i \in DOMAIN q : IsInput(q[i])

\* What the two streams bring; what the reactor makes of it is no placeholder.
FromEngine == {"baseline", "placeholder", "revert"}
FromProvider == {"baseline", "ended"}

InputsAre ==
  /\ IsQueue(domain) /\ IsQueue(runtime)
  /\ \A i \in DOMAIN domain : domain[i].kind \in FromEngine
  /\ \A i \in DOMAIN runtime : runtime[i].kind \in FromProvider /\ runtime[i].status # "placeholder"
  /\ noted # << >> => IsInput(noted[1]) /\ noted[1].kind = "placeholder"

JobIs ==
  /\ step \in {"capture", "record"} => IsInput(job)
  /\ step = "capture" => job.kind = "baseline" \/ job.status # "placeholder"
  /\ step = "record" => job.status # "placeholder"

\* The placeholder of turn t is among the reactor's inputs, or is its job: that
\* a later end of the turn is queued would not do, which may be refused.
Awaited(t) ==
  \/ \E i \in DOMAIN domain : domain[i].kind = "placeholder" /\ domain[i].turn = t
  \/ step \in {"capture", "record"} /\ job.kind = "placeholder" /\ job.turn = t

PlaceholderInv ==
  /\ InputsAre /\ JobIs /\ faults \in Nat
  /\ faults = 0 => \A t \in Turns : checkpoint[t].status = "placeholder" => Awaited(t)

\* What Input makes.
LEMMA InputIsOne ==
  ASSUME NEW k, NEW t, NEW c, NEW s
  PROVE  /\ IsInput(Input(k, t, c, s)) /\ Input(k, t, c, s).kind = k
         /\ Input(k, t, c, s).turn = t /\ Input(k, t, c, s).status = s
  BY DEF IsInput, Input

\* An input with another count, status or kind.
LEMMA InputWith ==
  ASSUME NEW m, IsInput(m), NEW x
  PROVE  /\ IsInput([m EXCEPT !.count = x]) /\ [m EXCEPT !.count = x].kind = m.kind
         /\ [m EXCEPT !.count = x].status = m.status /\ [m EXCEPT !.count = x].turn = m.turn
         /\ IsInput([m EXCEPT !.status = x]) /\ [m EXCEPT !.status = x].kind = m.kind
         /\ [m EXCEPT !.status = x].status = x /\ [m EXCEPT !.status = x].turn = m.turn
         /\ IsInput([m EXCEPT !.kind = x]) /\ [m EXCEPT !.kind = x].kind = x
         /\ [m EXCEPT !.kind = x].status = m.status /\ [m EXCEPT !.kind = x].turn = m.turn
<1> DEFINE r == [kind |-> m.kind, turn |-> m.turn, count |-> m.count, status |-> m.status, stale |-> m.stale]
<1>1. m = r BY DEF IsInput
<1> QED BY <1>1 DEF IsInput

Grows(q, m, a) == a = Append(q, m)

\* What held of the inputs of a queue holds of them and of one more like them.
LEMMA InputAdded ==
  ASSUME NEW q, IsQueue(q), NEW m, IsInput(m), NEW a, Grows(q, m, a),
         NEW K, m.kind \in K, \A i \in DOMAIN q : q[i].kind \in K
  PROVE  /\ IsQueue(a) /\ \A i \in DOMAIN a : a[i].kind \in K
         /\ \A i \in DOMAIN a : a[i] = m \/ \E j \in DOMAIN q : a[i] = q[j]
         /\ \A j \in DOMAIN q : \E i \in DOMAIN a : a[i] = q[j]
         /\ \E i \in DOMAIN a : a[i] = m
<1> DEFINE S == {q[i] : i \in DOMAIN q}
<1>1. q \in Seq(S \cup {m}) /\ Len(q) \in Nat /\ DOMAIN q = 1..Len(q) /\ \A i \in DOMAIN q : IsInput(q[i])
  BY DEF IsQueue
<1>2. a \in Seq(S \cup {m}) /\ Len(a) = Len(q) + 1 /\ DOMAIN a = 1..Len(a)
  BY <1>1 DEF Grows
<1>3. (\A i \in 1..Len(q) : a[i] = q[i]) /\ a[Len(q) + 1] = m
  BY <1>1 DEF Grows
<1>4. \A i \in DOMAIN a : i = Len(q) + 1 \/ i \in DOMAIN q
  BY <1>1, <1>2
<1>5. DOMAIN q \subseteq DOMAIN a /\ Len(q) + 1 \in DOMAIN a
  BY <1>1, <1>2
<1>6. a \in Seq({a[i] : i \in DOMAIN a})
  BY <1>2
<1> HIDE DEF S
<1>7. \A i \in DOMAIN a : IsInput(a[i]) /\ a[i].kind \in K
  BY <1>1, <1>3, <1>4
<1>8. IsQueue(a) BY <1>6, <1>7 DEF IsQueue
<1> QED BY ONLY <1>1, <1>3, <1>4, <1>5, <1>7, <1>8

\* What is left when the first input is taken.
LEMMA QueueTaken ==
  ASSUME NEW q, IsQueue(q), q # << >>
  PROVE  /\ IsQueue(Tail(q)) /\ IsInput(Head(q)) /\ 1 \in DOMAIN q /\ Head(q) = q[1]
         /\ \A i \in DOMAIN Tail(q) : i + 1 \in DOMAIN q /\ Tail(q)[i] = q[i + 1]
         /\ \A i \in DOMAIN q : i = 1 \/ \E j \in DOMAIN Tail(q) : Tail(q)[j] = q[i]
<1> DEFINE S == {q[i] : i \in DOMAIN q}
           r == Tail(q)
<1>1. q \in Seq(S) /\ Len(q) \in Nat /\ DOMAIN q = 1..Len(q) /\ \A i \in DOMAIN q : IsInput(q[i])
  BY DEF IsQueue
<1>2. Len(q) >= 1
  BY <1>1
<1>3. r \in Seq(S) /\ Len(r) = Len(q) - 1 /\ DOMAIN r = 1..Len(r) /\ \A i \in 1..Len(r) : r[i] = q[i + 1]
  BY <1>1, <1>2
<1>4. \A i \in DOMAIN r : i + 1 \in DOMAIN q /\ r[i] = q[i + 1]
  BY <1>1, <1>2, <1>3
<1>5. \A i \in DOMAIN q : i = 1 \/ (i - 1 \in DOMAIN r /\ r[i - 1] = q[i])
  BY <1>1, <1>2, <1>3
<1>7. 1 \in DOMAIN q /\ Head(q) = q[1]
  BY <1>1, <1>2
<1> HIDE DEF r, S
<1>6. r \in Seq({r[i] : i \in DOMAIN r})
  BY <1>3
<1>8. IsQueue(r)
  BY <1>1, <1>4, <1>6 DEF IsQueue
<1> QED BY <1>1, <1>4, <1>5, <1>7, <1>8 DEF r

LEMMA PlaceholderInit == CheckpointsInit => PlaceholderInv
  BY DEF CheckpointsInit, PlaceholderInv, InputsAre, JobIs, IsQueue, NoCheckpoint

\* A step that leaves the reactor's job, what is noted and the list alone, and
\* adds nothing but baselines, reverts and ends of turns to the inputs.
LEMMA PlaceholdersElsewhere ==
  ASSUME PlaceholderInv, UNCHANGED <<checkpoint, reactorJob, faults>>,
         noted' = noted \/ (noted' # << >> => IsInput(noted'[1]) /\ noted'[1].kind = "placeholder"),
         \/ domain' = domain
         \/ \E m : IsInput(m) /\ m.kind \in {"baseline", "revert"} /\ domain' = Append(domain, m),
         \/ runtime' = runtime
         \/ \E m : /\ IsInput(m) /\ m.kind \in FromProvider /\ m.status # "placeholder"
                   /\ runtime' = Append(runtime, m)
  PROVE  PlaceholderInv'
<1>1. InputsAre /\ JobIs /\ faults \in Nat BY DEF PlaceholderInv
<1>2. JobIs' BY <1>1 DEF JobIs, reactorJob
<1>3. /\ IsQueue(domain') /\ (\A i \in DOMAIN domain' : domain'[i].kind \in FromEngine)
      /\ \A j \in DOMAIN domain : \E i \in DOMAIN domain' : domain'[i] = domain[j]
  <2>1. CASE domain' = domain BY <1>1, <2>1 DEF InputsAre
  <2>2. ASSUME NEW m, IsInput(m), m.kind \in {"baseline", "revert"}, domain' = Append(domain, m)
        PROVE  <1>3!:
    <3>1. IsQueue(domain) /\ \A i \in DOMAIN domain : domain[i].kind \in FromEngine
      BY <1>1 DEF InputsAre
    <3>2. IsInput(m) /\ m.kind \in FromEngine /\ Grows(domain, m, domain')
      BY <2>2 DEF FromEngine, Grows
    <3> QED BY ONLY <3>1, <3>2, InputAdded
  <2> QED BY <2>1, <2>2
<1>4. /\ IsQueue(runtime')
      /\ \A i \in DOMAIN runtime' : runtime'[i].kind \in FromProvider /\ runtime'[i].status # "placeholder"
  <2>1. CASE runtime' = runtime BY <1>1, <2>1 DEF InputsAre
  <2>2. ASSUME NEW m, IsInput(m), m.kind \in FromProvider, m.status # "placeholder",
               runtime' = Append(runtime, m)
        PROVE  <1>4!:
    <3>1. /\ IsQueue(runtime) /\ \A i \in DOMAIN runtime : runtime[i].kind \in FromProvider
          /\ \A i \in DOMAIN runtime : runtime[i].status # "placeholder"
      BY <1>1 DEF InputsAre
    <3>2. IsInput(m) /\ m.kind \in FromProvider /\ Grows(runtime, m, runtime') BY <2>2 DEF Grows
    <3>3. /\ IsQueue(runtime') /\ \A i \in DOMAIN runtime' : runtime'[i].kind \in FromProvider
          /\ \A i \in DOMAIN runtime' : runtime'[i] = m \/ \E j \in DOMAIN runtime : runtime'[i] = runtime[j]
      BY ONLY <3>1, <3>2, InputAdded
    <3> QED BY ONLY <2>2, <3>1, <3>3
  <2> QED BY <2>1, <2>2
<1>5. InputsAre' BY <1>1, <1>3, <1>4 DEF InputsAre
<1>6. \A t : Awaited(t) => Awaited(t)' BY <1>3 DEF Awaited, reactorJob
<1> QED BY <1>1, <1>2, <1>5, <1>6 DEF PlaceholderInv

\* A placeholder enters the list and the inputs at once.
LEMMA PlaceholderDispatched ==
  ASSUME PlaceholderInv, DispatchPlaceholder PROVE PlaceholderInv'
<1> DEFINE m == noted[1]
<1>1. InputsAre /\ JobIs /\ faults \in Nat BY DEF PlaceholderInv
<1>2. /\ noted # << >> /\ noted' = << >> /\ domain' = Append(domain, m)
      /\ checkpoint' = WithCheckpoint(m.turn, m.count, "placeholder")
      /\ UNCHANGED <<runtime, step, job, faults>>
  BY DEF DispatchPlaceholder, reactorJob
<1>3. IsInput(m) /\ m.kind = "placeholder" BY <1>1, <1>2 DEF InputsAre
<1> HIDE DEF m
<1>4. /\ IsQueue(domain') /\ (\A i \in DOMAIN domain' : domain'[i].kind \in FromEngine)
      /\ \A j \in DOMAIN domain : \E i \in DOMAIN domain' : domain'[i] = domain[j]
      /\ \E i \in DOMAIN domain' : domain'[i] = m
  <2>1. IsQueue(domain) /\ \A i \in DOMAIN domain : domain[i].kind \in FromEngine
    BY <1>1 DEF InputsAre
  <2>2. m.kind \in FromEngine /\ Grows(domain, m, domain') BY <1>2, <1>3 DEF FromEngine, Grows
  <2> QED BY ONLY <1>3, <2>1, <2>2, InputAdded
<1>5. InputsAre' BY <1>1, <1>2, <1>4 DEF InputsAre
<1>6. JobIs' BY <1>1, <1>2 DEF JobIs
<1>7. ASSUME faults' = 0, NEW t \in Turns, checkpoint'[t].status = "placeholder" PROVE Awaited(t)'
  <2>1. CASE t = m.turn BY <1>3, <1>4, <2>1 DEF Awaited
  <2>2. CASE t # m.turn
    <3>1. checkpoint[t].status = "placeholder"
      BY <1>2, <1>7, <2>2 DEF WithCheckpoint, NoCheckpoint
    <3>2. Awaited(t) BY <1>2, <1>7, <3>1 DEF PlaceholderInv
    <3> QED BY <1>2, <1>4, <3>2 DEF Awaited
  <2> QED BY <2>1, <2>2
<1> QED BY <1>1, <1>2, <1>5, <1>6, <1>7 DEF PlaceholderInv

\* The inputs that are left when one is taken, and what may have been taken.
LEMMA InputTaken ==
  ASSUME InputsAre, NEW input \in Heads, Takes(input), noted' = noted
  PROVE  /\ InputsAre' /\ IsInput(input)
         /\ input.kind \in {"baseline", "placeholder", "revert", "ended"}
         /\ input.kind = "ended" => input.status # "placeholder"
         /\ \A i \in DOMAIN domain :
              \/ \E j \in DOMAIN domain' : domain'[j] = domain[i]
              \/ domain[i] = input
<1>1. CASE domain # << >> /\ input = Head(domain) /\ domain' = Tail(domain) /\ UNCHANGED runtime
  <2>1. /\ IsQueue(domain') /\ IsInput(input) /\ 1 \in DOMAIN domain /\ input = domain[1]
        /\ \A i \in DOMAIN domain' : i + 1 \in DOMAIN domain /\ domain'[i] = domain[i + 1]
        /\ \A i \in DOMAIN domain : i = 1 \/ \E j \in DOMAIN domain' : domain'[j] = domain[i]
    BY <1>1, QueueTaken DEF InputsAre
  <2>2. /\ IsQueue(runtime)
        /\ \A i \in DOMAIN domain : domain[i].kind \in FromEngine
        /\ \A i \in DOMAIN runtime : runtime[i].kind \in FromProvider /\ runtime[i].status # "placeholder"
        /\ noted # << >> => IsInput(noted[1]) /\ noted[1].kind = "placeholder"
    BY DEF InputsAre
  <2>3. \A i \in DOMAIN domain' : domain'[i].kind \in FromEngine
    BY ONLY <2>1, <2>2
  <2>4. input.kind \in FromEngine BY ONLY <2>1, <2>2
  <2>5. InputsAre' BY <1>1, <2>1, <2>2, <2>3 DEF InputsAre
  <2> QED BY ONLY <2>1, <2>4, <2>5 DEF FromEngine
<1>2. CASE runtime # << >> /\ input = Head(runtime) /\ runtime' = Tail(runtime) /\ UNCHANGED domain
  <2>1. /\ IsQueue(runtime') /\ IsInput(input) /\ 1 \in DOMAIN runtime /\ input = runtime[1]
        /\ \A i \in DOMAIN runtime' : i + 1 \in DOMAIN runtime /\ runtime'[i] = runtime[i + 1]
    BY <1>2, QueueTaken DEF InputsAre
  <2>2. /\ IsQueue(domain)
        /\ \A i \in DOMAIN domain : domain[i].kind \in FromEngine
        /\ \A i \in DOMAIN runtime : runtime[i].kind \in FromProvider /\ runtime[i].status # "placeholder"
        /\ noted # << >> => IsInput(noted[1]) /\ noted[1].kind = "placeholder"
    BY DEF InputsAre
  <2>3. \A i \in DOMAIN runtime' : runtime'[i].kind \in FromProvider /\ runtime'[i].status # "placeholder"
    BY ONLY <2>1, <2>2
  <2>4. input.kind \in FromProvider /\ input.status # "placeholder" BY ONLY <2>1, <2>2
  <2>5. InputsAre' BY <1>2, <2>1, <2>2, <2>3 DEF InputsAre
  <2> QED BY ONLY <1>2, <2>1, <2>4, <2>5 DEF FromProvider
<1> QED BY <1>1, <1>2 DEF Takes

\* A placeholder that is taken is captured, unless the turn has a checkpoint.
LEMMA PlaceholderTaken ==
  ASSUME PlaceholderInv, Take PROVE PlaceholderInv'
<1>1. InputsAre /\ JobIs /\ faults \in Nat BY DEF PlaceholderInv
<1>2. PICK input \in Heads :
        /\ Takes(input)
        /\ EnsureBaseline(input) \/ TurnCompleted(input) \/ ReplacePlaceholder(input) \/ Restore(input)
  BY DEF Take
<1>3. step = "idle" /\ UNCHANGED <<checkpoint, noted, faults>>
  BY <1>2 DEF Take, EnsureBaseline, TurnCompleted, ReplacePlaceholder, Restore, Go, ingestion
<1>4. /\ InputsAre' /\ IsInput(input)
      /\ input.kind \in {"baseline", "placeholder", "revert", "ended"}
      /\ input.kind = "ended" => input.status # "placeholder"
      /\ \A i \in DOMAIN domain : \/ \E j \in DOMAIN domain' : domain'[j] = domain[i]
                                  \/ domain[i] = input
  BY <1>1, <1>2, <1>3, InputTaken
<1>5. /\ JobIs'
      /\ input.kind = "placeholder" =>
           \/ checkpoint[input.turn].status \in Real
           \/ step' = "capture" /\ job'.kind = "placeholder" /\ job'.turn = input.turn
  <2>1. CASE EnsureBaseline(input)
    BY <1>4, <2>1, InputWith DEF EnsureBaseline, Go, JobIs
  <2>2. CASE TurnCompleted(input)
    <3> DEFINE j == [input EXCEPT !.count = CountOf(input.turn)]
    <3>1. IsInput(j) /\ j.kind = input.kind /\ j.status = input.status BY <1>4, InputWith
    <3>2. /\ input.kind = "ended" /\ step' \in {"capture", "idle"}
          /\ step' = "capture" => job' = j
      BY <2>2 DEF TurnCompleted, Go
    <3> HIDE DEF j
    <3> QED BY <1>4, <3>1, <3>2 DEF JobIs
  <2>3. CASE ReplacePlaceholder(input)
    <3> DEFINE j == [input EXCEPT !.status = "ready"]
    <3>1. IsInput(j) /\ j.kind = input.kind /\ j.status = "ready" /\ j.turn = input.turn
      BY <1>4, InputWith
    <3>2. /\ input.kind = "placeholder" /\ step' \in {"capture", "idle"}
          /\ step' = "capture" => job' = j
          /\ step' = "capture" \/ checkpoint[input.turn].status \in Real
      BY <2>3 DEF ReplacePlaceholder, Go
    <3> HIDE DEF j
    <3>3. step' = "capture" => IsInput(job') /\ job'.kind = "placeholder" /\ job'.status = "ready" /\ job'.turn = input.turn
      BY <3>1, <3>2
    <3>4. JobIs' BY <3>2, <3>3 DEF JobIs
    <3> QED BY <3>2, <3>3, <3>4
  <2>4. CASE Restore(input)
    BY <1>4, <2>4 DEF Restore, Go, JobIs
  <2> QED BY <1>2, <2>1, <2>2, <2>3, <2>4
<1>6. ASSUME faults' = 0, NEW t \in Turns, checkpoint'[t].status = "placeholder" PROVE Awaited(t)'
  <2>1. PICK i \in DOMAIN domain : domain[i].kind = "placeholder" /\ domain[i].turn = t
    BY <1>3, <1>6 DEF PlaceholderInv, Awaited
  <2>2. checkpoint[t].status \notin Real BY <1>3, <1>6 DEF Real
  <2> QED BY <1>4, <1>5, <2>1, <2>2 DEF Awaited
<1> QED BY <1>1, <1>3, <1>4, <1>5, <1>6 DEF PlaceholderInv

\* A capture is followed by its record.
LEMMA PlaceholderCaptured ==
  ASSUME PlaceholderInv, CaptureFiles PROVE PlaceholderInv'
<1>1. InputsAre /\ JobIs /\ faults \in Nat BY DEF PlaceholderInv
<1>2. step = "capture" /\ UNCHANGED <<checkpoint, noted, domain, runtime, faults>>
  BY DEF CaptureFiles, Go, inputs, ingestion
<1>3. IF job.kind = "baseline" THEN step' = "idle" ELSE step' = "record" /\ job' = job
  BY DEF CaptureFiles, Go
<1>4. JobIs' BY <1>1, <1>2, <1>3 DEF JobIs
<1>5. \A t : Awaited(t) => Awaited(t)' BY <1>2, <1>3 DEF Awaited
<1> QED BY <1>1, <1>2, <1>4, <1>5 DEF PlaceholderInv, InputsAre

\* What is recorded is no placeholder; the placeholders of other turns are in the inputs.
LEMMA PlaceholderRecorded ==
  ASSUME PlaceholderInv, Record PROVE PlaceholderInv'
<1>1. InputsAre /\ JobIs /\ faults \in Nat BY DEF PlaceholderInv
<1>2. /\ step = "record" /\ step' = "idle" /\ UNCHANGED <<noted, runtime, faults>>
      /\ checkpoint' = WithCheckpoint(job.turn, job.count, job.status)
      /\ domain' = IF job.status = "missing" THEN Append(domain, [job EXCEPT !.kind = "placeholder"]) ELSE domain
  BY DEF Record, Go, ingestion
<1>3. IsInput(job) /\ job.status # "placeholder" BY <1>1, <1>2 DEF JobIs
<1>4. IsInput([job EXCEPT !.kind = "placeholder"]) /\ [job EXCEPT !.kind = "placeholder"].kind = "placeholder"
  BY <1>3, InputWith
<1>5. /\ IsQueue(domain') /\ (\A i \in DOMAIN domain' : domain'[i].kind \in FromEngine)
      /\ \A j \in DOMAIN domain : \E i \in DOMAIN domain' : domain'[i] = domain[j]
  <2> DEFINE m == [job EXCEPT !.kind = "placeholder"]
  <2>1. IsInput(m) /\ m.kind = "placeholder" BY <1>4
  <2>2. domain' = Append(domain, m) \/ domain' = domain BY <1>2
  <2> HIDE DEF m
  <2>3. IsQueue(domain) /\ \A i \in DOMAIN domain : domain[i].kind \in FromEngine
    BY <1>1 DEF InputsAre
  <2>4. m.kind \in FromEngine BY <2>1 DEF FromEngine
  <2>5. CASE domain' = Append(domain, m)
    <3>1. Grows(domain, m, domain') BY <2>5 DEF Grows
    <3> QED BY ONLY <2>1, <2>3, <2>4, <3>1, InputAdded
  <2>6. CASE domain' = domain BY <2>3, <2>6
  <2> QED BY <2>2, <2>5, <2>6
<1>6. InputsAre' BY <1>1, <1>2, <1>5 DEF InputsAre
<1>7. JobIs' BY <1>2 DEF JobIs
<1>8. ASSUME faults' = 0, NEW t \in Turns, checkpoint'[t].status = "placeholder" PROVE Awaited(t)'
  <2>1. t # job.turn BY <1>2, <1>3, <1>8 DEF WithCheckpoint
  <2>2. checkpoint[t].status = "placeholder"
    BY <1>2, <1>8, <2>1 DEF WithCheckpoint, NoCheckpoint
  <2>3. Awaited(t) BY <1>2, <1>8, <2>2 DEF PlaceholderInv
  <2> QED BY <1>5, <2>1, <2>3 DEF Awaited
<1> QED BY <1>1, <1>2, <1>6, <1>7, <1>8 DEF PlaceholderInv

\* A revert only takes checkpoints off the list.
LEMMA PlaceholderReverts ==
  ASSUME PlaceholderInv, DeleteRefs \/ Reverted PROVE PlaceholderInv'
<1>1. InputsAre /\ JobIs /\ faults \in Nat BY DEF PlaceholderInv
<1>2. /\ step = "delete" /\ step' \in {"delete", "idle"}
      /\ UNCHANGED <<noted, domain, runtime, faults>>
  BY DEF DeleteRefs, Reverted, Go, ingestion, inputs
<1>3. \A t \in Turns : checkpoint'[t].status = "placeholder" => checkpoint[t].status = "placeholder"
  BY DEF DeleteRefs, Reverted, NoCheckpoint
<1>4. \A t : Awaited(t) => Awaited(t)' BY <1>2 DEF Awaited
<1> QED BY <1>1, <1>2, <1>3, <1>4 DEF PlaceholderInv, InputsAre, JobIs

\* Of an input that fails the property says nothing any more.
LEMMA PlaceholderFailure ==
  ASSUME PlaceholderInv, InputFails PROVE PlaceholderInv'
<1>1. InputsAre /\ JobIs /\ faults \in Nat BY DEF PlaceholderInv
<1>2. faults' \in Nat /\ faults' # 0 /\ step' = "idle" /\ noted' = noted
  BY <1>1 DEF InputFails, ingestion
<1>3. InputsAre'
  <2>1. (\E input \in Heads : Takes(input)) \/ UNCHANGED <<domain, runtime>>
    BY DEF InputFails, inputs
  <2>2. CASE UNCHANGED <<domain, runtime>> BY <1>1, <1>2, <2>2 DEF InputsAre
  <2> QED BY <1>1, <1>2, <2>1, <2>2, InputTaken
<1> QED BY <1>2, <1>3 DEF PlaceholderInv, JobIs

LEMMA PlaceholderNext ==
  ASSUME PlaceholderInv, [CheckpointsNext]_checkpointVars PROVE PlaceholderInv'
<1>1. CASE SendPrompt
  <2>1. UNCHANGED <<checkpoint, reactorJob, faults, noted, runtime>> /\ domain' = Append(domain, Baseline)
    BY <1>1 DEF SendPrompt, ingestion
  <2>2. IsInput(Baseline) /\ Baseline.kind = "baseline" BY InputIsOne DEF Baseline
  <2> QED BY <2>1, <2>2, PlaceholdersElsewhere
<1>2. CASE TurnBegins
  <2>1. UNCHANGED <<checkpoint, reactorJob, faults, noted, domain>> /\ runtime' = Append(runtime, Baseline)
    BY <1>2 DEF TurnBegins
  <2>2. IsInput(Baseline) /\ Baseline.kind = "baseline" /\ Baseline.status # "placeholder"
    BY InputIsOne DEF Baseline
  <2> QED BY <2>1, <2>2, PlaceholdersElsewhere DEF FromProvider
<1>3. CASE Edit
  BY <1>3, PlaceholdersElsewhere DEF Edit, inputs
<1>4. ASSUME NEW s \in Outcomes, EndTurn(s) PROVE PlaceholderInv'
  <2> DEFINE m == Input("ended", running, 0, s)
  <2>1. UNCHANGED <<checkpoint, reactorJob, faults, noted, domain>> /\ runtime' = Append(runtime, m)
    BY <1>4 DEF EndTurn
  <2>2. IsInput(m) /\ m.kind = "ended" /\ m.status = s BY InputIsOne
  <2>3. s # "placeholder" BY CheckpointsAssumption
  <2> HIDE DEF m
  <2> QED BY <2>1, <2>2, <2>3, PlaceholdersElsewhere DEF FromProvider
<1>5. ASSUME NEW c \in 0..TurnCount, RequestRevert(c) PROVE PlaceholderInv'
  <2> DEFINE m == Input("revert", 0, c, "none")
  <2>1. UNCHANGED <<checkpoint, reactorJob, faults, noted, runtime>> /\ domain' = Append(domain, m)
    BY <1>5 DEF RequestRevert, ingestion
  <2>2. IsInput(m) /\ m.kind = "revert" BY InputIsOne
  <2> HIDE DEF m
  <2> QED BY <2>1, <2>2, PlaceholdersElsewhere
<1>6. CASE Ingest
  <2>1. UNCHANGED <<checkpoint, reactorJob, faults, domain, runtime>>
    BY <1>6 DEF Ingest, inputs
  <2>2. noted' = noted \/ (noted' # << >> => IsInput(noted'[1]) /\ noted'[1].kind = "placeholder")
    <3> DEFINE m == Input("placeholder", Head(ingest).turn, TurnCount + 1, "placeholder")
    <3>1. noted' = noted \/ noted' = << >> \/ noted' = <<m>>
      BY <1>6 DEF Ingest, IngestDiff
    <3>2. IsInput(m) /\ m.kind = "placeholder" BY InputIsOne
    <3> HIDE DEF m
    <3> QED BY <3>1, <3>2
  <2> QED BY <2>1, <2>2, PlaceholdersElsewhere
<1>7. CASE DispatchPlaceholder BY <1>7, PlaceholderDispatched
<1>8. CASE React
  BY <1>8, PlaceholderTaken, PlaceholderCaptured, PlaceholderRecorded, PlaceholderReverts DEF React
<1>9. CASE InputFails BY <1>9, PlaceholderFailure
<1>10. CASE UNCHANGED checkpointVars
  BY <1>10, PlaceholdersElsewhere DEF checkpointVars, ingestion, inputs
<1> QED
  BY <1>1, <1>2, <1>3, <1>4, <1>5, <1>6, <1>7, <1>8, <1>9, <1>10 DEF CheckpointsNext

\* With nothing left to handle and no failure, no placeholder is left, however
\* many turns, diffs and reverts there were and in whatever order their events
\* reached the two workers.
THEOREM NoPlaceholderStays == CheckpointsSpec => []PlaceholdersAreReplaced
<1>1. CheckpointsInit => PlaceholderInv BY PlaceholderInit
<1>2. PlaceholderInv /\ [CheckpointsNext]_checkpointVars => PlaceholderInv' BY PlaceholderNext
<1>3. PlaceholderInv => PlaceholdersAreReplaced
  BY DEF PlaceholderInv, PlaceholdersAreReplaced, Awaited, Quiet
<1> QED BY <1>1, <1>2, <1>3, PTL DEF CheckpointsSpec

-----------------------------------------------------------------------------
(* The steps of a fork and their types.                                    *)

\* The steps of all plans.
PlanSteps == {"head", "patch", "verify", "worktree", "apply", "setup", "clone", "create", "load", "meta", "start"}

\* Each plan stays within its steps until it is done.
LEMMA PlansEnd ==
  ASSUME NEW k \in {"worktree", "local", "turn"}, NEW s \in DOMAIN After[k]
  PROVE  /\ s \in PlanSteps
         /\ After[k][s] \in DOMAIN After[k] \cup {"done"}
  BY DEF After, PlanSteps

\* So does the undoing.
LEMMA UndoingEnds ==
  /\ DOMAIN AfterUndoing = {"dropClones", "dropTree", "dropBranch", "dropChild"}
  /\ \A s \in DOMAIN AfterUndoing : AfterUndoing[s] \in DOMAIN AfterUndoing \cup {"failed"}
  /\ AfterUndoing["dropClones"] = "dropTree" /\ AfterUndoing["dropTree"] = "dropBranch"
  /\ AfterUndoing["dropBranch"] = "dropChild" /\ AfterUndoing["dropChild"] = "failed"
  BY DEF AfterUndoing

\* There are three kinds of plan.
LEMMA ForkKinds == Kinds \subseteq {"worktree", "local", "turn"}
  BY ForksAssumption

\* The entries of the plans that the proofs look at.
LEMMA PlanEntries ==
  /\ \A k \in {"worktree", "local"} : "dropClones" \notin DOMAIN After[k]
  /\ After["worktree"]["head"] = "patch" /\ After["worktree"]["patch"] = "verify"
  /\ After["worktree"]["verify"] = "worktree" /\ After["worktree"]["worktree"] = "apply"
  /\ After["worktree"]["apply"] = "setup" /\ After["worktree"]["setup"] = "clone"
  /\ After["worktree"]["clone"] = "create" /\ After["worktree"]["create"] = "load" /\ After["turn"]["setup"] = "start"
  /\ DOMAIN After["worktree"] = {"head", "patch", "verify", "worktree", "apply", "setup", "clone", "create", "load"}
  /\ DOMAIN After["local"] = {"clone", "create", "load"}
  /\ DOMAIN After["turn"] = {"create", "worktree", "meta", "setup", "start"}
  BY DEF After

\* What the workspace becomes is seen.
LEMMA SeenStaysOK ==
  ASSUME SourceOK, NEW h \in Commits, NEW f \in Commits, NEW cs \in SUBSET Commits,
         source' = [head |-> h, files |-> f, commits |-> cs], seen' = seen \cup {<<h, f>>},
         saved' \in 0..MaxSaved, moves' \in 0..MaxMoves
  PROVE  SourceOK'
  BY DEF SourceOK

\* Others leave a workspace like this.
LEMMA SourceStaysOK ==
  ASSUME SourceOK, Save \/ CommitFiles \/ \E c \in source.commits : MoveHead(c)
  PROVE  SourceOK'
<1>1. source = [head |-> source.head, files |-> source.files, commits |-> source.commits]
      /\ source.head \in Commits /\ source.files \in Commits /\ source.commits \in SUBSET Commits
      /\ saved \in 0..MaxSaved /\ moves \in 0..MaxMoves
  BY DEF SourceOK
<1>2. CASE Save
  <2>1. saved + 1 \in Commits /\ saved' \in 0..MaxSaved /\ moves' = moves
    BY <1>1, <1>2, ForksAssumption DEF Save, Commits
  <2>2. /\ source' = [head |-> source.head, files |-> saved + 1, commits |-> source.commits]
        /\ seen' = seen \cup {<<source.head, saved + 1>>}
    BY <1>1, <1>2 DEF Save, Source
  <2> QED
    BY <1>1, <2>1, <2>2, SeenStaysOK
<1>3. CASE CommitFiles
  <2>1. /\ source' = [head |-> source.files, files |-> source.files, commits |-> source.commits \cup {source.files}]
        /\ seen' = seen \cup {<<source.files, source.files>>}
    BY <1>1, <1>3 DEF CommitFiles, Source
  <2>2. saved' = saved /\ moves' = moves /\ source.commits \cup {source.files} \in SUBSET Commits
    BY <1>1, <1>3 DEF CommitFiles
  <2> QED
    BY <1>1, <2>1, <2>2, SeenStaysOK
<1>4. ASSUME NEW c \in source.commits, MoveHead(c) PROVE SourceOK'
  <2>1. PICK f \in {source.files, c} : Source([source EXCEPT !.head = c, !.files = f])
    BY <1>4 DEF MoveHead
  <2>2. /\ source' = [head |-> c, files |-> f, commits |-> source.commits]
        /\ seen' = seen \cup {<<c, f>>}
    BY <1>1, <2>1 DEF Source
  <2>5. moves < MaxMoves /\ moves' = moves + 1 /\ saved' = saved
    BY <1>4 DEF MoveHead
  <2>3. moves' \in 0..MaxMoves /\ saved' \in 0..MaxSaved
    BY <1>1, <2>5, ForksAssumption
  <2>4. c \in Commits /\ f \in Commits
    BY <1>1
  <2> QED
    BY <1>1, <2>2, <2>3, <2>4, SeenStaysOK
<1> QED
  BY <1>2, <1>3, <1>4

\* A step of the plan leads to the next, or to the end.
LEMMA AdvanceStays ==
  ASSUME StepOK, NEW s \in PlanSteps, Advance(s)
  PROVE  s \in DOMAIN After[kind] /\ at' \in DOMAIN After[kind] \cup {"done"}
  BY PlansEnd, UndoingEnds, ForkKinds DEF StepOK, Advance, PlanSteps

\* What is made keeps its types.
LEMMA MadeStaysOK ==
  ASSUME ForksTypeOK, ForksNext
  PROVE  MadeOK'
<1> USE DEF ForksTypeOK, MadeOK, made
<1>0. source.head \in Commits /\ source.files \in Commits /\ source.commits \subseteq Commits
  BY DEF SourceOK
<1>1. NoTree \in Workspaces /\ \A c, f \in Commits : [base |-> c, files |-> f] \in Workspaces
  BY DEF NoTree, Workspaces
<1>2. Bases \subseteq Commits
  BY <1>0 DEF Bases
<1>3. CASE Save \/ CommitFiles \/ \E c \in source.commits : MoveHead(c)
  BY <1>3 DEF Save, CommitFiles, MoveHead, Source
<1>4. CASE DeleteThread
  BY <1>4 DEF DeleteThread
<1>13. CASE CloseTerminals
  <2>1. setup' \in BOOLEAN
    BY <1>13 DEF CloseTerminals
  <2>2. deletions' \in Nat
    BY <1>13 DEF CloseTerminals
  <2> QED
    BY <1>13, <2>1, <2>2 DEF CloseTerminals
<1>5. CASE ReadHead \/ ReadPatch
  BY <1>0, <1>5 DEF ReadHead, ReadPatch
<1>6. CASE Verify
  BY <1>6 DEF Verify
<1>7. CASE CreateWorktree
  BY <1>1, <1>2, <1>7 DEF CreateWorktree
<1>8. CASE ApplyPatch
  BY <1>8 DEF ApplyPatch, Workspaces
<1>9. CASE RunSetup \/ DispatchCreate \/ DispatchMore \/ LoadThread
  BY <1>9 DEF RunSetup, DispatchCreate, DispatchMore, LoadThread
<1>10. CASE CloneAttachments
  BY <1>10, ForksAssumption DEF CloneAttachments
<1>11. CASE EndEarly
  <2>1. PICK interrupted \in BOOLEAN : Leaves(interrupted)
    BY <1>11 DEF EndEarly
  <2>2. tree' \in Workspaces /\ branch' \in BOOLEAN
    BY <1>1, <1>2, <2>1 DEF Leaves
  <2>3. clones' \in 0..MaxClones
    BY <2>1, ForksAssumption DEF Leaves
  <2>4. forked' \in {"none", "live", "deleted"} /\ setup' \in BOOLEAN
    BY <2>1 DEF Leaves
  <2> QED
    BY <1>11, <2>2, <2>3, <2>4 DEF EndEarly
<1>12. CASE DropClones
  BY <1>12, ForksAssumption DEF DropClones
<1>14. CASE DropTree
  BY <1>1, <1>14 DEF DropTree
<1>15. CASE DropBranch \/ DropChild \/ SkipDrop
  <2>1. branch' \in BOOLEAN
    BY <1>15 DEF DropBranch, DropChild, SkipDrop
  <2>2. forked' \in {"none", "live", "deleted"} /\ deletions' \in Nat
    BY <1>15 DEF DropBranch, DropChild, SkipDrop
  <2> QED
    BY <1>15, <2>1, <2>2 DEF DropBranch, DropChild, SkipDrop
<1> QED
  BY <1>3, <1>4, <1>5, <1>6, <1>7, <1>8, <1>9, <1>10, <1>11, <1>12, <1>13, <1>14, <1>15 DEF ForksNext

\* A fork is always at one of its steps.
LEMMA StepStaysOK ==
  ASSUME ForksTypeOK, ForksNext
  PROVE  StepOK'
<1> USE ForksAssumption, ForkKinds DEF ForksTypeOK, StepOK
<1>1. CASE Save \/ CommitFiles \/ \E c \in source.commits : MoveHead(c)
  BY <1>1 DEF Save, CommitFiles, MoveHead, Source
<1>2. CASE DeleteThread \/ CloseTerminals
  BY <1>2 DEF DeleteThread, CloseTerminals
<1>3. CASE ReadHead \/ ReadPatch \/ CreateWorktree \/ ApplyPatch \/ RunSetup
  BY <1>3, AdvanceStays DEF ReadHead, ReadPatch, CreateWorktree, ApplyPatch, RunSetup, PlanSteps
<1>4. CASE Verify
  <2>1. "verify" \in DOMAIN After[kind] /\ kind = "worktree"
    BY <1>4, PlanEntries, UndoingEnds DEF Verify
  <2> QED
    BY <1>4, <2>1, PlanEntries, UndoingEnds DEF Verify
<1>5. CASE DispatchCreate \/ DispatchMore
  BY <1>5, AdvanceStays DEF DispatchCreate, DispatchMore, PlanSteps
<1>6. CASE CloneAttachments
  BY <1>6, AdvanceStays DEF CloneAttachments, PlanSteps
<1>7. CASE LoadThread
  BY <1>7, UndoingEnds DEF LoadThread
<1>8. CASE EndEarly
  <2>1. at' \in DOMAIN After[kind] \cup DOMAIN AfterUndoing \cup {"failed"}
    BY <1>8, PlanEntries, UndoingEnds DEF EndEarly, Undoes
  <2>2. slips' \subseteq DOMAIN AfterUndoing \cup {"git", "unanswered", "returned", "late", "close"}
    BY <1>8 DEF EndEarly, Leaves, SlipsWhen
  <2> QED
    BY <1>8, <2>1, <2>2 DEF EndEarly
<1>9. CASE DropClones \/ DropTree \/ DropBranch \/ DropChild
  BY <1>9, UndoingEnds DEF DropClones, DropTree, DropBranch, DropChild, Undo
<1>10. CASE SkipDrop
  BY <1>10, UndoingEnds DEF SkipDrop, Undo
<1> QED
  BY <1>1, <1>2, <1>3, <1>4, <1>5, <1>6, <1>7, <1>8, <1>9, <1>10 DEF ForksNext

\* Every step keeps the types.
LEMMA ForksTypeNext == ForksTypeOK /\ [ForksNext]_forkVars => ForksTypeOK'
<1> SUFFICES ASSUME ForksTypeOK, [ForksNext]_forkVars PROVE ForksTypeOK'
  OBVIOUS
<1>1. CASE ForksNext
  <2>1. SourceOK'
    <3>1. CASE Save \/ CommitFiles \/ \E c \in source.commits : MoveHead(c)
      BY <3>1, SourceStaysOK DEF ForksTypeOK
    <3>2. CASE UNCHANGED sourceVars
      BY <3>2 DEF ForksTypeOK, SourceOK, sourceVars
    <3> QED
      BY <1>1, <3>1, <3>2
      DEF ForksNext, DeleteThread, CloseTerminals, ReadHead, ReadPatch, Verify, CreateWorktree, ApplyPatch,
          RunSetup, CloneAttachments, DispatchCreate, DispatchMore, LoadThread, EndEarly,
          DropClones, DropTree, DropBranch, DropChild, SkipDrop
  <2> QED
    BY <1>1, <2>1, MadeStaysOK, StepStaysOK DEF ForksTypeOK
<1>2. CASE UNCHANGED forkVars
  BY <1>2 DEF forkVars, sourceVars, made, ForksTypeOK, SourceOK, StepOK, MadeOK
<1> QED
  BY <1>1, <1>2

\* The types hold at first.
LEMMA ForksTypeInit == ForksInit => ForksTypeOK
<1> SUFFICES ASSUME ForksInit PROVE ForksTypeOK
  OBVIOUS
<1>1. 0 \in Commits
  BY ForksAssumption DEF Commits
<1>2. SourceOK
  BY <1>1, ForksAssumption DEF ForksInit, SourceOK
<1>3. StepOK
  BY PlanEntries, ForkKinds, ForksAssumption DEF ForksInit, StepOK, First
<1>4. MadeOK
  <2>1. tree \in Workspaces
    BY DEF ForksInit, Workspaces, NoTree
  <2>2. snapshot \in [head : Commits, files : Commits, attempt : Nat]
    BY <1>1 DEF ForksInit
  <2>3. clones \in 0..MaxClones /\ deletions \in Nat
    BY ForksAssumption DEF ForksInit
  <2> QED
    BY <2>1, <2>2, <2>3 DEF ForksInit, MadeOK
<1> QED
  BY <1>2, <1>3, <1>4 DEF ForksTypeOK

\* Every variable of the forks keeps its type, for any numbers of edits, copies and
\* failures.
THEOREM ForksTypeCorrect == ForksSpec => []ForksTypeOK
  BY ForksTypeInit, ForksTypeNext, PTL DEF ForksSpec
-----------------------------------------------------------------------------
(* A fork is a snapshot.                                                   *)

\* What was read of the source is what it was at one moment.
Holds == <<snapshot.head, snapshot.files>> \in seen \/ "returned" \in slips

\* While HEAD has not moved since it was read, or has not come back, what was
\* read is what the workspace was.
SnapshotInv ==
  /\ <<source.head, source.files>> \in seen
  /\ source.head \in source.commits /\ snapshot.head \in source.commits
  /\ kind = "worktree" /\ at = "verify" /\ source.head = snapshot.head => Holds
  /\ kind = "worktree" /\ at \in {"worktree", "apply"} => Holds
  /\ kind = "worktree" /\ at = "apply" => tree = [base |-> snapshot.head, files |-> snapshot.head]
  /\ ForksAreSnapshots

\* Nothing is read at first.
LEMMA SnapshotInit == ForksInit => SnapshotInv
  BY ForkKinds DEF ForksInit, First, SnapshotInv, ForksAreSnapshots

\* Edits only add to what was seen; a commit is a new one.
LEMMA SnapshotOthers ==
  ASSUME ForksTypeOK, SnapshotInv, Save \/ CommitFiles \/ \E c \in source.commits : MoveHead(c)
  PROVE  SnapshotInv'
<1> USE DEF ForksTypeOK, SourceOK, SnapshotInv, Holds, ForksAreSnapshots
<1>1. CASE Save
  <2>1. source'.head = source.head /\ source'.commits = source.commits
        /\ seen' = seen \cup {<<source'.head, source'.files>>}
    BY <1>1 DEF Save, Source
  <2> QED
    BY <1>1, <2>1 DEF Save, Source, made
<1>2. CASE CommitFiles
  <2>1. source'.head = source.files /\ source'.commits = source.commits \cup {source.files}
        /\ seen' = seen \cup {<<source'.head, source'.files>>}
    BY <1>2 DEF CommitFiles, Source
  <2>2. source'.head # snapshot.head
    BY <1>2, <2>1 DEF CommitFiles
  <2> QED
    BY <1>2, <2>1, <2>2 DEF CommitFiles, Source, made
<1>3. ASSUME NEW c \in source.commits, MoveHead(c) PROVE SnapshotInv'
  <2>1. PICK f \in {source.files, c} : Source([source EXCEPT !.head = c, !.files = f])
    BY <1>3 DEF MoveHead
  <2>2. source'.head = c /\ source'.commits = source.commits
        /\ seen' = seen \cup {<<source'.head, source'.files>>}
        /\ UNCHANGED <<kind, at, snapshot, tree>>
    BY <2>1 DEF Source, made
  <2>3. slips \subseteq slips' /\ (at = "verify" /\ c = snapshot.head => "returned" \in slips')
    BY <1>3 DEF MoveHead
  <2> QED
    BY <2>2, <2>3
<1> QED
  BY <1>1, <1>2, <1>3

\* Of the steps, four lead to a worktree; the others leave it alone.
LEMMA SnapshotSteps ==
  ASSUME ForksTypeOK, SnapshotInv, ForksNext, UNCHANGED sourceVars
  PROVE  SnapshotInv'
<1> USE PlanEntries DEF ForksTypeOK, SourceOK, MadeOK, SnapshotInv, Holds, ForksAreSnapshots, sourceVars
<1>1. CASE ReadHead
  BY <1>1 DEF ReadHead, Advance, made
<1>2. CASE ReadPatch
  BY <1>2 DEF ReadPatch, Advance, made
<1>3. CASE Verify
  BY <1>3 DEF Verify, made
<1>4. CASE CreateWorktree
  BY <1>4 DEF CreateWorktree, Bases, Advance
<1>5. CASE ApplyPatch
  BY <1>5 DEF ApplyPatch, Advance
<1>6. CASE RunSetup
  BY <1>6 DEF RunSetup, Advance
<1>12. CASE DispatchCreate
  BY <1>12 DEF DispatchCreate, Advance
<1>13. CASE DispatchMore
  <2>1. kind # "worktree"
    BY <1>13, AdvanceStays DEF DispatchMore, PlanSteps
  <2> QED
    BY <1>13, <2>1 DEF DispatchMore
<1>7. CASE CloneAttachments \/ LoadThread
  BY <1>7 DEF CloneAttachments, LoadThread, Advance, made
<1>8. CASE EndEarly
  <2>1. kind' = kind /\ (kind = "worktree" => at' = "dropClones") /\ snapshot' = snapshot
    BY <1>8 DEF EndEarly, Undoes
  <2> QED
    BY <2>1
<1>9. CASE DropClones \/ DropTree \/ DropBranch \/ DropChild \/ SkipDrop
  <2>1. kind' = kind /\ at' \in DOMAIN AfterUndoing \cup {"failed"} /\ snapshot' = snapshot
    BY <1>9, UndoingEnds DEF DropClones, DropTree, DropBranch, DropChild, SkipDrop, Undo
  <2> QED
    BY <2>1, UndoingEnds
<1>10. CASE DeleteThread \/ CloseTerminals
  <2>1. UNCHANGED <<kind, at, snapshot, tree>> /\ slips \subseteq slips'
    BY <1>10 DEF DeleteThread, CloseTerminals
  <2> QED
    BY <2>1
<1>11. CASE Save \/ CommitFiles \/ \E c \in source.commits : MoveHead(c)
  BY <1>11, SnapshotOthers
<1> QED
  BY <1>1, <1>2, <1>3, <1>4, <1>5, <1>6, <1>7, <1>8, <1>9, <1>10, <1>11, <1>12, <1>13 DEF ForksNext

\* Every step keeps it.
LEMMA SnapshotNext == ForksTypeOK /\ SnapshotInv /\ [ForksNext]_forkVars => SnapshotInv'
<1> SUFFICES ASSUME ForksTypeOK, SnapshotInv, [ForksNext]_forkVars PROVE SnapshotInv'
  OBVIOUS
<1>1. CASE Save \/ CommitFiles \/ \E c \in source.commits : MoveHead(c)
  BY <1>1, SnapshotOthers
<1>2. CASE ForksNext /\ UNCHANGED sourceVars
  BY <1>2, SnapshotSteps
<1>3. CASE UNCHANGED forkVars
  BY <1>3 DEF forkVars, sourceVars, made, SnapshotInv, Holds, ForksAreSnapshots
<1> QED
  BY <1>1, <1>2, <1>3
  DEF ForksNext, DeleteThread, CloseTerminals, ReadHead, ReadPatch, Verify, CreateWorktree, ApplyPatch,
      RunSetup, CloneAttachments, DispatchCreate, DispatchMore, LoadThread, EndEarly,
      DropClones, DropTree, DropBranch, DropChild, SkipDrop

\* A fork's worktree is what the source workspace was at one moment.
THEOREM ForksSnapshot == ForksSpec => []ForksAreSnapshots
<1>1. SnapshotInv => ForksAreSnapshots
  BY DEF SnapshotInv
<1> QED
  BY <1>1, SnapshotInit, SnapshotNext, ForksTypeInit, ForksTypeNext, PTL DEF ForksSpec
-----------------------------------------------------------------------------
(* A failure is undone.                                                    *)

\* A fork is undoing, at one of these steps.
Undone(steps) == kind # "turn" /\ at \in steps

\* What there is is to be undone or excused, and what was undone stays so.
UndoInv ==
  /\ kind # "turn" /\ (tree # NoTree \/ branch) => "tree" \in cleanup \/ "git" \in slips
  /\ Undone({"dropTree", "dropBranch", "dropChild", "failed"}) => clones = 0 \/ "dropClones" \in slips
  /\ Undone({"dropBranch", "dropChild", "failed"}) => tree = NoTree \/ slips \cap {"git", "dropTree"} # {}
  /\ Undone({"dropChild", "failed"}) => ~branch \/ slips \cap {"git", "dropTree", "dropBranch"} # {}
  /\ forked = "live" => "child" \in cleanup \/ "unanswered" \in slips
  /\ at = "failed" /\ forked = "live" => slips \cap {"unanswered", "dropChild"} # {}
  /\ forked = "deleted" /\ deletions = 0 /\ setup => slips \cap {"late", "close"} # {}

\* Nothing is there at first.
LEMMA UndoInit == ForksInit => UndoInv
  BY ForkKinds DEF ForksInit, First, UndoInv, Undone

\* What a step makes it enters into what is to be undone.
LEMMA UndoNext ==
  ASSUME ForksTypeOK, SnapshotInv, UndoInv, ForksNext
  PROVE  UndoInv'
<1> USE DEF ForksTypeOK, UndoInv, Undone
<1>1. CASE Save \/ CommitFiles \/ \E c \in source.commits : MoveHead(c)
  <2>1. UNCHANGED <<kind, at, made, cleanup, deletions>> /\ slips \subseteq slips'
    BY <1>1 DEF Save, CommitFiles, MoveHead, Source
  <2> QED
    BY <2>1 DEF made
<1>2. CASE DeleteThread
  BY <1>2 DEF DeleteThread, MadeOK
<1>3. CASE CloseTerminals
  BY <1>3 DEF CloseTerminals
<1>4. CASE ReadHead \/ ReadPatch \/ DispatchMore
  <2>1. at' \in DOMAIN After[kind] \cup {"done"}
    BY <1>4, AdvanceStays DEF ReadHead, ReadPatch, DispatchMore, PlanSteps
  <2>2. UNCHANGED <<kind, made, cleanup, deletions, slips>>
    BY <1>4 DEF ReadHead, ReadPatch, DispatchMore
  <2> QED
    BY <2>1, <2>2, PlansEnd, ForkKinds DEF made, PlanSteps, StepOK
<1>5. CASE Verify \/ LoadThread
  <2>1. at' \in DOMAIN After[kind] \cup {"head", "done", "dropClones"}
    BY <1>5, PlansEnd, UndoingEnds, ForkKinds DEF Verify, LoadThread, StepOK
  <2>2. UNCHANGED <<kind, made, cleanup, deletions, slips>>
    BY <1>5 DEF Verify, LoadThread
  <2> QED
    BY <2>1, <2>2, PlansEnd, ForkKinds DEF made, PlanSteps, StepOK
<1>6. CASE CreateWorktree \/ ApplyPatch \/ RunSetup \/ DispatchCreate
  <2>1. at' \in DOMAIN After[kind] \cup {"done"}
    BY <1>6, AdvanceStays DEF CreateWorktree, ApplyPatch, RunSetup, DispatchCreate, PlanSteps
  <2>2. at' \notin {"dropTree", "dropBranch", "dropChild", "failed"} /\ kind' = kind
    BY <1>6, <2>1, PlansEnd, ForkKinds DEF PlanSteps, StepOK, CreateWorktree, ApplyPatch, RunSetup, DispatchCreate
  <2>3. CASE CreateWorktree
    BY <2>2, <2>3 DEF CreateWorktree
  <2>4. CASE ApplyPatch
    <3>1. kind = "worktree"
      BY <2>4, AdvanceStays, PlanEntries, ForkKinds DEF ApplyPatch, PlanSteps, StepOK
    <3>2. tree = [base |-> snapshot.head, files |-> snapshot.head] /\ snapshot.head \in Commits
      BY <2>4, <3>1 DEF ApplyPatch, Advance, SnapshotInv, MadeOK
    <3>3. tree # NoTree
      BY <3>2, ForksAssumption DEF NoTree, Commits
    <3> QED
      BY <2>2, <2>4, <3>3 DEF ApplyPatch
  <2>5. CASE RunSetup
    BY <2>2, <2>5 DEF RunSetup
  <2>6. CASE DispatchCreate
    BY <2>2, <2>6 DEF DispatchCreate
  <2> QED
    BY <1>6, <2>3, <2>4, <2>5, <2>6
<1>7. CASE CloneAttachments
  <2>1. at' \in DOMAIN After[kind] \cup {"clone", "done"}
    BY <1>7, AdvanceStays DEF CloneAttachments, PlanSteps
  <2> QED
    BY <1>7, <2>1, PlansEnd, ForkKinds DEF CloneAttachments, PlanSteps, StepOK
<1>8. CASE EndEarly
  <2>1. PICK interrupted \in BOOLEAN : at' = Undoes(interrupted) /\ Leaves(interrupted)
    BY <1>8 DEF EndEarly
  <2>2. kind' = kind /\ cleanup' = cleanup /\ deletions' = deletions /\ slips \subseteq slips'
        /\ (kind # "turn" => at' = "dropClones")
        /\ (kind = "turn" /\ at' = "failed" => "unanswered" \in slips')
    BY <1>8, <2>1, PlanEntries DEF EndEarly, Undoes, Leaves, SlipsWhen
  <2> QED
    BY <2>1, <2>2 DEF Leaves, SlipsWhen, made
<1>9. CASE DropClones
  BY <1>9, UndoingEnds DEF DropClones, Undo
<1>10. CASE DropTree
  BY <1>10, UndoingEnds DEF DropTree, Undo
<1>11. CASE DropBranch
  BY <1>11, UndoingEnds DEF DropBranch, Undo
<1>12. CASE DropChild
  BY <1>12, UndoingEnds DEF DropChild, Undo, MadeOK
<1>13. CASE SkipDrop
  BY <1>13, UndoingEnds DEF SkipDrop, Undo, made
<1> QED
  BY <1>1, <1>2, <1>3, <1>4, <1>5, <1>6, <1>7, <1>8, <1>9, <1>10, <1>11, <1>12, <1>13 DEF ForksNext

\* A fork that fails, and a first turn that does, leaves nothing that is not excused.
THEOREM ForkFailuresUndone == ForksSpec => []FailuresAreUndone
<1>1. ForksTypeOK /\ SnapshotInv /\ UndoInv /\ [ForksNext]_forkVars => UndoInv'
  BY UndoNext DEF forkVars, made, UndoInv, Undone
<1>2. UndoInv => FailuresAreUndone
  BY DEF UndoInv, Undone, FailuresAreUndone
<1> QED
  BY <1>1, <1>2, UndoInit, SnapshotInit, SnapshotNext, ForksTypeInit, ForksTypeNext, PTL DEF ForksSpec
=============================================================================
