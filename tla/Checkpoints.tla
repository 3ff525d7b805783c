---------------------------- MODULE Checkpoints ----------------------------
(***************************************************************************)
(* The checkpoints of one thread in a git repository: the workspace is     *)
(* captured in a hidden git ref before its first turn and after each one,  *)
(* and may be taken back to such a ref.  The checkpoint reactor is one     *)
(* worker that is fed from two streams, the events of the engine and those *)
(* of the provider.  Runtime ingestion, a worker of its own, follows the   *)
(* same events of the provider: it knows which turn is active and, when    *)
(* the provider reports a diff, notes a placeholder that the reactor is to *)
(* replace.  Turns are counted by their checkpoints.                       *)
(*                                                                         *)
(* A workspace is the number of the edit that made it: 0 what HEAD holds,  *)
(* 1 what is there at first.  Only turns edit.  A capture and a restore are *)
(* one step each, and git sees no half of an edit; refs are deleted one by *)
(* one.  The provider's conversation is left out.                          *)
(***************************************************************************)
EXTENDS Naturals, Sequences, FiniteSets, FiniteSetsExt

CONSTANTS
  Outcomes,    \* what checkpoints say of how a turn ended
  MaxTurns,    \* bound: turns of the thread
  MaxEdits,    \* bound: edits of all turns
  MaxReverts,  \* bound: requests to take the workspace back
  MaxFaults    \* bound: inputs of the reactor that fail

ASSUME CheckpointsAssumption ==
  /\ Outcomes \subseteq {"ready", "error", "missing"}
  /\ MaxTurns \in Nat /\ MaxEdits \in Nat /\ MaxReverts \in Nat /\ MaxFaults \in Nat

Turns == 1..MaxTurns

\* The status of a turn's checkpoint: none, or a placeholder, or that of a ref
\* in git; the code calls a placeholder "missing", too.
AnyStatus == {"ready", "error", "missing", "placeholder"}
Real == {"ready", "error"}
InGit == {"ready", "error", "missing"}

VARIABLES
  workspace,   \* what the files are
  edits,       \* edits made so far
  refs,        \* of the counts with a ref in git: the workspace it holds
  torn,        \* counts whose refs were deleted by a revert that then failed
  checkpoint,  \* [Turns -> [count, status]] of projection_turns
  activeTurn,  \* session.activeTurnId of the thread, 0: none
  requested,   \* a turn is requested and not begun
  begun,       \* turns begun
  running,     \* the turn the provider runs, 0: none
  ingest,      \* events of the provider for ingestion
  noted,       \* ingestion's next placeholder: a sequence of at most one
  domain,      \* the reactor's inputs from the engine
  runtime,     \* the reactor's inputs from the provider
  step, job,   \* of the reactor: what it does next, about what
  reverts, faults

git == <<refs, torn>>
files == <<workspace, edits, git>>
turn == <<requested, begun, running>>
ingestion == <<activeTurn, ingest, noted>>
inputs == <<domain, runtime>>
reactorJob == <<step, job>>
checkpointVars == <<files, checkpoint, turn, ingestion, inputs, reactorJob, reverts, faults>>

NoCheckpoint == [count |-> 0, status |-> "none"]

Input(kind, t, count, status) ==
  [kind |-> kind, turn |-> t, count |-> count, status |-> status, stale |-> {}]
Baseline == Input("baseline", 0, 0, "none")
NoJob == Input("none", 0, 0, "none")

CheckpointsInit ==
  /\ workspace = 1 /\ edits = 0 /\ refs = << >> /\ torn = {}
  /\ checkpoint = [t \in Turns |-> NoCheckpoint]
  /\ activeTurn = 0 /\ ingest = << >> /\ noted = << >>
  /\ requested = FALSE /\ begun = 0 /\ running = 0
  /\ domain = << >> /\ runtime = << >>
  /\ step = "idle" /\ job = NoJob
  /\ reverts = 0 /\ faults = 0

\* The turns with a checkpoint and the largest count among them.
Tracked == {t \in Turns : checkpoint[t].status # "none"}
TurnCount == Max({0} \cup {checkpoint[t].count : t \in Tracked})

\* thread.turn-diff-completed: another turn with this count loses its own.
WithCheckpoint(t, count, status) ==
  [u \in Turns |-> IF u = t THEN [count |-> count, status |-> status]
                   ELSE IF u \in Tracked /\ checkpoint[u].count = count THEN NoCheckpoint
                   ELSE checkpoint[u]]

-----------------------------------------------------------------------------
(* The user and the provider.                                              *)

\* A user message and the request of a turn: the reactor looks for the baseline
\* twice, once here.
SendPrompt ==
  /\ ~requested /\ running = 0 /\ begun < MaxTurns
  /\ requested' = TRUE /\ domain' = Append(domain, Baseline)
  /\ UNCHANGED <<files, checkpoint, begun, running, ingestion, runtime, reactorJob, reverts, faults>>

TurnBegins ==
  /\ requested /\ requested' = FALSE
  /\ begun' = begun + 1 /\ running' = begun + 1
  /\ ingest' = Append(ingest, Input("started", begun + 1, 0, "none"))
  /\ runtime' = Append(runtime, Baseline)
  /\ UNCHANGED <<files, checkpoint, activeTurn, noted, domain, reactorJob, reverts, faults>>

\* The agent changes a file.  Codex reports the diff of the turn so far, other
\* providers do not.
Edit ==
  /\ running # 0 /\ edits < MaxEdits
  /\ edits' = edits + 1 /\ workspace' = edits + 2
  /\ \/ ingest' = Append(ingest, Input("diff", running, 0, "none"))
     \/ UNCHANGED ingest
  /\ UNCHANGED <<git, checkpoint, turn, activeTurn, noted, inputs, reactorJob, reverts, faults>>

\* The turn completes, fails or is interrupted.
EndTurn(status) ==
  /\ running # 0 /\ running' = 0
  /\ ingest' = Append(ingest, Input("ended", running, 0, status))
  /\ runtime' = Append(runtime, Input("ended", running, 0, status))
  /\ UNCHANGED <<files, checkpoint, requested, begun, activeTurn, noted, domain, reactorJob, reverts, faults>>

\* The browser asks for it only while the session runs no turn.
RequestRevert(count) ==
  /\ activeTurn = 0 /\ reverts < MaxReverts /\ reverts' = reverts + 1
  /\ domain' = Append(domain, Input("revert", 0, count, "none"))
  /\ UNCHANGED <<files, checkpoint, turn, ingestion, runtime, reactorJob, faults>>

-----------------------------------------------------------------------------
(* Ingestion.                                                              *)

\* A diff of a turn without a checkpoint is noted as the next one.
IngestDiff(t) == noted' = IF t \in Tracked THEN << >> ELSE <<Input("placeholder", t, TurnCount + 1, "placeholder")>>

Ingest ==
  /\ noted = << >> /\ ingest # << >> /\ ingest' = Tail(ingest)
  /\ LET e == Head(ingest) IN
       \/ /\ e.kind = "diff" /\ IngestDiff(e.turn) /\ UNCHANGED activeTurn
       \/ /\ e.kind # "diff"
          /\ activeTurn' = IF activeTurn \notin {0, e.turn} THEN activeTurn
                           ELSE IF e.kind = "started" THEN e.turn ELSE 0
          /\ UNCHANGED noted
  /\ UNCHANGED <<files, checkpoint, turn, inputs, reactorJob, reverts, faults>>

DispatchPlaceholder ==
  /\ noted # << >> /\ noted' = << >>
  /\ LET p == noted[1] IN checkpoint' = WithCheckpoint(p.turn, p.count, "placeholder")
  /\ domain' = Append(domain, noted[1])
  /\ UNCHANGED <<files, turn, activeTurn, ingest, runtime, reactorJob, reverts, faults>>

-----------------------------------------------------------------------------
(* The reactor: one input at a time, an await between its steps.           *)

\* The next input of either stream; its first step reads the thread.
Takes(input) ==
  \/ domain # << >> /\ input = Head(domain) /\ domain' = Tail(domain) /\ UNCHANGED runtime
  \/ runtime # << >> /\ input = Head(runtime) /\ runtime' = Tail(runtime) /\ UNCHANGED domain

Heads == {q[1] : q \in {domain, runtime} \ {<< >>}}

\* On to the next step of the job, or to the next input.
Go(next, j) == /\ step' = next /\ job' = IF next = "idle" THEN NoJob ELSE j
               /\ UNCHANGED <<turn, ingestion, reverts, faults>>

\* ensurePreTurnBaseline...: the ref of the turns so far is made unless it exists.
EnsureBaseline(input) ==
  /\ input.kind = "baseline"
  /\ Go(IF TurnCount \notin DOMAIN refs THEN "capture" ELSE "idle", [input EXCEPT !.count = TurnCount])
  /\ UNCHANGED <<files, checkpoint>>

\* captureCheckpointFromTurnCompletion
MayComplete(t) == activeTurn \in {0, t}
CountOf(t) == IF t \in Tracked THEN checkpoint[t].count ELSE TurnCount + 1

TurnCompleted(input) ==
  /\ input.kind = "ended"
  /\ Go(IF MayComplete(input.turn) /\ checkpoint[input.turn].status \notin Real THEN "capture" ELSE "idle",
        [input EXCEPT !.count = CountOf(input.turn)])
  /\ UNCHANGED <<files, checkpoint>>

\* captureCheckpointFromPlaceholder
ReplacePlaceholder(input) ==
  /\ input.kind = "placeholder"
  /\ Go(IF checkpoint[input.turn].status \notin Real THEN "capture" ELSE "idle",
        [input EXCEPT !.status = "ready"])
  /\ UNCHANGED <<files, checkpoint>>

\* handleRevertRequested: refused unless the count has a checkpoint in git.
Restorable(count) ==
  \/ count = 0
  \/ count \in DOMAIN refs /\ \E t \in Tracked : checkpoint[t] \in [count : {count}, status : InGit]

\* The later checkpoints that the thread listed when it was read.
InGitAt(t) == checkpoint[t].status \in InGit
StaleFromHere(count) == {checkpoint[t].count : t \in {u \in Turns : InGitAt(u) /\ checkpoint[u].count >= count}}
StaleRefs(count) == {checkpoint[t].count : t \in {u \in Turns : InGitAt(u) /\ checkpoint[u].count > count}}

Restore(input) ==
  /\ input.kind = "revert"
  /\ \/ /\ Restorable(input.count)
        /\ workspace' = IF input.count \in DOMAIN refs THEN refs[input.count] ELSE 0
        /\ Go("delete", [Input("revert", 0, input.count, "none") EXCEPT !.stale = StaleRefs(input.count)])
     \/ ~Restorable(input.count) /\ Go("idle", input) /\ UNCHANGED workspace
  /\ UNCHANGED <<edits, git, checkpoint>>

Take ==
  /\ step = "idle"
  /\ \E input \in Heads :
       /\ Takes(input)
       /\ EnsureBaseline(input) \/ TurnCompleted(input) \/ ReplacePlaceholder(input) \/ Restore(input)

CaptureFiles ==
  /\ step = "capture"
  /\ refs' = [c \in {job.count} \cup DOMAIN refs |-> IF c = job.count THEN workspace ELSE refs[c]]
  /\ torn' = torn \ {job.count}
  /\ Go(IF job.kind = "baseline" THEN "idle" ELSE "record", job)
  /\ UNCHANGED <<workspace, edits, checkpoint, inputs>>

\* The dispatch: a status "missing" looks like a placeholder to the reactor.
Record ==
  /\ step = "record"
  /\ checkpoint' = WithCheckpoint(job.turn, job.count, job.status)
  /\ domain' = IF job.status = "missing" THEN Append(domain, [job EXCEPT !.kind = "placeholder"]) ELSE domain
  /\ Go("idle", job)
  /\ UNCHANGED <<files, runtime>>

\* deleteCheckpointRefs: what is left to delete, and what is next in the order of
\* the list.
ToDelete == job.stale \cap DOMAIN refs
NextToDelete == {c \in ToDelete : \A d \in ToDelete : c <= d}
Delete(c) == refs' = [d \in DOMAIN refs \ {c} |-> refs[d]]

\* When the provider has rolled its conversation back, the refs go one by one.
\* That git refuses to delete one is ignored.
DeleteRefs ==
  /\ step = "delete"
  /\ \E c \in NextToDelete :
       \/ Delete(c) /\ Go("delete", job)
       \/ UNCHANGED refs /\ Go("delete", [job EXCEPT !.stale = @ \ {c}])
  /\ UNCHANGED <<workspace, edits, torn, checkpoint, inputs>>

\* Then the turns go.
Reverted ==
  /\ step = "delete" /\ ToDelete = {}
  /\ checkpoint' = [t \in Turns |-> IF checkpoint[t].count > job.count THEN NoCheckpoint ELSE checkpoint[t]]
  /\ Go("idle", job)
  /\ UNCHANGED <<files, inputs>>

\* Git, the provider or a dispatch fails: an activity says so, no more.  A call
\* of git that takes too long may have deleted its ref.
InputFails ==
  /\ faults < MaxFaults /\ faults' = faults + 1
  /\ \/ step = "idle" /\ (\E input \in Heads : Takes(input)) /\ UNCHANGED refs
     \/ step # "idle" /\ UNCHANGED <<inputs, refs>>
     \/ step = "delete" /\ (\E c \in NextToDelete : Delete(c)) /\ UNCHANGED inputs
  /\ torn' = torn \cup (job.stale \ DOMAIN refs')
  /\ step' = "idle" /\ job' = NoJob
  /\ UNCHANGED <<workspace, edits, checkpoint, turn, ingestion, reverts>>

-----------------------------------------------------------------------------
React == Take \/ CaptureFiles \/ Record \/ DeleteRefs \/ Reverted

CheckpointsNext ==
  \/ SendPrompt \/ TurnBegins \/ Edit \/ \E s \in Outcomes : EndTurn(s)
  \/ \E c \in 0..TurnCount : RequestRevert(c)
  \/ Ingest \/ DispatchPlaceholder \/ React \/ InputFails

CheckpointsSpec == CheckpointsInit /\ [][CheckpointsNext]_checkpointVars
-----------------------------------------------------------------------------
(* What is required.                                                       *)

Quiet == /\ ~requested /\ running = 0 /\ ingest = << >> /\ noted = << >>
         /\ domain = << >> /\ runtime = << >> /\ step = "idle"

\* A checkpoint that the thread lists can be restored: its ref is in git.  Only
\* a revert under way may have deleted it, to take the turn off the list next, or
\* one that failed since the checkpoint was captured.
CheckpointsAreStored ==
  \A t \in Turns : InGitAt(t) =>
    \/ checkpoint[t].count \in DOMAIN refs \cup torn
    \/ step = "delete" /\ checkpoint[t].count > job.count

\* When all is handled and nothing has failed, no placeholder is left: each has
\* been replaced by a capture or lost its count to one.
PlaceholdersAreReplaced ==
  Quiet /\ faults = 0 => \A t \in Turns : checkpoint[t].status # "placeholder"

\* The checkpoint of the last turn holds the files as the turn left them.
CheckpointsHoldTheTurn ==
  (Quiet /\ faults = 0 /\ reverts = 0 /\ begun > 0 /\ checkpoint[begun].status \in Real)
  => refs[checkpoint[begun].count] = workspace
=============================================================================
