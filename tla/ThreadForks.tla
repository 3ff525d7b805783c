---------------------------- MODULE ThreadForks ----------------------------
(***************************************************************************)
(* Making a thread in several steps: a fork of a conversation, in a        *)
(* worktree of its own or in the workspace of its source, and the first    *)
(* turn of a new thread with its worktree.  Each step calls git, the file  *)
(* system, a terminal or the engine; it may fail, and the connection whose *)
(* call it is may be lost.  A fork then undoes what it did, each step of   *)
(* which may fail too; a first turn only deletes its thread.  Meanwhile    *)
(* others edit and commit in the source workspace, the user may delete the *)
(* new thread, and the deletion reactor closes its terminals.              *)
(*                                                                         *)
(* The content of a workspace is a number, and so is the commit that made  *)
(* a content: 0 is the first.  Git sees no half of an edit.                *)
(***************************************************************************)
EXTENDS Integers

CONSTANTS
  Kinds,      \* of {"worktree", "local", "turn"}: what may be made
  MaxSaved,   \* bound: edits in the source workspace
  MaxMoves,   \* bound: moves of its HEAD to a commit it had
  MaxClones,  \* attachments of the conversation
  MaxSlips    \* bound: steps that fail or are interrupted

ASSUME ForksAssumption ==
  /\ Kinds \subseteq {"worktree", "local", "turn"}
  /\ MaxSaved \in Nat /\ MaxMoves \in Nat /\ MaxClones \in Nat /\ MaxSlips \in Nat

\* What is done, step by step, and what a failure of a fork undoes.
First == [worktree |-> "head", local |-> "clone", turn |-> "create"]
After ==
  [worktree |-> [head |-> "patch", patch |-> "verify", verify |-> "worktree", worktree |-> "apply",
                 apply |-> "setup", setup |-> "clone", clone |-> "create", create |-> "load", load |-> "done"],
   local |-> [clone |-> "create", create |-> "load", load |-> "done"],
   turn |-> [create |-> "worktree", worktree |-> "meta", meta |-> "setup", setup |-> "start", start |-> "done"]]
AfterUndoing ==
  [dropClones |-> "dropTree", dropTree |-> "dropBranch", dropBranch |-> "dropChild", dropChild |-> "failed"]

VARIABLES
  source,       \* of the source workspace: HEAD, the files, and the commits
  saved, moves, \* edits and moves made so far
  seen,         \* history: the pairs of HEAD and files the workspace had
  kind,         \* what is made
  at,           \* the next step, or how it ended: "done" or "failed"
  snapshot,     \* what was read of the source: HEAD, files, attempts
  tree,         \* of the worktree in git: where it started and its files
  branch,       \* its branch is in git
  cleanup,      \* what a failure is to undo: of {"tree", "child"}
  clones,       \* copies of attachments
  forked,        \* the thread: "none", "live" or "deleted"
  setup,        \* the terminal of the setup script runs
  deletions,    \* thread.deleted events the deletion reactor has not handled
  slips, \* what went wrong: steps and, of what they leave, "git", "unanswered", "returned", "late"
  slipped       \* how often a step failed

sourceVars == <<source, saved, moves, seen>>
made == <<tree, branch, clones, forked, setup>>
forkVars == <<sourceVars, kind, at, snapshot, made, cleanup, deletions, slips, slipped>>

NoTree == [base |-> -1, files |-> -1]

ForksInit ==
  /\ source = [head |-> 0, files |-> 0, commits |-> {0}] /\ saved = 0 /\ moves = 0
  /\ seen = {<<0, 0>>}
  /\ kind \in Kinds
  /\ at = First[kind] /\ snapshot = [head |-> 0, files |-> 0, attempt |-> 0]
  /\ tree = NoTree /\ branch = FALSE /\ clones = 0 /\ forked = "none" /\ setup = FALSE
  /\ cleanup = {} /\ deletions = 0 /\ slips = {} /\ slipped = 0

-----------------------------------------------------------------------------
(* Others.                                                                 *)

Source(w) ==
  /\ source' = w /\ seen' = seen \cup {<<w.head, w.files>>}
  /\ UNCHANGED <<kind, at, snapshot, made, cleanup, deletions, slipped>>

Save ==
  /\ saved < MaxSaved /\ saved' = saved + 1
  /\ Source([source EXCEPT !.files = saved + 1])
  /\ UNCHANGED <<moves, slips>>

CommitFiles ==
  /\ source.files \notin source.commits
  /\ Source([source EXCEPT !.head = source.files, !.commits = @ \cup {source.files}])
  /\ UNCHANGED <<saved, moves, slips>>

\* A reset keeps the files, a checkout does not.
MoveHead(c) ==
  /\ moves < MaxMoves /\ moves' = moves + 1
  /\ c # source.head
  /\ \E f \in {source.files, c} : Source([source EXCEPT !.head = c, !.files = f])
  /\ slips' = IF at \in {"patch", "verify"} /\ c = snapshot.head THEN slips \cup {"returned"} ELSE slips
  /\ UNCHANGED saved

DeleteThread ==
  /\ forked = "live"
  /\ forked' = "deleted" /\ deletions' = deletions + 1
  /\ UNCHANGED <<sourceVars, kind, at, snapshot, tree, branch, clones, setup, cleanup, slips, slipped>>

\* The deletion reactor closes the thread's terminals, or logs that it cannot.
CloseTerminals ==
  /\ deletions > 0 /\ deletions' = deletions - 1
  /\ \/ setup' = FALSE /\ UNCHANGED <<slips, slipped>>
     \/ /\ slipped < MaxSlips /\ slipped' = slipped + 1
        /\ slips' = slips \cup {"close"} /\ UNCHANGED setup
  /\ UNCHANGED <<sourceVars, kind, at, snapshot, tree, branch, clones, forked, cleanup>>

-----------------------------------------------------------------------------
(* The steps.                                                              *)

Advance(s) == at = s /\ at' = After[kind][s]

ReadHead ==
  /\ Advance("head")
  /\ snapshot' = [snapshot EXCEPT !.head = source.head]
  /\ UNCHANGED <<sourceVars, kind, made, cleanup, deletions, slips, slipped>>

\* The files against the commit that was read, through an index of its own.
ReadPatch ==
  /\ Advance("patch")
  /\ snapshot' = [snapshot EXCEPT !.files = source.files]
  /\ UNCHANGED <<sourceVars, kind, made, cleanup, deletions, slips, slipped>>

VerifyNothing ==
  /\ Advance("verify")
  /\ UNCHANGED <<sourceVars, kind, snapshot, made, cleanup, deletions, slips, slipped>>

\* HEAD must still be the commit; all is read again once.
Verify ==
  /\ at = "verify"
  /\ at' = IF source.head = snapshot.head THEN After[kind][at]
           ELSE IF snapshot.attempt = 0 THEN "head" ELSE "dropClones"
  /\ snapshot' = IF source.head = snapshot.head THEN snapshot ELSE [snapshot EXCEPT !.attempt = @ + 1]
  /\ UNCHANGED <<sourceVars, kind, made, cleanup, deletions, slips, slipped>>

\* A fork starts at the commit that was read, a first turn at some branch.
Bases == IF kind = "turn" THEN source.commits ELSE {snapshot.head}

CreateWorktreeOnly ==
  /\ Advance("worktree")
  /\ \E c \in Bases : tree' = [base |-> c, files |-> c]
  /\ branch' = TRUE
  /\ UNCHANGED <<sourceVars, kind, snapshot, cleanup, clones, forked, setup, deletions, slips, slipped>>

CreateWorktree ==
  /\ Advance("worktree")
  /\ \E c \in Bases : tree' = [base |-> c, files |-> c]
  /\ branch' = TRUE
  /\ cleanup' = IF kind = "turn" THEN cleanup ELSE cleanup \cup {"tree"}
  /\ UNCHANGED <<sourceVars, kind, snapshot, clones, forked, setup, deletions, slips, slipped>>

ApplyPatch ==
  /\ Advance("apply")
  /\ tree' = IF snapshot.files = snapshot.head THEN tree ELSE [tree EXCEPT !.files = snapshot.files]
  /\ UNCHANGED <<sourceVars, kind, snapshot, branch, clones, forked, setup, cleanup, deletions, slips, slipped>>

\* A terminal for the setup script, when the project has one.
RunSetup ==
  /\ Advance("setup")
  /\ \/ UNCHANGED <<setup, slips>>
     \/ setup' = TRUE /\ slips' = IF forked = "deleted" THEN slips \cup {"late"} ELSE slips
  /\ UNCHANGED <<sourceVars, kind, snapshot, tree, branch, clones, forked, cleanup, deletions, slipped>>

CloneAttachments ==
  /\ at = "clone"
  /\ \/ clones < MaxClones /\ clones' = clones + 1 /\ UNCHANGED at
     \/ clones = MaxClones /\ Advance("clone") /\ UNCHANGED clones
  /\ UNCHANGED <<sourceVars, kind, snapshot, tree, branch, forked, setup, cleanup, deletions, slips, slipped>>

DispatchCreate ==
  /\ Advance("create")
  /\ forked' = "live" /\ cleanup' = cleanup \cup {"child"}
  /\ UNCHANGED <<sourceVars, kind, snapshot, tree, branch, clones, setup, deletions, slips, slipped>>

\* The thread gets its worktree, or its turn: the engine takes both for a deleted
\* thread, too.
DispatchMore ==
  /\ Advance("meta") \/ Advance("start")
  /\ UNCHANGED <<sourceVars, kind, snapshot, made, cleanup, deletions, slips, slipped>>

\* The thread is not found when the user has deleted it.
LoadThread ==
  /\ at = "load"
  /\ at' = IF forked = "live" THEN "done" ELSE "dropClones"
  /\ UNCHANGED <<sourceVars, kind, snapshot, made, cleanup, deletions, slips, slipped>>

-----------------------------------------------------------------------------
(* A step ends early: it fails, or the connection is lost.                 *)

\* A first turn goes on without its setup, and undoes nothing when interrupted.
Undoes(interrupted) ==
  IF kind # "turn" THEN "dropClones"
  ELSE IF interrupted THEN "failed"
  ELSE IF at = "setup" THEN After[kind][at] ELSE "dropChild"

\* Nobody waits for the answer when a first turn is interrupted.
SlipsWhen(interrupted, more) ==
  slips \cup more \cup (IF interrupted /\ kind = "turn" THEN {"unanswered"} ELSE {})

\* What it may leave: git its branch or its worktree; a copy; and, when nobody
\* waits for it any more, the terminal or the thread all the same.
Leaves(interrupted) ==
  \/ UNCHANGED made /\ slips' = SlipsWhen(interrupted, {})
  \/ /\ at = "worktree"
     /\ branch' = TRUE /\ \E c \in Bases : tree' \in {NoTree, [base |-> c, files |-> c]}
     /\ slips' = SlipsWhen(interrupted, {"git"}) /\ UNCHANGED <<clones, forked, setup>>
  \/ /\ at = "clone" /\ clones < MaxClones
     /\ clones' = clones + 1 /\ UNCHANGED <<tree, branch, forked, setup, slips>>
  \/ /\ interrupted /\ at = "create"
     /\ forked' = "live" /\ slips' = SlipsWhen(interrupted, {"unanswered"})
     /\ UNCHANGED <<tree, branch, clones, setup>>
  \/ /\ interrupted /\ at = "setup"
     /\ setup' = TRUE /\ slips' = SlipsWhen(interrupted, IF forked = "deleted" THEN {"late"} ELSE {})
     /\ UNCHANGED <<tree, branch, clones, forked>>

EndEarly ==
  /\ at \in DOMAIN After[kind]
  /\ slipped < MaxSlips /\ slipped' = slipped + 1
  /\ \E interrupted \in BOOLEAN :
       at' = Undoes(interrupted) /\ Leaves(interrupted)
  /\ UNCHANGED <<sourceVars, kind, snapshot, cleanup, deletions>>

-----------------------------------------------------------------------------
(* A fork undoes what it did.  It cannot be interrupted at that; what fails *)
(* is skipped.                                                             *)

Undo(s) == at = s /\ at' = AfterUndoing[s]

\* The copies, then everything whose name says it is the thread's.
DropClones ==
  /\ Undo("dropClones") /\ clones' = 0
  /\ UNCHANGED <<sourceVars, kind, snapshot, tree, branch, forked, setup, cleanup, deletions, slips, slipped>>

DropTree ==
  /\ Undo("dropTree")
  /\ tree' = IF "tree" \in cleanup THEN NoTree ELSE tree
  /\ UNCHANGED <<sourceVars, kind, snapshot, branch, clones, forked, setup, cleanup, deletions, slips, slipped>>

\* Git keeps a branch that a worktree has checked out.
DropBranch ==
  /\ Undo("dropBranch")
  /\ branch' = IF "tree" \in cleanup THEN tree # NoTree ELSE branch
  /\ UNCHANGED <<sourceVars, kind, snapshot, tree, clones, forked, setup, cleanup, deletions, slips, slipped>>

\* Only when the thread was made; it may be deleted once more.
DropChild ==
  /\ Undo("dropChild")
  /\ IF "child" \in cleanup THEN forked' = "deleted" /\ deletions' = deletions + 1
                            ELSE UNCHANGED <<forked, deletions>>
  /\ UNCHANGED <<sourceVars, kind, snapshot, tree, branch, clones, setup, cleanup, slips, slipped>>

SkipDrop ==
  /\ at \in DOMAIN AfterUndoing /\ Undo(at)
  /\ slipped < MaxSlips /\ slipped' = slipped + 1
  /\ slips' = slips \cup {at}
  /\ UNCHANGED <<sourceVars, kind, snapshot, made, cleanup, deletions>>

-----------------------------------------------------------------------------
ForksNext ==
  \/ Save \/ CommitFiles \/ \E c \in source.commits : MoveHead(c)
  \/ DeleteThread \/ CloseTerminals
  \/ ReadHead \/ ReadPatch \/ Verify \/ CreateWorktree \/ ApplyPatch \/ RunSetup
  \/ CloneAttachments \/ DispatchCreate \/ DispatchMore \/ LoadThread \/ EndEarly
  \/ DropClones \/ DropTree \/ DropBranch \/ DropChild \/ SkipDrop

ForksSpec == ForksInit /\ [][ForksNext]_forkVars
-----------------------------------------------------------------------------
(* What is required.                                                       *)

Commits == 0..MaxSaved
Workspaces == [base : Commits \cup {-1}, files : Commits \cup {-1}]

SourceOK ==
  /\ source \in [head : Commits, files : Commits, commits : SUBSET Commits]
  /\ saved \in 0..MaxSaved /\ moves \in 0..MaxMoves
  /\ seen \subseteq Commits \X Commits

StepOK ==
  /\ kind \in Kinds
  /\ at \in DOMAIN After[kind] \cup DOMAIN AfterUndoing \cup {"done", "failed"}
  /\ cleanup \subseteq {"tree", "child"}
  /\ slips \subseteq DOMAIN AfterUndoing \cup {"git", "unanswered", "returned", "late", "close"}
  /\ slipped \in 0..MaxSlips

MadeOK ==
  /\ snapshot \in [head : Commits, files : Commits, attempt : Nat]
  /\ tree \in Workspaces /\ branch \in BOOLEAN
  /\ clones \in 0..MaxClones
  /\ forked \in {"none", "live", "deleted"}
  /\ setup \in BOOLEAN /\ deletions \in Nat

ForksTypeOK == SourceOK /\ StepOK /\ MadeOK

\* A fork's worktree is what the source workspace was at one moment, its HEAD and
\* its files, whatever others edit and commit meanwhile; unless HEAD came back to
\* the commit while it was not looked at.
ForksAreSnapshots ==
  kind = "worktree" /\ at \in {"setup", "clone", "create", "load", "done"}
  => <<tree.base, tree.files>> \in seen \/ "returned" \in slips

\* What fails leaves no thread; a fork leaves no copies, worktree or branch either,
\* and the terminal of its setup is closed once its thread is deleted.  Excused
\* are what git left when it failed or was interrupted, a thread whose creation
\* nobody waited for, a step of the undoing that failed, and a terminal that was
\* opened for a thread the user had deleted.
FailuresAreUndone ==
  at = "failed" =>
    /\ kind # "turn" =>
         /\ clones = 0 \/ "dropClones" \in slips
         /\ tree = NoTree \/ slips \cap {"git", "dropTree"} # {}
         /\ ~branch \/ slips \cap {"git", "dropTree", "dropBranch"} # {}
    /\ forked = "live" => slips \cap {"unanswered", "dropChild"} # {}
    /\ forked = "deleted" /\ deletions = 0 /\ setup => slips \cap {"late", "close"} # {}
=============================================================================
