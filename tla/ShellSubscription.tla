------------------------- MODULE ShellSubscription -------------------------
(***************************************************************************)
(* The subscription of one browser to the shell: the list of projects and  *)
(* threads with their state.  The server reads a snapshot, sends it, and   *)
(* only then subscribes to the events the engine publishes; of an event it *)
(* sends not what the event says but the row as it is when its turn comes. *)
(* The browser keeps the version of what it applied last, over lost        *)
(* connections, and skips what is not newer.                               *)
(*                                                                         *)
(* A row is the number of the last event that changed it, and 0 while the  *)
(* thread is not there, deleted or archived.                               *)
(***************************************************************************)
EXTENDS Integers, Sequences

CONSTANTS
  Threads,
  MaxEvents,     \* bound on the events that are committed
  MaxFaults      \* bound on lost connections, restarts and failing reads

VARIABLES
  log,           \* the committed events: their thread, and whether they remove it
  row,           \* [Threads -> its row]
  stamp,         \* the newest time in any row; times are the clients' and need not grow
  published,     \* how many of the events are published
  subscription,  \* "closed", "loaded", "live", or "failed" and given up
  snapshot,      \* how many events the snapshot of the subscription covers
  next,          \* the first event the live stream has yet to send
  version,       \* the sequence and the updatedAt of what the browser applied last
  view,          \* [Threads -> the row the browser shows]
  missed,        \* threads with an event of which the browser was not told
  faults

server == <<log, row, stamp, published>>
browser == <<version, view>>
shellVars == <<server, subscription, snapshot, next, browser, missed, faults>>

ShellInit ==
  /\ log = << >> /\ row = [t \in Threads |-> 0] /\ stamp = 0 /\ published = 0
  /\ subscription = "closed" /\ snapshot = 0 /\ next = 1
  /\ version = [sequence |-> -1, updatedAt |-> -1] \* older than all
  /\ view = [t \in Threads |-> 0] /\ missed = {} /\ faults = 0

-----------------------------------------------------------------------------
(* The engine, as far as the subscription sees it.                         *)

\* An event changes a thread that is listed, lists one that is not, removes
\* one, or is about a thread that is archived.
Commit(t, removes, lists, time) ==
  /\ Len(log) < MaxEvents /\ (lists => row[t] = 0 /\ ~removes)
  /\ log' = Append(log, [thread |-> t, removes |-> removes])
  /\ row' = [row EXCEPT ![t] = IF removes \/ (@ = 0 /\ ~lists) THEN 0 ELSE Len(log) + 1]
  /\ stamp' = time
  /\ UNCHANGED <<published, subscription, snapshot, next, browser, missed, faults>>

Publish ==
  /\ published < Len(log) /\ published' = published + 1
  /\ UNCHANGED <<log, row, stamp, subscription, snapshot, next, browser, missed, faults>>

-----------------------------------------------------------------------------
(* The browser.                                                            *)

FirstSnapshotOnly(sequence, updatedAt) == version.sequence = -1

shouldApplyProjectionSnapshot(sequence, updatedAt) ==
  \/ version.sequence < sequence
  \/ version.sequence = sequence /\ version.updatedAt < updatedAt

NextEventOnly(sequence) == sequence = version.sequence + 1

shouldApplyProjectionEvent(sequence) == version.sequence < sequence

syncShellSnapshot ==
  IF shouldApplyProjectionSnapshot(Len(log), stamp)
    THEN /\ version' = [sequence |-> Len(log), updatedAt |-> stamp]
         /\ view' = row /\ missed' = {}
    ELSE UNCHANGED <<browser, missed>>

\* The thread is shown as r from now on.
applyShellEvent(sequence, t, r) ==
  IF shouldApplyProjectionEvent(sequence)
    THEN /\ version' = [version EXCEPT !.sequence = sequence]
         /\ view' = [view EXCEPT ![t] = r] /\ missed' = missed \ {t}
    ELSE UNCHANGED <<browser, missed>>

-----------------------------------------------------------------------------
(* The subscription.                                                       *)

Fault == faults < MaxFaults /\ faults' = faults + 1

\* The snapshot is read in one transaction, and sent.
LoadSnapshot ==
  /\ subscription = "closed"
  /\ subscription' = "loaded" /\ snapshot' = Len(log)
  /\ syncShellSnapshot
  /\ UNCHANGED <<server, next, faults>>

\* An error of the read is not one of the connection: nobody tries again.
LoadFails ==
  /\ subscription = "closed" /\ Fault
  /\ subscription' = "failed"
  /\ UNCHANGED <<server, snapshot, next, browser, missed>>

\* The stream of the snapshot is at its end and the live one begins: what
\* was committed after the read and is published already passes it by.
GoLive ==
  /\ subscription = "loaded"
  /\ subscription' = "live" /\ next' = published + 1
  /\ missed' = missed \cup {log[e].thread : e \in (snapshot + 1)..published}
  /\ UNCHANGED <<server, snapshot, browser, faults>>

\* toShellStreamEvent: an event about a thread that is not there is not sent.
Send ==
  /\ subscription = "live" /\ next <= published /\ next' = next + 1
  /\ LET t == log[next].thread IN
       CASE log[next].removes -> applyShellEvent(next, t, 0)
         [] ~log[next].removes /\ row[t] # 0 -> applyShellEvent(next, t, row[t])
         [] OTHER -> UNCHANGED <<browser, missed>>
  /\ UNCHANGED <<server, subscription, snapshot, faults>>

\* The row cannot be read: the event is skipped.
SendFails ==
  /\ subscription = "live" /\ next <= published /\ next' = next + 1
  /\ ~log[next].removes /\ Fault
  /\ missed' = missed \cup {log[next].thread}
  /\ UNCHANGED <<server, subscription, snapshot, browser>>

\* The connection is lost; the browser subscribes again.
Disconnect ==
  /\ subscription \in {"loaded", "live"} /\ Fault
  /\ subscription' = "closed"
  /\ UNCHANGED <<server, snapshot, next, browser, missed>>

\* The server restarts: what it had not published it never will.
ServerRestarts ==
  /\ Fault
  /\ published' = Len(log)
  /\ subscription' = IF subscription = "failed" THEN "failed" ELSE "closed"
  /\ UNCHANGED <<log, row, stamp, snapshot, next, browser, missed>>

-----------------------------------------------------------------------------
Go == Publish \/ LoadSnapshot \/ GoLive \/ Send

ShellNext ==
  \/ \E t \in Threads, removes, lists \in BOOLEAN, time \in 0..1 : Commit(t, removes, lists, time)
  \/ Go
  \/ LoadFails \/ SendFails \/ Disconnect \/ ServerRestarts

ShellSpec == ShellInit /\ [][ShellNext]_shellVars

\* The engine publishes what it committed, the browser subscribes again
\* after a pause, and a stream goes on while it has something to send.
FairShellSpec == ShellSpec /\ WF_shellVars(Publish) /\ WF_shellVars(LoadSnapshot) /\ WF_shellVars(GoLive) /\ WF_shellVars(Send)

-----------------------------------------------------------------------------
(* Properties.                                                             *)

\* While the browser is connected and has been sent every event, it shows
\* the rows as they are, apart from those with an event that fell between
\* the read of the snapshot and the live stream or whose row could not be
\* read, and that nothing later has corrected: no lost connection, restart,
\* late row or equal version loses or brings back anything else.
ShellShowsTheRows ==
  subscription = "live" /\ next > Len(log) =>
    \A t \in Threads : view[t] = row[t] \/ t \in missed

\* A row that is not shown as it is comes to be, whatever is lost in
\* between, unless its event is missed or the subscription is given up.
LaterChangesAreShown ==
  \A t \in Threads :
    []<>(view[t] = row[t] \/ t \in missed \/ subscription = "failed")
=============================================================================
