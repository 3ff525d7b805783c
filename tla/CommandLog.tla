----------------------------- MODULE CommandLog -----------------------------
(***************************************************************************)
(* What the orchestration engine promises about commands, without queue,   *)
(* transaction, read model or crash: a command id is settled at most once. *)
(* Either all its events enter the log in one step and it is accepted, or  *)
(* it is rejected and leaves the log alone; a settled id never changes     *)
(* again.  The log only grows.                                             *)
(***************************************************************************)
EXTENDS Naturals, Sequences

CONSTANT Commands          \* command ids

VARIABLES
  log,                     \* the event log; each event names its command
  outcome                  \* [Commands -> {"none", "accepted", "rejected"}]

vars == <<log, outcome>>

Init == /\ log = << >>
        /\ outcome = [c \in Commands |-> "none"]

\* new extends old by at least one event, all of them of command c.
ExtendedBy(old, new, c) ==
  /\ Len(new) > Len(old)
  /\ \A i \in 1..Len(old) : new[i] = old[i]
  /\ \A i \in (Len(old) + 1)..Len(new) : new[i].cmd = c

Accept(c) == /\ outcome[c] = "none"
             /\ ExtendedBy(log, log', c)
             /\ outcome' = [outcome EXCEPT ![c] = "accepted"]

Reject(c) == /\ outcome[c] = "none"
             /\ outcome' = [outcome EXCEPT ![c] = "rejected"]
             /\ UNCHANGED log

Next == \E c \in Commands : Accept(c) \/ Reject(c)

Spec == Init /\ [][Next]_vars
=============================================================================
