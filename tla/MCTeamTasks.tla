---------------------------- MODULE MCTeamTasks ----------------------------
(***************************************************************************)
(* Small instances of TeamTasks for TLC.                                   *)
(***************************************************************************)
EXTENDS TeamTasks, TLC

CONSTANTS a, b, sub

\* Every task belongs to the coordinator.
MCFlat == [t \in Tasks |-> Root]

\* The child thread of a tries to have a child b of its own.
MCNested == [t \in Tasks |-> IF t = b THEN a ELSE Root]
=============================================================================
