----------------------- MODULE MCOrchestrationEngine -----------------------
(***************************************************************************)
(* Small instances of OrchestrationEngine for TLC.                         *)
(***************************************************************************)
EXTENDS OrchestrationEngine, TLC

CONSTANTS k1, k2, t1, s1

\* Two commands race to create one thread, a turn start appends two events,
\* an upsert is repeated under another id and changes nothing.
MCCommands == {"create", "again", "turn", "upsert", "repeat"}
MCKind == [c \in MCCommands |-> CASE c = "turn" -> "update"
                                   [] c \in {"upsert", "repeat"} -> "upsert"
                                   [] OTHER -> "create"]
MCTarget == [c \in MCCommands |-> t1]

\* A creation, an upsert that is repeated under another id, a deletion.
MCLifeCommands == {"create", "upsert", "repeat", "delete"}
MCLifeKind == [c \in MCLifeCommands |-> IF c = "repeat" THEN "upsert" ELSE c]
MCLifeTarget == [c \in MCLifeCommands |-> t1]
=============================================================================
