--------------------------- MODULE MCCheckpoints ---------------------------
(***************************************************************************)
(* Small instances of Checkpoints for TLC: its constants get their values  *)
(* in the configuration.                                                   *)
(***************************************************************************)
EXTENDS Checkpoints, TLC
=============================================================================
