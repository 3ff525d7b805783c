------------------------ MODULE MCBoardSubscription ------------------------
(***************************************************************************)
(* Small instances of BoardSubscription for TLC: all constants are numbers *)
(* and get their values in the configurations.                             *)
(***************************************************************************)
EXTENDS BoardSubscription, TLC
=============================================================================
