-------------------------- MODULE MCAssistantText --------------------------
(***************************************************************************)
(* A small instance of AssistantText for TLC.                              *)
(***************************************************************************)
EXTENDS AssistantText, TLC
=============================================================================
