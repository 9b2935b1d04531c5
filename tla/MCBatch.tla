------------------------------- MODULE MCBatch -------------------------------
(***************************************************************************)
(* Small instances of Batch for TLC.                                       *)
(***************************************************************************)
EXTENDS Batch
=============================================================================
