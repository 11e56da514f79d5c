-------------------------- MODULE MCRecoveryPasses --------------------------
(***************************************************************************)
(* RecoveryPasses for TLC.                                                 *)
(***************************************************************************)
EXTENDS RecoveryPasses
=============================================================================
