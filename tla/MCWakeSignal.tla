---------------------------- MODULE MCWakeSignal ----------------------------
(***************************************************************************)
(* WakeSignal for TLC.                                                     *)
(***************************************************************************)
EXTENDS WakeSignal, TLC

Symmetry ==
  Permutations(Tasks) \cup Permutations(Workers)
    \cup Permutations(Here) \cup Permutations(Requests \ Here)
=============================================================================
