---------------------------- MODULE MCKeyedPosts ----------------------------
(***************************************************************************)
(* KeyedPosts for TLC.                                                     *)
(***************************************************************************)
EXTENDS KeyedPosts, TLC

Symmetry ==
  Permutations(Requests) \cup Permutations(Tasks) \cup Permutations(Pairs)
=============================================================================
