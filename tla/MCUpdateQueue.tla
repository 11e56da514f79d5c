--------------------------- MODULE MCUpdateQueue ---------------------------
(***************************************************************************)
(* UpdateQueue for TLC.  Identifiers, pairs and workers are alike, so they *)
(* may be permuted where only safety is checked.                           *)
(***************************************************************************)
EXTENDS UpdateQueue, TLC

(* A shutdown hands every task back once, or one of them.                  *)
EachOnce == [t \in Tasks |-> 1]
OneOnce == [t \in Tasks |-> IF t = CHOOSE u \in Tasks : TRUE THEN 1 ELSE 0]

Symmetry == Permutations(Tasks) \cup Permutations(Pairs) \cup Permutations(Workers)
=============================================================================
