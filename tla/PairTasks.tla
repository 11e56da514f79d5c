------------------------------ MODULE PairTasks ------------------------------
(***************************************************************************)
(* What posts and the queue have in common: the rows of quote_updates as a *)
(* post sees them.  Whichever side it is that opens tasks and whichever    *)
(* that closes them, a pair has one open task at most, a row keeps its     *)
(* pair, and a closed task stays closed.                                   *)
(***************************************************************************)
CONSTANTS Tasks, Pairs, None

VARIABLES status, pairOf  \* absent, open or closed; and the pair

tasks == <<status, pairOf>>

RowsInit ==
  /\ status = [t \in Tasks |-> "absent"]
  /\ pairOf = [t \in Tasks |-> None]

(* The partial unique index on the pairs of unfinished rows.               *)
OpenTask(t, p) ==
  /\ \A u \in Tasks : status[u] = "open" => pairOf[u] # p
  /\ status[t] = "absent"
  /\ status' = [status EXCEPT ![t] = "open"]
  /\ pairOf' = [pairOf EXCEPT ![t] = p]

(* A recovery pass may give several tasks up in one transaction.           *)
CloseTasks(S) ==
  /\ \A t \in S : status[t] = "open"
  /\ status' = [t \in Tasks |-> IF t \in S THEN "closed" ELSE status[t]]
  /\ UNCHANGED pairOf

RowsNext ==
  \/ \E t \in Tasks, p \in Pairs : OpenTask(t, p)
  \/ \E S \in SUBSET Tasks : CloseTasks(S)

RowsSpec == RowsInit /\ [][RowsNext]_tasks
=============================================================================
