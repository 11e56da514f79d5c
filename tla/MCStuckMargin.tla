--------------------------- MODULE MCStuckMargin ---------------------------
(***************************************************************************)
(* StuckMargin for TLC: the settings that matter here take every value and *)
(* every fault, the others in turn one that is out of range.               *)
(***************************************************************************)
EXTENDS StuckMargin

Varied == {"HTTP_WRITE_TIMEOUT", "WORKER_TASK_TIMEOUT", "WORKER_STUCK_TIMEOUT"}

MCDefault == [name \in NumberNames |->
                CASE name = "WORKER_STUCK_TIMEOUT" -> 5
                  [] name = "WORKER_TASK_TIMEOUT" -> 2
                  [] OTHER -> 3]

AllUnset == [name \in Names |-> IF name = "DATABASE_URL" THEN 0 ELSE Unset]

Raw == Durations \cup {Unset, Malformed}

MCEnvs ==
  {[AllUnset EXCEPT !["WORKER_TASK_TIMEOUT"] = task,
                    !["WORKER_STUCK_TIMEOUT"] = stuck] : task, stuck \in Raw}
  \cup {[AllUnset EXCEPT ![name] = v] : name \in Names, v \in {Unset, Malformed, -1, 0, 1, 2, Half - 1}}
=============================================================================
