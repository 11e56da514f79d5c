----------------------------- MODULE QuoteTasks -----------------------------
(***************************************************************************)
(* What the service promises a client about updates, with the queue, the   *)
(* workers and the database left out.  A post that is not answered with a  *)
(* task that already waits creates one; a task that waits ends once, as    *)
(* done with a quote or as failed without; and the latest quote of a pair  *)
(* is always the one of the task that was done last.                       *)
(***************************************************************************)
CONSTANTS Tasks, Pairs, None

VARIABLES
  phase,    \* what GET /quotes/updates/{id} tells of a task
  pairOf,   \* the pair a task was asked for
  latest    \* the task whose quote GET /quotes/latest serves

vars == <<phase, pairOf, latest>>

Ended == {"done", "failed"}

Init ==
  /\ phase = [t \in Tasks |-> "unknown"]
  /\ pairOf = [t \in Tasks |-> None]
  /\ latest = [p \in Pairs |-> None]

(* At most one task of a pair waits.                                       *)
Ask(t, p) ==
  /\ phase[t] = "unknown"
  /\ \A u \in Tasks : pairOf[u] = p => phase[u] # "waiting"
  /\ phase' = [phase EXCEPT ![t] = "waiting"]
  /\ pairOf' = [pairOf EXCEPT ![t] = p]
  /\ UNCHANGED latest

Succeed(t) ==
  /\ phase[t] = "waiting"
  /\ phase' = [phase EXCEPT ![t] = "done"]
  /\ latest' = [latest EXCEPT ![pairOf[t]] = t]
  /\ UNCHANGED pairOf

Fail(t) ==
  /\ phase[t] = "waiting"
  /\ phase' = [phase EXCEPT ![t] = "failed"]
  /\ UNCHANGED <<pairOf, latest>>

(* A recovery pass may give up on several tasks at once.                   *)
GiveUp(S) ==
  /\ \A t \in S : phase[t] = "waiting"
  /\ phase' = [t \in Tasks |-> IF t \in S THEN "failed" ELSE phase[t]]
  /\ UNCHANGED <<pairOf, latest>>

Next ==
  \/ \E t \in Tasks : (\E p \in Pairs : Ask(t, p)) \/ Succeed(t) \/ Fail(t)
  \/ \E S \in SUBSET Tasks : GiveUp(S)

Safety == Init /\ [][Next]_vars

EveryTaskEnds ==
  \A t \in Tasks : phase[t] = "waiting" ~> phase[t] \in Ended

Spec == Safety /\ EveryTaskEnds
=============================================================================
