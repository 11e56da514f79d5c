---------------------------- MODULE AtomicPasses ----------------------------
(***************************************************************************)
(* What a recovery pass is to everybody else: the rows of the queue as     *)
(* they are committed, with the passes, the workers, the statements and    *)
(* the locks left out.  A claim starts, grows stale, and is ended, once,   *)
(* either by its holder or by a pass that takes any number of stale rows   *)
(* in a single step, each where its attempts send it.  A row that is not   *)
(* there yet is a row nobody has claimed.                                  *)
(***************************************************************************)
EXTENDS Naturals

CONSTANTS Rows, MaxAttempts

VARIABLES status, attempts, stale

vars == <<status, attempts, stale>>

Init ==
  /\ status = [r \in Rows |-> "pending"]
  /\ attempts = [r \in Rows |-> 0]
  /\ stale = {}

Claim(r) ==
  /\ status[r] = "pending"
  /\ status' = [status EXCEPT ![r] = "in_progress"]
  /\ attempts' = [attempts EXCEPT ![r] = @ + 1]
  /\ UNCHANGED stale

GrowStale(S) ==
  /\ \A r \in S : status[r] = "in_progress"
  /\ stale' = stale \cup S
  /\ UNCHANGED <<status, attempts>>

(* By its holder: done, failed, or handed back; late or not.               *)
Finalise(r) ==
  /\ status[r] = "in_progress"
  /\ \E s \in {"done", "failed", "pending"} : status' = [status EXCEPT ![r] = s]
  /\ stale' = stale \ {r}
  /\ UNCHANGED attempts

Pass(S) ==
  /\ S \subseteq stale
  /\ \A r \in S : status[r] = "in_progress"
  /\ status' = [r \in Rows |->
       IF r \notin S THEN status[r]
       ELSE IF attempts[r] < MaxAttempts THEN "pending" ELSE "failed"]
  /\ stale' = stale \ S
  /\ UNCHANGED attempts

Next ==
  \/ \E r \in Rows : Claim(r) \/ Finalise(r)
  \/ \E S \in SUBSET Rows : GrowStale(S) \/ Pass(S)

Spec == Init /\ [][Next]_vars
=============================================================================
