---------------------------- MODULE RecoveryPasses ----------------------------
(***************************************************************************)
(* ReleaseStuckTasks, statement by statement and row by row: the recovery  *)
(* passes of several processes, the workers that finish late, and the row  *)
(* locks between them.  It is what makes a pass the single step that       *)
(* UpdateQueue takes it for.                                               *)
(*                                                                         *)
(* PostgreSQL is external: under READ COMMITTED a statement finds its rows *)
(* as they were committed when it began, visits them in an order of its    *)
(* own, waits for a row another transaction has written, and looks at the  *)
(* row again once it has the lock; of two that wait for each other it ends *)
(* one.  A worker of an earlier claim, whose statements match no row, is in *)
(* UpdateQueue.                                                            *)
(* A definition named Def_Something is Def with a mistake in it.           *)
(***************************************************************************)
EXTENDS Integers, FiniteSets

CONSTANTS
  Passes,       \* the recovery goroutine of each process
  Rows,         \* rows of quote_updates
  MaxAttempts,  \* WORKER_MAX_ATTEMPTS
  MaxFaults     \* bound: passes that fail, or die, of something else, and
                \* claims handed back at a shutdown

CONSTANTS Worker, Nobody  \* who may own a row, beside a pass

(* What Load lets through, and that the markers are markers.               *)
ASSUME PassesAssumption ==
  /\ MaxAttempts \in Nat \ {0} /\ MaxFaults \in Nat
  /\ Worker \notin Passes /\ Nobody \notin Passes /\ Worker # Nobody

VARIABLES
  status, attempts,  \* the committed rows
  stale,             \* rows untouched for longer than the staleness threshold
  alive,             \* rows whose worker is still at work
  owner,             \* who has written a row and not committed
  new,               \* the status it has written
  pc,                \* where each pass is
  before,            \* rows stale when its transaction began, untouched since
  todo,              \* rows its statement still has to visit
  faults,            \* failures so far
  ends               \* history: transactions that ended the row's last claim

rows == <<status, attempts, stale, alive, ends>>
locks == <<owner, new>>
pass == <<pc, before, todo>>
vars == <<rows, locks, pass, faults>>

(* Types; and a pass at rest owns nothing and has nothing to do.           *)
TypeOK ==
  /\ status \in [Rows -> {"pending", "in_progress", "done", "failed"}]
  /\ attempts \in [Rows -> Nat]
  /\ stale \subseteq Rows /\ alive \subseteq Rows
  /\ owner \in [Rows -> Passes \cup {Worker, Nobody}]
  /\ new \in [Rows -> {"none", "pending", "done", "failed"}]
  /\ pc \in [Passes -> {"idle", "releasing", "abandoning", "committing"}]
  /\ before \in [Passes -> SUBSET Rows] /\ todo \in [Passes -> SUBSET Rows]
  /\ faults \in 0..MaxFaults
  /\ ends \in [Rows -> Nat]
  /\ \A r \in Rows : new[r] = "none" <=> owner[r] = Nobody
  /\ \A p \in Passes : pc[p] \in {"idle", "committing"} => todo[p] = {}
  /\ \A r \in Rows : owner[r] \in Passes => pc[owner[r]] # "idle"

Init ==
  /\ status = [r \in Rows |-> "pending"] /\ attempts = [r \in Rows |-> 0]
  /\ stale = {} /\ alive = {} /\ ends = [r \in Rows |-> 1]
  /\ owner = [r \in Rows |-> Nobody] /\ new = [r \in Rows |-> "none"]
  /\ pc = [p \in Passes |-> "idle"]
  /\ before = [p \in Passes |-> {}] /\ todo = [p \in Passes |-> {}]
  /\ faults = 0

Owned(p) == {r \in Rows : owner[r] = p}

(* The rows S are written anew: no cutoff set before covers them.          *)
Touched(S) ==
  /\ stale' = stale \ S
  /\ before' = [p \in Passes |-> before[p] \ S]

(* What a transaction wrote becomes the row, ...                           *)
CommitRows(S) ==
  /\ status' = [r \in Rows |-> IF r \in S THEN new[r] ELSE status[r]]
  /\ ends' = [r \in Rows |-> IF r \in S THEN ends[r] + 1 ELSE ends[r]]
  /\ owner' = [r \in Rows |-> IF r \in S THEN Nobody ELSE owner[r]]
  /\ new' = [r \in Rows |-> IF r \in S THEN "none" ELSE new[r]]

(* ... or is gone.                                                         *)
Unlock(S) ==
  /\ owner' = [r \in Rows |-> IF r \in S THEN Nobody ELSE owner[r]]
  /\ new' = [r \in Rows |-> IF r \in S THEN "none" ELSE new[r]]
-----------------------------------------------------------------------------
(***************************************************************************)
(* The queue around the passes.                                            *)
(***************************************************************************)
ClaimTask(r) ==
  /\ status[r] = "pending" /\ owner[r] = Nobody
  /\ status' = [status EXCEPT ![r] = "in_progress"]
  /\ attempts' = [attempts EXCEPT ![r] = @ + 1]
  /\ ends' = [ends EXCEPT ![r] = 0]
  /\ alive' = alive \cup {r}
  /\ Touched({r})
  /\ UNCHANGED <<locks, pc, todo, faults>>

(* Time passes the threshold by; the worker dies, or leaves the row.       *)
TurnsStale(r) ==
  /\ status[r] = "in_progress"
  /\ stale' = stale \cup {r}
  /\ UNCHANGED <<status, attempts, alive, ends, locks, pass, faults>>

WorkerLeaves(r) ==
  /\ r \in alive
  /\ alive' = alive \ {r}
  /\ IF owner[r] = Worker THEN Unlock({r}) ELSE UNCHANGED locks
  /\ UNCHANGED <<status, attempts, stale, ends, pass, faults>>

(* The holder of a claim ends it: the row is written, and the quote with   *)
(* it, and both are committed.                                             *)
WorkerWrites(r, s) ==
  /\ r \in alive /\ owner[r] = Nobody /\ status[r] = "in_progress"
  /\ owner' = [owner EXCEPT ![r] = Worker] /\ new' = [new EXCEPT ![r] = s]
  /\ UNCHANGED <<rows, pass>>

CompleteTask(r) == WorkerWrites(r, "done") /\ UNCHANGED faults
FailTask(r) == WorkerWrites(r, "failed") /\ UNCHANGED faults

(* At a shutdown, and whatever the attempts.                               *)
ReleaseTask(r) ==
  /\ faults < MaxFaults
  /\ WorkerWrites(r, "pending")
  /\ faults' = faults + 1

WorkerCommits(r) ==
  /\ owner[r] = Worker
  /\ CommitRows({r}) /\ Touched({r})
  /\ alive' = alive \ {r}
  /\ UNCHANGED <<attempts, pc, todo, faults>>
-----------------------------------------------------------------------------
(***************************************************************************)
(* A pass.                                                                 *)
(***************************************************************************)
(* The WHERE of either statement, on the row as committed.                 *)
Releases_AtLimit(r) == attempts[r] <= MaxAttempts
Releases(r) == attempts[r] < MaxAttempts
Abandons_Over(r) == attempts[r] > MaxAttempts
Abandons(r) == attempts[r] >= MaxAttempts
Matches(p, r) ==
  /\ status[r] = "in_progress" /\ r \in before[p]
  /\ IF pc'[p] = "releasing" THEN Releases(r) ELSE Abandons(r)

Begin(p) ==
  /\ pc[p] = "idle"
  /\ pc' = [pc EXCEPT ![p] = "releasing"]
  /\ before' = [before EXCEPT ![p] = stale]
  /\ todo' = [todo EXCEPT ![p] =
       {r \in stale : status[r] = "in_progress" /\ Releases(r)}]
  /\ UNCHANGED <<rows, locks, faults>>

(* The row is looked at again under its lock.                              *)
Visit_Trusting(p, r) ==
  /\ r \in todo[p] /\ owner[r] = Nobody
  /\ todo' = [todo EXCEPT ![p] = @ \ {r}]
  /\ owner' = [owner EXCEPT ![r] = p]
  /\ new' = [new EXCEPT ![r] = IF pc[p] = "releasing" THEN "pending" ELSE "failed"]
  /\ UNCHANGED <<rows, pc, before, faults>>
Visit(p, r) ==
  /\ r \in todo[p] /\ owner[r] = Nobody
  /\ todo' = [todo EXCEPT ![p] = @ \ {r}]
  /\ UNCHANGED pc
  /\ IF Matches(p, r)
     THEN /\ owner' = [owner EXCEPT ![r] = p]
          /\ new' = [new EXCEPT ![r] =
                       IF pc[p] = "releasing" THEN "pending" ELSE "failed"]
     ELSE UNCHANGED locks
  /\ UNCHANGED <<rows, before, faults>>

(* The second statement sees what is committed by now, and what the first  *)
(* has written.                                                            *)
SecondStatement(p) ==
  /\ pc[p] = "releasing" /\ todo[p] = {}
  /\ pc' = [pc EXCEPT ![p] = "abandoning"]
  /\ todo' = [todo EXCEPT ![p] = {r \in Rows : Matches(p, r) /\ owner[r] # p}]
  /\ UNCHANGED <<rows, locks, before, faults>>

Finished(p) ==
  /\ pc[p] = "abandoning" /\ todo[p] = {}
  /\ pc' = [pc EXCEPT ![p] = "committing"]
  /\ UNCHANGED <<rows, locks, before, todo, faults>>

Commit(p) ==
  /\ pc[p] = "committing"
  /\ CommitRows(Owned(p)) /\ Touched(Owned(p))
  /\ pc' = [pc EXCEPT ![p] = "idle"]
  /\ UNCHANGED <<attempts, alive, todo, faults>>

Rollback(p) ==
  /\ Unlock(Owned(p))
  /\ pc' = [pc EXCEPT ![p] = "idle"] /\ todo' = [todo EXCEPT ![p] = {}]
  /\ UNCHANGED <<rows, before>>

(* Any error, the shutdown, or the death of the process.                   *)
Fails(p) ==
  /\ pc[p] # "idle" /\ faults < MaxFaults
  /\ Rollback(p)
  /\ faults' = faults + 1

(* A pass waits when every row its statement still has to visit is taken:  *)
(* to wait with a free one left is to visit it first.                      *)
WaitsFor(p, q) ==
  /\ todo[p] # {} /\ \A r \in todo[p] : owner[r] # Nobody
  /\ \E r \in todo[p] : owner[r] = q

DeadlockVictim(p) ==
  /\ \E q \in Passes \ {p} : WaitsFor(p, q) /\ WaitsFor(q, p)
  /\ Rollback(p)
  /\ UNCHANGED faults
-----------------------------------------------------------------------------
Step(p) ==
  \/ Begin(p) \/ SecondStatement(p) \/ Finished(p) \/ Commit(p)
  \/ \E r \in Rows : Visit(p, r)

Next ==
  \/ \E r \in Rows :
       \/ ClaimTask(r) \/ TurnsStale(r) \/ WorkerLeaves(r)
       \/ CompleteTask(r) \/ FailTask(r) \/ ReleaseTask(r) \/ WorkerCommits(r)
  \/ \E p \in Passes : Step(p) \/ Fails(p) \/ DeadlockVictim(p)

Spec == Init /\ [][Next]_vars

(* Every process keeps running passes; the database hands a lock that is   *)
(* let go to whoever waits for it, and ends a deadlock.                    *)
Fairness ==
  /\ \A p \in Passes : WF_vars(Step(p)) /\ \A r \in Rows : SF_vars(Visit(p, r))
  /\ WF_vars(\E p \in Passes : DeadlockVictim(p))
  /\ \A r \in Rows : WF_vars(WorkerLeaves(r))
  /\ \A r \in Rows : WF_vars(TurnsStale(r))

FairSpec == Spec /\ Fairness
-----------------------------------------------------------------------------
(***************************************************************************)
(* Properties.                                                             *)
(***************************************************************************)
(* A claim is ended once: by its worker, or by one pass of one process,    *)
(* however they met on the row.                                            *)
EndedOnce ==
  \A r \in Rows : ends[r] = IF status[r] = "in_progress" THEN 0 ELSE 1

(* "One transaction for both statements, so they partition the table at    *)
(* the same instant": to whoever reads the rows a pass is one step, which  *)
(* finds them in progress and stale at that very instant and sends each    *)
(* where its attempts say, whatever other passes and late workers did      *)
(* between its statements.                                                 *)
Atomic == INSTANCE AtomicPasses

PassesAreAtomic == Atomic!Spec

(* Deadlocks and failed passes notwithstanding, a claim comes to an end.   *)
ClaimsEnd ==
  \A r \in Rows : status[r] = "in_progress" ~> status[r] # "in_progress"

(* The inductive invariant.  What somebody has written and not committed   *)
(* was written to a claim that stands: it stood when its lock was taken,   *)
(* and the lock has kept everybody else from the row since.  A pass has    *)
(* its row from a cutoff that still covers it, and has put down for it     *)
(* what the attempts say, by whichever of the two statements.              *)
StalenessStands ==
  /\ \A p \in Passes : before[p] \subseteq stale
  /\ \A r \in stale : status[r] = "in_progress"

Outcome(r) == IF attempts[r] < MaxAttempts THEN "pending" ELSE "failed"

LocksProtect ==
  \A r \in Rows : owner[r] # Nobody =>
    /\ status[r] = "in_progress"
    /\ IF owner[r] = Worker THEN r \in alive
       ELSE r \in before[owner[r]] /\ new[r] = Outcome(r)

IInv == TypeOK /\ EndedOnce /\ StalenessStands /\ LocksProtect
=============================================================================
