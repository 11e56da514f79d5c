------------------------ MODULE RecoveryPassesProofs ------------------------
(***************************************************************************)
(* Theorems about RecoveryPasses, for any number of passes and rows and    *)
(* any limits: the passes are safe to run in every process at once.        *)
(***************************************************************************)
EXTENDS RecoveryPasses, TLAPS

(* An empty queue keeps the invariant.                                     *)
LEMMA InitIInv == Init => IInv
BY PassesAssumption
DEF Init, IInv, TypeOK, EndedOnce, StalenessStands, LocksProtect

(* A row nobody has written is claimed: no lock, and no cutoff, is on it.  *)
LEMMA ClaimIInv ==
  ASSUME IInv, NEW r \in Rows, ClaimTask(r)
  PROVE  IInv'
<1> USE PassesAssumption DEF IInv, ClaimTask, Touched, locks
<1>1. TypeOK' BY DEF TypeOK
<1>2. EndedOnce' BY DEF TypeOK, EndedOnce
<1>3. StalenessStands' BY DEF TypeOK, StalenessStands
<1>4. LocksProtect' BY DEF TypeOK, LocksProtect, Outcome
<1> QED BY <1>1, <1>2, <1>3, <1>4

(* Time, and a worker that goes: nothing is written.                       *)
LEMMA TurnsStaleIInv ==
  ASSUME IInv, NEW r \in Rows, TurnsStale(r)
  PROVE  IInv'
<1> USE DEF IInv, TurnsStale, locks, pass
<1>1. TypeOK' BY DEF TypeOK
<1>2. EndedOnce' BY DEF EndedOnce
<1>3. StalenessStands' BY DEF TypeOK, StalenessStands
<1>4. LocksProtect' BY DEF LocksProtect, Outcome
<1> QED BY <1>1, <1>2, <1>3, <1>4

LEMMA WorkerLeavesIInv ==
  ASSUME IInv, NEW r \in Rows, WorkerLeaves(r)
  PROVE  IInv'
<1> USE PassesAssumption DEF IInv, WorkerLeaves, Unlock, locks, pass
<1>1. TypeOK' BY DEF TypeOK
<1>2. EndedOnce' BY DEF EndedOnce
<1>3. StalenessStands' BY DEF StalenessStands
<1>4. LocksProtect' BY DEF TypeOK, LocksProtect, Outcome
<1> QED BY <1>1, <1>2, <1>3, <1>4

LEMMA FinaliseIInv ==
  ASSUME IInv, NEW r \in Rows, CompleteTask(r) \/ FailTask(r) \/ ReleaseTask(r)
  PROVE  IInv'
<1> USE PassesAssumption DEF IInv, CompleteTask, FailTask, ReleaseTask, WorkerWrites,
        rows, pass
<1>1. TypeOK' BY DEF TypeOK
<1>2. EndedOnce' BY DEF EndedOnce
<1>3. StalenessStands' BY DEF StalenessStands
<1>4. LocksProtect' BY DEF TypeOK, LocksProtect, Outcome
<1> QED BY <1>1, <1>2, <1>3, <1>4

(* A commit: what it wrote ends the claims it locked, and no other.        *)
LEMMA CommitRowsIInv ==
  ASSUME IInv, NEW S \in SUBSET Rows, CommitRows(S), Touched(S),
         \A r \in S : owner[r] # Nobody,
         UNCHANGED <<attempts, todo, faults>>,
         alive' \in SUBSET Rows, alive \ S \subseteq alive',
         pc' \in [Passes -> {"idle", "releasing", "abandoning", "committing"}],
         \A p \in Passes : pc'[p] = pc[p] \/ (pc'[p] = "idle" /\ todo[p] = {}),
         \A r \in Rows \ S : owner[r] \in Passes => pc'[owner[r]] # "idle"
  PROVE  IInv'
<1> USE PassesAssumption DEF IInv, CommitRows, Touched
<1>1. \A r \in S : status[r] = "in_progress" /\ new[r] \in {"pending", "done", "failed"}
  BY DEF TypeOK, LocksProtect
<1>2. TypeOK'
  <2>1. ends' \in [Rows -> Nat] /\ status' \in [Rows -> {"pending", "in_progress", "done", "failed"}]
    BY <1>1 DEF TypeOK
  <2>2. /\ owner' \in [Rows -> Passes \cup {Worker, Nobody}]
        /\ new' \in [Rows -> {"none", "pending", "done", "failed"}]
        /\ \A r \in Rows : new'[r] = "none" <=> owner'[r] = Nobody
    BY DEF TypeOK
  <2>3. before' \in [Passes -> SUBSET Rows] /\ stale' \subseteq Rows
    BY DEF TypeOK
  <2>4. \A p \in Passes : pc'[p] \in {"idle", "committing"} => todo'[p] = {}
    BY DEF TypeOK
  <2>5. \A r \in Rows : owner'[r] \in Passes => pc'[owner'[r]] # "idle"
    BY DEF TypeOK
  <2> QED
    BY <2>1, <2>2, <2>3, <2>4, <2>5 DEF TypeOK
<1>3. EndedOnce'
  BY <1>1 DEF TypeOK, EndedOnce
<1>4. StalenessStands'
  BY DEF TypeOK, StalenessStands
<1>5. LocksProtect'
  BY DEF TypeOK, LocksProtect, Outcome
<1> QED BY <1>2, <1>3, <1>4, <1>5

LEMMA WorkerCommitsIInv ==
  ASSUME IInv, NEW r \in Rows, WorkerCommits(r)
  PROVE  IInv'
<1>1. {r} \in SUBSET Rows /\ \A q \in {r} : owner[q] # Nobody
  BY PassesAssumption DEF WorkerCommits
<1>2. alive' \in SUBSET Rows /\ alive \ {r} \subseteq alive'
  BY DEF WorkerCommits, IInv, TypeOK
<1>3. \A q \in Rows \ {r} : owner[q] \in Passes => pc'[owner[q]] # "idle"
  BY DEF WorkerCommits, IInv, TypeOK
<1> QED
  BY <1>1, <1>2, <1>3, CommitRowsIInv DEF WorkerCommits, IInv, TypeOK

LEMMA CommitIInv ==
  ASSUME IInv, NEW p \in Passes, Commit(p)
  PROVE  IInv'
<1>1. Owned(p) \in SUBSET Rows /\ \A r \in Owned(p) : owner[r] # Nobody
  BY PassesAssumption DEF Owned
<1>2. \A r \in Rows \ Owned(p) : owner[r] \in Passes => pc'[owner[r]] # "idle"
  BY DEF Commit, Owned, IInv, TypeOK
<1>3. \A q \in Passes : pc'[q] = pc[q] \/ (pc'[q] = "idle" /\ todo[q] = {})
  BY DEF Commit, IInv, TypeOK
<1> QED
  BY <1>1, <1>2, <1>3, CommitRowsIInv DEF Commit, IInv, TypeOK
-----------------------------------------------------------------------------
LEMMA BeginIInv ==
  ASSUME IInv, NEW p \in Passes, Begin(p)
  PROVE  IInv'
<1> USE DEF IInv, Begin, rows, locks
<1>1. TypeOK' BY DEF TypeOK
<1>2. EndedOnce' BY DEF EndedOnce
<1>3. StalenessStands' BY DEF TypeOK, StalenessStands
<1>4. LocksProtect' BY DEF TypeOK, LocksProtect, Outcome
<1> QED BY <1>1, <1>2, <1>3, <1>4

(* The row is looked at under its lock, and what is put down for it is     *)
(* what its attempts say, by either statement.                             *)
LEMMA VisitIInv ==
  ASSUME IInv, NEW p \in Passes, NEW r \in Rows, Visit(p, r)
  PROVE  IInv'
<1> USE PassesAssumption DEF IInv, Visit, Matches, rows, locks
<1>1. pc[p] \in {"releasing", "abandoning"} BY DEF TypeOK
<1>2. TypeOK' BY <1>1 DEF TypeOK
<1>3. EndedOnce' BY DEF EndedOnce
<1>4. StalenessStands' BY DEF StalenessStands
<1>5. LocksProtect'
  <2>1. CASE Matches(p, r)
    <3>1. attempts[r] < MaxAttempts <=> pc[p] = "releasing"
      BY <2>1 DEF TypeOK, Releases, Abandons
    <3> QED
      BY <2>1, <3>1 DEF TypeOK, LocksProtect, Outcome
  <2>2. CASE ~Matches(p, r)
    BY <2>2 DEF LocksProtect, Outcome
  <2> QED
    BY <2>1, <2>2
<1> QED BY <1>2, <1>3, <1>4, <1>5

LEMMA StatementIInv ==
  ASSUME IInv, NEW p \in Passes, SecondStatement(p) \/ Finished(p)
  PROVE  IInv'
<1> USE DEF IInv, SecondStatement, Finished, rows, locks
<1>1. TypeOK' BY DEF TypeOK
<1>2. EndedOnce' BY DEF EndedOnce
<1>3. StalenessStands' BY DEF StalenessStands
<1>4. LocksProtect' BY DEF LocksProtect, Outcome
<1> QED BY <1>1, <1>2, <1>3, <1>4

(* A pass that ends without a commit has written nothing.                  *)
LEMMA RollbackIInv ==
  ASSUME IInv, NEW p \in Passes, Rollback(p), faults' \in 0..MaxFaults
  PROVE  IInv'
<1> USE PassesAssumption DEF IInv, Rollback, Unlock, Owned, rows
<1>1. TypeOK' BY DEF TypeOK
<1>2. EndedOnce' BY DEF EndedOnce
<1>3. StalenessStands' BY DEF StalenessStands
<1>4. LocksProtect' BY DEF TypeOK, LocksProtect, Outcome
<1> QED BY <1>1, <1>2, <1>3, <1>4
-----------------------------------------------------------------------------
LEMMA NextIInv == IInv /\ [Next]_vars => IInv'
<1> SUFFICES ASSUME IInv, [Next]_vars PROVE IInv'
  OBVIOUS
<1>1. ASSUME NEW r \in Rows,
             \/ ClaimTask(r) \/ TurnsStale(r) \/ WorkerLeaves(r)
             \/ CompleteTask(r) \/ FailTask(r) \/ ReleaseTask(r) \/ WorkerCommits(r)
      PROVE  IInv'
  BY <1>1, ClaimIInv, TurnsStaleIInv, WorkerLeavesIInv, FinaliseIInv,
     WorkerCommitsIInv
<1>2. ASSUME NEW p \in Passes, Step(p)
      PROVE  IInv'
  BY <1>2, BeginIInv, StatementIInv, CommitIInv, VisitIInv DEF Step
<1>3. ASSUME NEW p \in Passes, Fails(p) \/ DeadlockVictim(p)
      PROVE  IInv'
  <2>1. Rollback(p) /\ faults' \in 0..MaxFaults
    BY <1>3, PassesAssumption DEF Fails, DeadlockVictim, IInv, TypeOK
  <2> QED
    BY <2>1, RollbackIInv
<1>4. CASE UNCHANGED vars
  BY <1>4 DEF vars, rows, locks, pass, IInv, TypeOK, EndedOnce, StalenessStands,
              LocksProtect, Outcome
<1> QED
  BY <1>1, <1>2, <1>3, <1>4 DEF Next

(* What is written and not committed belongs to a claim that stands.       *)
THEOREM Invariance == Spec => []IInv
BY InitIInv, NextIInv, PTL DEF Spec

(* Types; a pass at rest owns nothing and has nothing to do.               *)
THEOREM Typing == Spec => []TypeOK
BY Invariance, PTL DEF IInv

(* Two passes, or a pass and a late worker, never both end one claim.      *)
THEOREM ClaimsEndedOnce == Spec => []EndedOnce
BY Invariance, PTL DEF IInv
-----------------------------------------------------------------------------
(***************************************************************************)
(* Every commit is one step of AtomicPasses; no other step of a pass or a  *)
(* worker can be seen.                                                     *)
(***************************************************************************)
LEMMA CommitIsPass ==
  ASSUME IInv, NEW p \in Passes, Commit(p)
  PROVE  Atomic!Pass(Owned(p))
<1> USE PassesAssumption DEF IInv, TypeOK, Owned
<1>1. \A r \in Owned(p) :
        status[r] = "in_progress" /\ r \in stale /\ new[r] = Outcome(r)
  BY DEF LocksProtect, StalenessStands
<1>2. status' = [r \in Rows |-> IF r \in Owned(p) THEN Outcome(r) ELSE status[r]]
  BY <1>1 DEF Commit, CommitRows
<1>3. stale' = stale \ Owned(p) /\ UNCHANGED attempts
  BY DEF Commit, Touched
<1> QED
  BY <1>1, <1>2, <1>3 DEF Atomic!Pass, Outcome

LEMMA CommitIsFinalise ==
  ASSUME IInv, NEW r \in Rows, WorkerCommits(r)
  PROVE  Atomic!Finalise(r)
<1> USE PassesAssumption DEF IInv, TypeOK
<1>1. status[r] = "in_progress" /\ new[r] \in {"done", "failed", "pending"}
  BY DEF WorkerCommits, LocksProtect
<1>2. status' = [status EXCEPT ![r] = new[r]]
  BY DEF WorkerCommits, CommitRows
<1> QED
  BY <1>1, <1>2 DEF WorkerCommits, Touched, Atomic!Finalise

LEMMA StepRefines == IInv /\ [Next]_vars => [Atomic!Next]_(Atomic!vars)
<1> SUFFICES ASSUME IInv, [Next]_vars PROVE [Atomic!Next]_(Atomic!vars)
  OBVIOUS
<1> USE DEF Atomic!vars
<1>1. ASSUME NEW r \in Rows, ClaimTask(r)
      PROVE  Atomic!Claim(r)
  <2>1. r \notin stale
    BY <1>1 DEF ClaimTask, IInv, StalenessStands
  <2> QED
    BY <1>1, <2>1 DEF ClaimTask, Touched, Atomic!Claim, IInv, TypeOK
<1>2. ASSUME NEW r \in Rows, TurnsStale(r)
      PROVE  Atomic!GrowStale({r}) /\ {r} \in SUBSET Rows
  BY <1>2 DEF TurnsStale, Atomic!GrowStale
<1>3. ASSUME NEW r \in Rows,
             WorkerLeaves(r) \/ CompleteTask(r) \/ FailTask(r) \/ ReleaseTask(r)
      PROVE  UNCHANGED Atomic!vars
  BY <1>3 DEF WorkerLeaves, CompleteTask, FailTask, ReleaseTask, WorkerWrites, rows
<1>4. ASSUME NEW r \in Rows, WorkerCommits(r)
      PROVE  Atomic!Finalise(r)
  BY <1>4, CommitIsFinalise
<1>5. ASSUME NEW p \in Passes, Commit(p)
      PROVE  Atomic!Pass(Owned(p)) /\ Owned(p) \in SUBSET Rows
  BY <1>5, CommitIsPass DEF Owned
<1>6. ASSUME NEW p \in Passes,
             \/ Begin(p) \/ SecondStatement(p) \/ Finished(p)
             \/ \E r \in Rows : Visit(p, r)
             \/ Fails(p) \/ DeadlockVictim(p)
      PROVE  UNCHANGED Atomic!vars
  BY <1>6 DEF Begin, SecondStatement, Finished, Visit, Fails, DeadlockVictim,
              Rollback, rows
<1>7. CASE UNCHANGED vars
  BY <1>7 DEF vars, rows
<1> QED
  BY <1>1, <1>2, <1>3, <1>4, <1>5, <1>6, <1>7 DEF Next, Step, Atomic!Next

(* ReleaseStuckTasks may be thought of as one step, as UpdateQueue does.   *)
THEOREM Implementation == Spec => PassesAreAtomic
<1>1. Init => Atomic!Init
  BY DEF Init, Atomic!Init
<1> QED
  BY <1>1, StepRefines, Invariance, PTL DEF Spec, PassesAreAtomic, Atomic!Spec
=============================================================================
