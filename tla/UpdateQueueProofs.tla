------------------------- MODULE UpdateQueueProofs -------------------------
(***************************************************************************)
(* Theorems about UpdateQueue, for any sets of tasks, pairs and workers    *)
(* and any limits.                                                         *)
(***************************************************************************)
EXTENDS UpdateQueue, TLAPS

(* A worker that is done with its claim, or about to hand it back, is well *)
(* typed.                                                                  *)
LEMMA ToIdleTypes ==
  ASSUME WorkerTypeOK, NEW w \in Workers, ToIdle(w)
  PROVE  WorkerTypeOK'
BY QueueAssumption DEF WorkerTypeOK, ToIdle, Holding, NoClaim, Rates, FetchErrors

LEMMA GiveUpTypes ==
  ASSUME WorkerTypeOK, NEW w \in Workers, Holding(w), GiveUp(w)
  PROVE  WorkerTypeOK'
<1>1. CASE ToIdle(w)
  BY <1>1, ToIdleTypes
<1>2. CASE /\ pc' = [pc EXCEPT ![w] = "releasing"]
           /\ UNCHANGED <<claim, ctx, answer, fetchedAt, clock>>
  BY <1>2 DEF WorkerTypeOK, Holding, Rates, FetchErrors
<1> QED
  BY <1>1, <1>2 DEF GiveUp

LEMMA WorkerUnchanged ==
  ASSUME WorkerTypeOK, UNCHANGED workerVars
  PROVE  WorkerTypeOK'
BY DEF WorkerTypeOK, workerVars, Holding, NoClaim

LEMMA RowUnchanged ==
  ASSUME RowTypeOK, UNCHANGED <<rowVars, locked, releases>>
  PROVE  RowTypeOK'
BY DEF RowTypeOK, rowVars

LEMMA CloseRowTypes ==
  ASSUME TypeOK, NEW w \in Workers, Holding(w),
         NEW s \in Statuses, NEW e \in Reasons \cup {"none"}, NEW q \in Nat,
         CloseRow(w, s, e, q),
         releases' \in [Tasks -> Nat]
  PROVE  RowTypeOK'
<1>1. claim[w].id \in Tasks
  BY DEF TypeOK, WorkerTypeOK
<1>2. 0 \in 0..StuckTimeout + 1
  BY QueueAssumption
<1> QED
  BY <1>1, <1>2 DEF TypeOK, RowTypeOK, CloseRow

LEMMA TypeInit == Init => TypeOK
<1> SUFFICES ASSUME Init PROVE TypeOK
  OBVIOUS
<1>1. RowTypeOK
  BY QueueAssumption DEF Init, RowTypeOK
<1>2. WorkerTypeOK
  BY DEF Init, WorkerTypeOK, Holding, NoClaim
<1> QED
  BY <1>1, <1>2 DEF TypeOK

LEMMA PostTypes ==
  ASSUME TypeOK, NEW p \in Pairs, Post(p)
  PROVE  TypeOK'
<1>1. RowTypeOK'
  BY DEF TypeOK, RowTypeOK, Post, Statuses
<1>2. WorkerTypeOK'
  BY WorkerUnchanged DEF TypeOK, Post
<1> QED
  BY <1>1, <1>2 DEF TypeOK

LEMMA DeduplicatePostTypes ==
  ASSUME TypeOK, NEW t \in Tasks, DeduplicatePost(t) \/ EndPost(t)
  PROVE  TypeOK'
<1>1. RowTypeOK'
  BY DEF TypeOK, RowTypeOK, DeduplicatePost, EndPost, AgeAfterConflict, rowVars
<1>2. WorkerTypeOK'
  BY WorkerUnchanged DEF TypeOK, DeduplicatePost, EndPost
<1> QED
  BY <1>1, <1>2 DEF TypeOK

LEMMA MarkClaimedTypes ==
  ASSUME TypeOK, NEW t \in Tasks, MarkClaimed(t)
  PROVE  RowTypeOK'
<1>1. 0 \in 0..StuckTimeout + 1
  BY QueueAssumption
<1> QED
  BY <1>1 DEF TypeOK, RowTypeOK, MarkClaimed, ClaimToken, Statuses

LEMMA ClaimTypes ==
  ASSUME TypeOK, NEW w \in Workers, ClaimTask(w) \/ ClaimReplyLost(w)
  PROVE  TypeOK'
<1>1. RowTypeOK'
  BY MarkClaimedTypes DEF ClaimTask, ClaimReplyLost
<1>2. CASE ClaimTask(w)
  <2>1. PICK t \in Tasks :
          /\ MarkClaimed(t)
          /\ claim' = [claim EXCEPT ![w] = [id |-> t, attempts |-> ClaimToken(t)]]
    BY <1>2 DEF ClaimTask
  <2>2. ClaimToken(t) \in Nat
    BY DEF TypeOK, RowTypeOK, ClaimToken
  <2>3. WorkerTypeOK'
    BY <1>2, <2>1, <2>2 DEF TypeOK, WorkerTypeOK, ClaimTask, Holding, NoClaim, Rates, FetchErrors
  <2> QED
    BY <1>1, <2>3 DEF TypeOK
<1>3. CASE ClaimReplyLost(w)
  BY <1>1, <1>3, WorkerUnchanged DEF TypeOK, ClaimReplyLost
<1> QED
  BY <1>2, <1>3

LEMMA FetchTypes ==
  ASSUME TypeOK, NEW w \in Workers, FetchReturns(w)
  PROVE  TypeOK'
<1>1. RowTypeOK'
  BY RowUnchanged DEF TypeOK, FetchReturns
<1>2. ASSUME NEW r \in Rates,
             /\ answer' = [answer EXCEPT ![w] = r]
             /\ fetchedAt' = [fetchedAt EXCEPT ![w] = clock + 1]
             /\ clock' = clock + 1
             /\ pc' = [pc EXCEPT ![w] = "completing"]
      PROVE  WorkerTypeOK'
  BY <1>2 DEF TypeOK, WorkerTypeOK, FetchReturns, Holding, NoClaim
<1>3. ASSUME NEW e \in FetchErrors,
             /\ answer' = [answer EXCEPT ![w] = e]
             /\ pc' = [pc EXCEPT ![w] = "failing"]
             /\ UNCHANGED <<fetchedAt, clock>>
      PROVE  WorkerTypeOK'
  BY <1>3 DEF TypeOK, WorkerTypeOK, FetchReturns, Holding, NoClaim
<1> QED
  BY <1>1, <1>2, <1>3 DEF TypeOK, FetchReturns

LEMMA InterruptTypes ==
  ASSUME TypeOK, NEW w \in Workers,
         FetchInterrupted(w) \/ DeadlineFires(w) \/ Cancel(w) \/ Crash(w)
  PROVE  TypeOK'
<1>1. RowTypeOK'
  BY RowUnchanged DEF TypeOK, FetchInterrupted, DeadlineFires, Cancel, Crash
<1>2. WorkerTypeOK'
  <2>1. CASE FetchInterrupted(w)
    BY <2>1, GiveUpTypes DEF TypeOK, FetchInterrupted, Holding
  <2>2. CASE DeadlineFires(w) \/ Cancel(w)
    BY <2>2 DEF TypeOK, WorkerTypeOK, DeadlineFires, Cancel, Holding, NoClaim
  <2>3. CASE Crash(w)
    BY <2>3, ToIdleTypes DEF TypeOK, Crash
  <2> QED
    BY <2>1, <2>2, <2>3
<1> QED
  BY <1>1, <1>2 DEF TypeOK

LEMMA FinaliseTypes ==
  ASSUME TypeOK, NEW w \in Workers,
         CompleteTask(w) \/ FailTask(w) \/ ReleaseTask(w)
  PROVE  TypeOK'
<1>1. Holding(w) /\ claim[w].id \in Tasks
  BY DEF TypeOK, WorkerTypeOK, CompleteTask, FailTask, ReleaseTask, Holding
<1>2. WorkerTypeOK'
  BY <1>1, ToIdleTypes, GiveUpTypes
  DEF TypeOK, CompleteTask, FailTask, ReleaseTask, ClaimLost, FinaliseFails
<1>3. CASE UNCHANGED <<rowVars, locked, releases>>
  BY <1>2, <1>3, RowUnchanged DEF TypeOK
<1>4. CASE CompleteTask(w) /\ Commits(w) /\ UNCHANGED releases
  <2>1. RowTypeOK'
    BY <1>1, <1>4, CloseRowTypes DEF TypeOK, RowTypeOK, WorkerTypeOK, Commits, Statuses
  <2> QED
    BY <1>2, <2>1 DEF TypeOK
<1>5. CASE /\ FailTask(w) /\ UNCHANGED releases
           /\ CloseRow(w, "failed", answer[w], quote[claim[w].id])
  <2>1. answer[w] \in Reasons \cup {"none"} /\ quote[claim[w].id] \in Nat
    BY <1>1, <1>5 DEF TypeOK, RowTypeOK, WorkerTypeOK, FailTask, FetchErrors, Reasons
  <2>2. RowTypeOK'
    BY <1>1, <1>5, <2>1, CloseRowTypes DEF TypeOK, RowTypeOK, Statuses
  <2> QED
    BY <1>2, <2>2 DEF TypeOK
<1>6. CASE LET t == claim[w].id IN
             /\ CloseRow(w, "pending", error[t], quote[t])
             /\ releases' = [releases EXCEPT ![t] = @ + 1]
  <2>1. /\ error[claim[w].id] \in Reasons \cup {"none"}
        /\ quote[claim[w].id] \in Nat
        /\ releases' \in [Tasks -> Nat]
    BY <1>1, <1>6 DEF TypeOK, RowTypeOK
  <2>2. RowTypeOK'
    BY <1>1, <1>6, <2>1, CloseRowTypes DEF Statuses
  <2> QED
    BY <1>2, <2>2 DEF TypeOK
<1> QED
  BY <1>3, <1>4, <1>5, <1>6 DEF CompleteTask, FailTask, ReleaseTask, ClaimLost, FinaliseFails

LEMMA RecoveryTypes ==
  ASSUME TypeOK, NEW S \in SUBSET Stale, RecoveryPass(S)
  PROVE  TypeOK'
<1>1. 0 \in 0..StuckTimeout + 1
  BY QueueAssumption
<1>2. RowTypeOK'
  BY <1>1 DEF TypeOK, RowTypeOK, RecoveryPass, Statuses, Reasons
<1>3. WorkerTypeOK'
  BY WorkerUnchanged DEF TypeOK, RecoveryPass
<1> QED
  BY <1>2, <1>3 DEF TypeOK

LEMMA TickTypes ==
  ASSUME TypeOK, Tick
  PROVE  TypeOK'
<1>1. \A t \in Aging : age[t] + 1 \in 0..StuckTimeout + 1
  BY QueueAssumption DEF TypeOK, RowTypeOK, Aging
<1>2. RowTypeOK'
  BY <1>1 DEF TypeOK, RowTypeOK, Tick
<1>3. WorkerTypeOK'
  BY WorkerUnchanged DEF TypeOK, Tick
<1> QED
  BY <1>2, <1>3 DEF TypeOK

LEMMA TypeStep == TypeOK /\ [Next]_vars => TypeOK'
<1> SUFFICES ASSUME TypeOK, [Next]_vars PROVE TypeOK'
  OBVIOUS
<1>1. CASE UNCHANGED vars
  BY <1>1, RowUnchanged, WorkerUnchanged DEF TypeOK, vars
<1>2. ASSUME NEW p \in Pairs, Post(p) PROVE TypeOK'
  BY <1>2, PostTypes
<1>3. ASSUME NEW t \in Tasks, DeduplicatePost(t) \/ EndPost(t) PROVE TypeOK'
  BY <1>3, DeduplicatePostTypes
<1>4. ASSUME NEW w \in Workers, WorkerStep(w) PROVE TypeOK'
  BY <1>4, ClaimTypes, FetchTypes, InterruptTypes, FinaliseTypes DEF WorkerStep
<1>5. ASSUME NEW S \in SUBSET Stale, RecoveryPass(S) PROVE TypeOK'
  BY <1>5, RecoveryTypes
<1>6. CASE Tick
  BY <1>6, TickTypes
<1> QED
  BY <1>1, <1>2, <1>3, <1>4, <1>5, <1>6 DEF Next

(* Whatever is posted, lost, cancelled or killed, rows and workers keep    *)
(* their types, and a worker carries a claim exactly while it processes.   *)
THEOREM Typing == Spec => []TypeOK
<1> QED
  BY TypeInit, TypeStep, PTL DEF Spec
-----------------------------------------------------------------------------
(***************************************************************************)
(* What rows say of themselves.  Steps differ in what they do to rows:     *)
(* nothing that these invariants mention, a new row, a claim, a            *)
(* finalisation, a recovery pass.                                          *)
(***************************************************************************)
RowInv ==
  /\ QuoteIffDone /\ ErrorIffFailed
  /\ OneUnfinishedPerPair
  /\ AttemptsBounded
  /\ \A t \in Tasks : status[t] = "absent" => attempts[t] = 0

LEMMA RowInvQuiet ==
  ASSUME RowInv, UNCHANGED <<status, pairOf, attempts, error, quote, releases>>
  PROVE  RowInv'
BY DEF RowInv, QuoteIffDone, ErrorIffFailed, OneUnfinishedPerPair, Unfinished, AttemptsBounded

LEMMA RowInvPost ==
  ASSUME TypeOK, RowInv, NEW p \in Pairs, Post(p)
  PROVE  RowInv'
<1> USE DEF TypeOK, RowTypeOK
<1>1. PICK t \in Tasks :
        /\ status[t] = "absent"
        /\ status' = [status EXCEPT ![t] = "pending"]
        /\ pairOf' = [pairOf EXCEPT ![t] = p]
  BY DEF Post
<1>2. UNCHANGED <<attempts, error, quote, releases>>
  BY DEF Post
<1>3. QuoteIffDone' /\ ErrorIffFailed'
  BY <1>1, <1>2 DEF RowInv, QuoteIffDone, ErrorIffFailed
<1>4. OneUnfinishedPerPair'
  BY <1>1 DEF RowInv, OneUnfinishedPerPair, Unfinished, Post, MatchesIndex
<1>5. AttemptsBounded'
  <2>1. attempts[t] = 0 /\ error[t] = "none"
    BY <1>1 DEF RowInv, ErrorIffFailed
  <2> QED
    BY <1>1, <1>2, <2>1, QueueAssumption DEF RowInv, AttemptsBounded
<1>6. \A u \in Tasks : status'[u] = "absent" => attempts'[u] = 0
  BY <1>1, <1>2 DEF RowInv
<1> QED
  BY <1>3, <1>4, <1>5, <1>6 DEF RowInv

LEMMA RowInvClaim ==
  ASSUME TypeOK, RowInv, NEW t \in Tasks, MarkClaimed(t)
  PROVE  RowInv'
<1> USE DEF TypeOK, RowTypeOK
<1>1. /\ status[t] = "pending"
      /\ status' = [status EXCEPT ![t] = "in_progress"]
      /\ attempts' = [attempts EXCEPT ![t] = attempts[t] + 1]
      /\ UNCHANGED <<pairOf, error, quote, releases>>
  BY DEF MarkClaimed, Claimable, ClaimToken
<1>2. QuoteIffDone' /\ ErrorIffFailed'
  BY <1>1 DEF RowInv, QuoteIffDone, ErrorIffFailed
<1>3. OneUnfinishedPerPair'
  BY <1>1 DEF RowInv, OneUnfinishedPerPair, Unfinished
<1>4. AttemptsBounded'
  <2>1. error[t] = "none"
    BY <1>1 DEF RowInv, ErrorIffFailed
  <2> QED
    BY <1>1, <2>1, QueueAssumption DEF RowInv, AttemptsBounded
<1>5. \A u \in Tasks : status'[u] = "absent" => attempts'[u] = 0
  BY <1>1 DEF RowInv
<1> QED
  BY <1>2, <1>3, <1>4, <1>5 DEF RowInv

(* A finalisation closes the row with a quote, closes it with a reason, or *)
(* puts it back in the queue and counts that.                              *)
LEMMA RowInvClose ==
  ASSUME TypeOK, RowInv, NEW w \in Workers, claim[w].id \in Tasks,
         NEW s \in {"pending", "done", "failed"}, NEW e, NEW q,
         CloseRow(w, s, e, q),
         q # 0 <=> s = "done",
         e # "none" <=> s = "failed",
         e # "abandoned",
         IF s = "pending"
           THEN releases' = [releases EXCEPT ![claim[w].id] = @ + 1]
           ELSE UNCHANGED releases
  PROVE  RowInv'
<1> USE DEF TypeOK, RowTypeOK
<1> DEFINE t == claim[w].id
<1>1. /\ status[t] = "in_progress"
      /\ status' = [status EXCEPT ![t] = s]
      /\ error' = [error EXCEPT ![t] = e]
      /\ quote' = [quote EXCEPT ![t] = q]
      /\ UNCHANGED <<pairOf, attempts>>
  BY DEF CloseRow, Owns
<1>2. QuoteIffDone' /\ ErrorIffFailed'
  BY <1>1 DEF RowInv, QuoteIffDone, ErrorIffFailed
<1>3. OneUnfinishedPerPair'
  BY <1>1 DEF RowInv, OneUnfinishedPerPair, Unfinished
<1>4. AttemptsBounded'
  <2>1. CASE s = "pending"
    BY <1>1, <2>1, QueueAssumption DEF RowInv, AttemptsBounded
  <2>2. CASE s # "pending"
    BY <1>1, <2>2, QueueAssumption DEF RowInv, AttemptsBounded
  <2> QED
    BY <2>1, <2>2
<1>5. \A u \in Tasks : status'[u] = "absent" => attempts'[u] = 0
  BY <1>1 DEF RowInv
<1> QED
  BY <1>2, <1>3, <1>4, <1>5 DEF RowInv

LEMMA RowInvRecovery ==
  ASSUME TypeOK, RowInv, NEW S \in SUBSET Stale, RecoveryPass(S)
  PROVE  RowInv'
<1> USE DEF TypeOK, RowTypeOK
<1>1. \A t \in S : t \in Tasks /\ status[t] = "in_progress"
  BY DEF Stale
<1>2. \A t \in Tasks :
        /\ t \notin S => status'[t] = status[t] /\ error'[t] = error[t]
        /\ t \in S /\ attempts[t] < MaxAttempts =>
             status'[t] = "pending" /\ error'[t] = error[t]
        /\ t \in S /\ ~(attempts[t] < MaxAttempts) =>
             status'[t] = "failed" /\ error'[t] = "abandoned"
  BY DEF RecoveryPass, UnderLimit
<1>3. UNCHANGED <<pairOf, attempts, quote, releases>>
  BY DEF RecoveryPass
<1>4. QuoteIffDone' /\ ErrorIffFailed'
  BY <1>1, <1>2, <1>3 DEF RowInv, QuoteIffDone, ErrorIffFailed
<1>5. OneUnfinishedPerPair'
  BY <1>1, <1>2, <1>3 DEF RowInv, OneUnfinishedPerPair, Unfinished
<1>6. AttemptsBounded'
  BY <1>1, <1>2, <1>3, QueueAssumption DEF RowInv, AttemptsBounded
<1>7. \A u \in Tasks : status'[u] = "absent" => attempts'[u] = 0
  BY <1>1, <1>2, <1>3 DEF RowInv
<1> QED
  BY <1>4, <1>5, <1>6, <1>7 DEF RowInv
-----------------------------------------------------------------------------
(***************************************************************************)
(* What workers know.  In most steps every worker either keeps its claim,  *)
(* perhaps on the way to handing it back, or drops it.                     *)
(***************************************************************************)
ClaimInv == ClaimsDistinct /\ ClaimsStand
StampInv == StampsPast /\ NewestRateWins

Keeps ==
  /\ clock' = clock
  /\ \A v \in Workers :
       \/ pc'[v] = "idle"
       \/ /\ Holding(v)
          /\ pc'[v] \in {pc[v], "releasing"}
          /\ claim'[v] = claim[v]
          /\ fetchedAt'[v] = fetchedAt[v]

LEMMA UnchangedKeeps ==
  ASSUME UNCHANGED workerVars
  PROVE  Keeps
BY DEF workerVars, Keeps, Holding

LEMMA ToIdleKeeps ==
  ASSUME TypeOK, NEW w \in Workers, ToIdle(w)
  PROVE  Keeps
BY DEF TypeOK, WorkerTypeOK, ToIdle, Keeps, Holding

LEMMA GiveUpKeeps ==
  ASSUME TypeOK, NEW w \in Workers, Holding(w), GiveUp(w)
  PROVE  Keeps
<1>1. CASE ToIdle(w)
  BY <1>1, ToIdleKeeps
<1>2. CASE /\ pc' = [pc EXCEPT ![w] = "releasing"]
           /\ UNCHANGED <<claim, ctx, answer, fetchedAt, clock>>
  BY <1>2 DEF TypeOK, WorkerTypeOK, Keeps, Holding
<1> QED
  BY <1>1, <1>2 DEF GiveUp

LEMMA InterruptKeeps ==
  ASSUME TypeOK, NEW w \in Workers,
         FetchInterrupted(w) \/ DeadlineFires(w) \/ Cancel(w) \/ Crash(w)
  PROVE  Keeps
<1>1. CASE FetchInterrupted(w)
  BY <1>1, GiveUpKeeps DEF FetchInterrupted, Holding
<1>2. CASE DeadlineFires(w) \/ Cancel(w)
  BY <1>2 DEF DeadlineFires, Cancel, Keeps, Holding
<1>3. CASE Crash(w)
  BY <1>3, ToIdleKeeps DEF Crash
<1> QED
  BY <1>1, <1>2, <1>3

LEMMA FinaliseKeeps ==
  ASSUME TypeOK, NEW w \in Workers,
         CompleteTask(w) \/ FailTask(w) \/ ReleaseTask(w)
  PROVE  Keeps
<1>1. Holding(w)
  BY DEF CompleteTask, FailTask, ReleaseTask, Holding
<1> QED
  BY <1>1, ToIdleKeeps, GiveUpKeeps
  DEF CompleteTask, FailTask, ReleaseTask, ClaimLost, FinaliseFails

LEMMA KeepsClaimInv ==
  ASSUME TypeOK, TypeOK', ClaimInv, Keeps,
         \A t \in Tasks : attempts'[t] >= attempts[t],
         \A t \in Tasks : status'[t] = "absent" => attempts'[t] = 0
  PROVE  ClaimInv'
<1>1. \A v \in Workers : Holding(v)' => Holding(v) /\ claim'[v] = claim[v]
  BY DEF Keeps, Holding
<1>2. ClaimsDistinct'
  BY <1>1 DEF ClaimInv, ClaimsDistinct
<1>3. ASSUME NEW v \in Workers, Holding(v)'
      PROVE  claim'[v].attempts \in 1..attempts'[claim'[v].id]
  <2>1. claim[v].id \in Tasks /\ claim[v].attempts \in 1..attempts[claim[v].id]
    BY <1>1, <1>3 DEF TypeOK, WorkerTypeOK, ClaimInv, ClaimsStand
  <2> QED
    BY <1>1, <1>3, <2>1 DEF TypeOK, RowTypeOK
<1> QED
  BY <1>2, <1>3 DEF ClaimInv, ClaimsStand

(* The new token exceeds every token given out for this row.               *)
LEMMA ClaimTaskClaimInv ==
  ASSUME TypeOK, TypeOK', ClaimInv, NEW w \in Workers, ClaimTask(w),
         \A t \in Tasks : status'[t] = "absent" => attempts'[t] = 0
  PROVE  ClaimInv'
<1>1. PICK t \in Tasks :
        /\ MarkClaimed(t)
        /\ claim' = [claim EXCEPT ![w] = [id |-> t, attempts |-> ClaimToken(t)]]
  BY DEF ClaimTask
<1>2. attempts' = [attempts EXCEPT ![t] = attempts[t] + 1]
  BY <1>1 DEF MarkClaimed, ClaimToken
<1>3. claim'[w] = [id |-> t, attempts |-> attempts[t] + 1]
  BY <1>1 DEF TypeOK, WorkerTypeOK, ClaimToken
<1>4. attempts \in [Tasks -> Nat]
  BY DEF TypeOK, RowTypeOK
<1>5. ASSUME NEW v \in Workers, v # w, Holding(v)'
      PROVE  /\ claim'[v] = claim[v] /\ Holding(v)
             /\ claim[v].id \in Tasks
             /\ claim[v].attempts \in 1..attempts[claim[v].id]
  <2>1. claim'[v] = claim[v] /\ Holding(v)
    BY <1>1, <1>5 DEF TypeOK, WorkerTypeOK, ClaimTask, Holding
  <2> QED
    BY <2>1 DEF TypeOK, WorkerTypeOK, ClaimInv, ClaimsStand
<1>6. ASSUME NEW v \in Workers, v # w, Holding(v)'
      PROVE  claim'[v] # claim'[w]
  <2>1. claim'[w].id = t /\ claim'[w].attempts = attempts[t] + 1
    BY <1>3
  <2>2. claim[v].attempts \in 1..attempts[claim[v].id] /\ claim'[v] = claim[v]
    BY <1>5, <1>6
  <2>3. attempts[t] \in Nat
    BY <1>4
  <2> QED
    BY <2>1, <2>2, <2>3
<1>7. ASSUME NEW u \in Workers, NEW v \in Workers,
             Holding(u)', Holding(v)', claim'[u] = claim'[v]
      PROVE  u = v
  <2>1. CASE u = w \/ v = w
    BY <1>6, <1>7, <2>1
  <2>2. CASE u # w /\ v # w
    BY <1>5, <1>7, <2>2 DEF ClaimInv, ClaimsDistinct
  <2> QED
    BY <2>1, <2>2
<1>8. ASSUME NEW v \in Workers, Holding(v)'
      PROVE  claim'[v].attempts \in 1..attempts'[claim'[v].id]
  <2>1. CASE v = w
    <3>1. claim'[v].id = t /\ claim'[v].attempts = attempts[t] + 1
      BY <1>3, <2>1
    <3>2. attempts'[t] = attempts[t] + 1 /\ attempts[t] \in Nat
      BY <1>2, <1>4
    <3> QED
      BY <3>1, <3>2
  <2>2. CASE v # w
    <3>1. /\ claim'[v] = claim[v] /\ claim[v].id \in Tasks
          /\ claim[v].attempts \in 1..attempts[claim[v].id]
      BY <1>5, <1>8, <2>2
    <3>2. /\ attempts'[claim[v].id] >= attempts[claim[v].id]
          /\ attempts[claim[v].id] \in Nat /\ attempts'[claim[v].id] \in Nat
      BY <1>2, <1>4, <3>1
    <3> QED
      BY <3>1, <3>2
  <2> QED
    BY <2>1, <2>2
<1> QED
  BY <1>7, <1>8 DEF ClaimInv, ClaimsDistinct, ClaimsStand

(* A worker that owns its task after a step which publishes nothing owned  *)
(* it before, for a row that left its claim comes back with another token. *)
LEMMA KeepsStampInv ==
  ASSUME TypeOK, TypeOK', ClaimInv, StampInv, Keeps, UNCHANGED quote,
         \A t \in Tasks :
           /\ attempts'[t] >= attempts[t]
           /\ status'[t] = "in_progress" /\ attempts'[t] = attempts[t] =>
                status[t] = "in_progress"
           /\ \/ pairOf'[t] = pairOf[t]
              \/ quote[t] = 0 /\ status'[t] # "in_progress"
  PROVE  StampInv'
<1>1. StampsPast'
  BY DEF StampInv, StampsPast, Keeps
<1>2. ASSUME NEW w \in Workers, pc'[w] = "completing", Owns(w)',
             NEW u \in Tasks, pairOf'[u] = pairOf'[claim'[w].id]
      PROVE  quote'[u] < fetchedAt'[w]
  <2> DEFINE t == claim[w].id
  <2>1. /\ pc[w] = "completing" /\ Holding(w)
        /\ claim'[w] = claim[w]
        /\ fetchedAt'[w] = fetchedAt[w]
    BY <1>2 DEF Keeps
  <2>2. t \in Tasks /\ claim[w].attempts \in 1..attempts[t]
    BY <2>1 DEF TypeOK, WorkerTypeOK, ClaimInv, ClaimsStand
  <2>3. status'[t] = "in_progress" /\ attempts'[t] = claim[w].attempts
    BY <1>2, <2>1 DEF Owns
  <2>4. attempts[t] \in Nat /\ attempts'[t] \in Nat
    BY <2>2 DEF TypeOK, RowTypeOK
  <2>5. attempts'[t] = attempts[t]
    BY <2>2, <2>3, <2>4
  <2>6. Owns(w) /\ pairOf'[t] = pairOf[t]
    BY <2>2, <2>3, <2>5 DEF Owns
  <2>7. fetchedAt[w] \in 1..clock
    BY <2>1 DEF StampInv, StampsPast
  <2>8. CASE pairOf'[u] = pairOf[u]
    BY <1>2, <2>1, <2>6, <2>8 DEF StampInv, NewestRateWins
  <2>9. CASE quote[u] = 0
    BY <2>1, <2>7, <2>9
  <2> QED
    BY <2>8, <2>9
<1> QED
  BY <1>1, <1>2 DEF StampInv, NewestRateWins

LEMMA FetchStampInv ==
  ASSUME TypeOK, TypeOK', StampInv, NEW w \in Workers, FetchReturns(w)
  PROVE  StampInv'
<1>1. UNCHANGED <<quote, pairOf, status, attempts, claim>>
  BY DEF FetchReturns, rowVars
<1>2. \A v \in Workers \ {w} : pc'[v] = pc[v] /\ fetchedAt'[v] = fetchedAt[v]
  BY DEF TypeOK, WorkerTypeOK, FetchReturns
<1>3. clock \in Nat /\ quote \in [Tasks -> Nat]
  BY DEF TypeOK, RowTypeOK, WorkerTypeOK
<1>4. CASE /\ fetchedAt' = [fetchedAt EXCEPT ![w] = clock + 1]
           /\ clock' = clock + 1
  <2>1. fetchedAt'[w] = clock + 1
    BY <1>4 DEF TypeOK, WorkerTypeOK
  <2>2. \A t \in Tasks : quote[t] < clock + 1
    BY <1>3 DEF StampInv, StampsPast
  <2>3. \A t \in Tasks : quote'[t] <= clock'
    BY <1>1, <1>3, <1>4, <2>2
  <2>4. \A v \in Workers : pc'[v] = "completing" => fetchedAt'[v] \in 1..clock'
    BY <1>2, <1>3, <1>4, <2>1 DEF StampInv, StampsPast
  <2>5. ASSUME NEW v \in Workers, pc'[v] = "completing", Owns(v)',
               NEW u \in Tasks, pairOf'[u] = pairOf'[claim'[v].id]
        PROVE  quote'[u] < fetchedAt'[v]
    <3>1. CASE v = w
      BY <1>1, <2>1, <2>2, <3>1
    <3>2. CASE v # w
      BY <1>1, <1>2, <2>5, <3>2 DEF StampInv, NewestRateWins, Owns
    <3> QED
      BY <3>1, <3>2
  <2> QED
    BY <2>3, <2>4, <2>5 DEF StampInv, StampsPast, NewestRateWins
<1>5. CASE pc' = [pc EXCEPT ![w] = "failing"] /\ UNCHANGED <<fetchedAt, clock>>
  <2>1. pc'[w] # "completing"
    BY <1>5 DEF TypeOK, WorkerTypeOK
  <2> QED
    BY <1>1, <1>2, <1>5, <2>1 DEF StampInv, StampsPast, NewestRateWins, Owns
<1> QED
  BY <1>4, <1>5 DEF FetchReturns

(* Publishing: whoever else owns a task of this pair would own a second    *)
(* unfinished one.                                                         *)
LEMMA CommitStampInv ==
  ASSUME TypeOK, TypeOK', OneUnfinishedPerPair, ClaimInv, StampInv,
         NEW w \in Workers, pc[w] = "completing", Commits(w), Keeps
  PROVE  StampInv'
<1> DEFINE t == claim[w].id
<1>1. t \in Tasks /\ fetchedAt[w] \in 1..clock
  BY DEF TypeOK, WorkerTypeOK, Holding, StampInv, StampsPast
<1>2. /\ status[t] = "in_progress"
      /\ status' = [status EXCEPT ![t] = "done"]
      /\ quote' = [quote EXCEPT ![t] = fetchedAt[w]]
      /\ UNCHANGED <<pairOf, attempts>>
  BY DEF Commits, CloseRow, Owns
<1>3. StampsPast'
  <2>1. clock' = clock
    BY DEF Keeps
  <2>2. ASSUME NEW u \in Tasks PROVE quote'[u] <= clock'
    BY <1>1, <1>2, <2>1 DEF TypeOK, RowTypeOK, WorkerTypeOK, StampInv, StampsPast
  <2>3. ASSUME NEW v \in Workers, pc'[v] = "completing"
        PROVE  fetchedAt'[v] \in 1..clock'
    <3>1. pc[v] = "completing" /\ fetchedAt'[v] = fetchedAt[v]
      BY <2>3 DEF Keeps
    <3> QED
      BY <2>1, <3>1 DEF StampInv, StampsPast
  <2> QED
    BY <2>2, <2>3 DEF StampsPast
<1>4. ASSUME NEW v \in Workers, pc'[v] = "completing", Owns(v)',
             NEW u \in Tasks, pairOf'[u] = pairOf'[claim'[v].id]
      PROVE  quote'[u] < fetchedAt'[v]
  <2>1. /\ pc[v] = "completing" /\ Holding(v)
        /\ claim'[v] = claim[v]
        /\ fetchedAt'[v] = fetchedAt[v]
    BY <1>4 DEF Keeps
  <2>2. claim[v].id \in Tasks
    BY <2>1 DEF TypeOK, WorkerTypeOK
  <2>3. status'[claim[v].id] = "in_progress" /\ claim[v].id # t
    BY <1>1, <1>2, <1>4, <2>1, <2>2 DEF TypeOK, RowTypeOK, Owns
  <2>4. Owns(v)
    BY <1>2, <1>4, <2>1, <2>2, <2>3 DEF TypeOK, RowTypeOK, Owns
  <2>5. pairOf[t] # pairOf[claim[v].id]
    BY <1>1, <1>2, <2>2, <2>3, <2>4 DEF OneUnfinishedPerPair, Unfinished, Owns
  <2>6. u # t /\ quote'[u] = quote[u]
    BY <1>2, <1>4, <2>1, <2>5 DEF TypeOK, RowTypeOK
  <2> QED
    BY <1>2, <1>4, <2>1, <2>4, <2>6 DEF StampInv, NewestRateWins
<1> QED
  BY <1>3, <1>4 DEF StampInv, NewestRateWins
-----------------------------------------------------------------------------
(***************************************************************************)
(* The inductive invariant, action by action.                              *)
(***************************************************************************)
LEMMA IInvParts ==
  IInv <=> TypeOK /\ RowInv /\ ClaimInv /\ StampInv
BY DEF IInv, RowInv, ClaimInv, ClaimsStand, StampInv

LEMMA IInvInit == Init => IInv
<1> SUFFICES ASSUME Init PROVE IInv
  OBVIOUS
<1>1. TypeOK
  BY TypeInit
<1>2. RowInv
  BY QueueAssumption DEF Init, RowInv, QuoteIffDone, ErrorIffFailed,
     OneUnfinishedPerPair, Unfinished, AttemptsBounded
<1>3. ClaimInv /\ StampInv
  BY DEF Init, ClaimInv, ClaimsDistinct, ClaimsStand, StampInv, StampsPast,
     NewestRateWins, Holding
<1> QED
  BY <1>1, <1>2, <1>3, IInvParts

(* Steps after which every worker keeps or drops its claim and no quote is *)
(* new.                                                                    *)
LEMMA KeepsIInv ==
  ASSUME IInv, TypeOK', RowInv', Keeps, UNCHANGED quote,
         \A t \in Tasks :
           /\ attempts'[t] >= attempts[t]
           /\ status'[t] = "in_progress" /\ attempts'[t] = attempts[t] =>
                status[t] = "in_progress"
           /\ \/ pairOf'[t] = pairOf[t]
              \/ quote[t] = 0 /\ status'[t] # "in_progress"
  PROVE  IInv'
<1>1. ClaimInv'
  BY KeepsClaimInv, IInvParts DEF RowInv
<1>2. StampInv'
  BY KeepsStampInv, IInvParts
<1> QED
  BY <1>1, <1>2, IInvParts DEF IInv, RowInv, ClaimInv, StampInv

LEMMA PostIInv ==
  ASSUME IInv, NEW p \in Pairs, Post(p)
  PROVE  IInv'
<1>1. TypeOK' /\ RowInv' /\ Keeps
  BY PostTypes, RowInvPost, UnchangedKeeps, IInvParts DEF Post
<1>2. PICK t \in Tasks :
        /\ status[t] = "absent"
        /\ status' = [status EXCEPT ![t] = "pending"]
        /\ pairOf' = [pairOf EXCEPT ![t] = p]
  BY DEF Post
<1>3. UNCHANGED <<attempts, quote>> /\ attempts \in [Tasks -> Nat]
  BY DEF Post, IInv, TypeOK, RowTypeOK
<1>4. quote[t] = 0
  BY <1>2 DEF IInv, QuoteIffDone
<1> QED
  BY <1>1, <1>2, <1>3, <1>4, KeepsIInv DEF IInv, TypeOK, RowTypeOK

LEMMA QuietIInv ==
  ASSUME IInv, TypeOK', Keeps,
         UNCHANGED <<status, pairOf, attempts, error, quote, releases>>
  PROVE  IInv'
<1>1. RowInv'
  BY RowInvQuiet, IInvParts
<1>2. attempts \in [Tasks -> Nat]
  BY DEF IInv, TypeOK, RowTypeOK
<1> QED
  BY <1>1, <1>2, KeepsIInv

LEMMA ClaimIInv ==
  ASSUME IInv, NEW w \in Workers, ClaimTask(w) \/ ClaimReplyLost(w)
  PROVE  IInv'
<1>1. PICK t \in Tasks : MarkClaimed(t)
  BY DEF ClaimTask, ClaimReplyLost
<1>2. TypeOK' /\ RowInv'
  BY <1>1, ClaimTypes, RowInvClaim, IInvParts
<1>3. /\ attempts' = [attempts EXCEPT ![t] = attempts[t] + 1]
      /\ status' = [status EXCEPT ![t] = "in_progress"]
      /\ UNCHANGED <<pairOf, quote>>
      /\ attempts \in [Tasks -> Nat] /\ status \in [Tasks -> Statuses \cup {"absent"}]
  BY <1>1 DEF MarkClaimed, ClaimToken, IInv, TypeOK, RowTypeOK
<1>4. CASE ClaimReplyLost(w)
  <2>1. Keeps
    BY <1>4, UnchangedKeeps DEF ClaimReplyLost
  <2> QED
    BY <1>2, <1>3, <2>1, KeepsIInv
<1>5. CASE ClaimTask(w)
  <2>1. ClaimInv'
    BY <1>2, <1>5, ClaimTaskClaimInv, IInvParts DEF RowInv
  <2>2. StampsPast'
    BY <1>3, <1>5 DEF ClaimTask, IInv, TypeOK, WorkerTypeOK, StampsPast
  <2>3. ASSUME NEW v \in Workers, pc'[v] = "completing", Owns(v)'
        PROVE  Owns(v) /\ claim'[v] = claim[v] /\ pc[v] = "completing"
    <3>1. claim'[v] = claim[v] /\ pc[v] = "completing" /\ claim[v].id \in Tasks
      BY <1>5, <2>3 DEF ClaimTask, IInv, TypeOK, WorkerTypeOK, Holding
    <3>2. claim[v].attempts \in 1..attempts[claim[v].id]
      BY <3>1 DEF IInv, ClaimsStand, Holding
    <3>3. /\ status'[claim[v].id] = "in_progress"
          /\ attempts'[claim[v].id] = claim[v].attempts
      BY <2>3, <3>1 DEF Owns
    <3>4. claim[v].id # t
      BY <1>3, <3>1, <3>2, <3>3
    <3> QED
      BY <1>3, <3>1, <3>3, <3>4 DEF Owns
  <2>4. NewestRateWins'
    BY <1>3, <1>5, <2>3 DEF ClaimTask, IInv, NewestRateWins
  <2> QED
    BY <1>2, <2>1, <2>2, <2>4 DEF IInv, RowInv, ClaimInv
<1> QED
  BY <1>4, <1>5

LEMMA FetchIInv ==
  ASSUME IInv, NEW w \in Workers, FetchReturns(w)
  PROVE  IInv'
<1>1. TypeOK' /\ RowInv' /\ StampInv'
  BY FetchTypes, RowInvQuiet, FetchStampInv, IInvParts DEF FetchReturns, rowVars
<1>2. UNCHANGED <<claim, attempts, status>>
      /\ \A v \in Workers : Holding(v)' => Holding(v)
  BY DEF FetchReturns, rowVars, Holding, IInv, TypeOK, WorkerTypeOK
<1>3. ClaimInv'
  BY <1>2 DEF IInv, ClaimInv, ClaimsDistinct, ClaimsStand
<1> QED
  BY <1>1, <1>3 DEF IInv, RowInv, ClaimInv, StampInv

LEMMA FinaliseIInv ==
  ASSUME IInv, NEW w \in Workers,
         CompleteTask(w) \/ FailTask(w) \/ ReleaseTask(w)
  PROVE  IInv'
<1> DEFINE t == claim[w].id
<1>1. TypeOK /\ TypeOK' /\ Keeps /\ t \in Tasks
  BY FinaliseTypes, FinaliseKeeps
  DEF IInv, TypeOK, WorkerTypeOK, CompleteTask, FailTask, ReleaseTask, Holding
<1>2. CASE UNCHANGED <<rowVars, locked, releases>>
  BY <1>1, <1>2, QuietIInv DEF rowVars
<1>3. CASE pc[w] = "completing" /\ Commits(w) /\ UNCHANGED releases
  <2>1. fetchedAt[w] # 0
    BY <1>3 DEF IInv, StampsPast
  <2>2. RowInv'
    BY <1>1, <1>3, <2>1, RowInvClose, IInvParts DEF Commits
  <2>3. ClaimInv'
    BY <1>1, <1>3, <2>2, KeepsClaimInv, IInvParts
    DEF Commits, CloseRow, RowInv, TypeOK, RowTypeOK
  <2>4. StampInv'
    BY <1>1, <1>3, CommitStampInv, IInvParts DEF IInv
  <2> QED
    BY <1>1, <2>2, <2>3, <2>4 DEF IInv, RowInv, ClaimInv, StampInv
<1>4. ASSUME NEW s \in {"pending", "failed"}, NEW e, NEW q,
             CloseRow(w, s, e, q), q = quote[t],
             e # "none" <=> s = "failed", e # "abandoned",
             IF s = "pending"
               THEN releases' = [releases EXCEPT ![t] = @ + 1]
               ELSE UNCHANGED releases
      PROVE  IInv'
  <2>1. /\ status[t] = "in_progress"
        /\ status' = [status EXCEPT ![t] = s]
        /\ quote' = [quote EXCEPT ![t] = q]
        /\ UNCHANGED <<pairOf, attempts>>
    BY <1>4 DEF CloseRow, Owns
  <2>2. q = 0 /\ quote' = quote
    BY <1>1, <1>4, <2>1 DEF IInv, QuoteIffDone, TypeOK, RowTypeOK
  <2>3. RowInv'
    BY <1>1, <1>4, <2>2, RowInvClose, IInvParts
  <2> QED
    BY <1>1, <2>1, <2>2, <2>3, KeepsIInv DEF TypeOK, RowTypeOK
<1>5. CASE /\ pc[w] = "failing" /\ UNCHANGED releases
           /\ CloseRow(w, "failed", answer[w], quote[t])
  <2>1. answer[w] # "none" /\ answer[w] # "abandoned"
    BY <1>1, <1>5 DEF TypeOK, WorkerTypeOK, FetchErrors
  <2> QED
    BY <1>4, <1>5, <2>1
<1>6. CASE /\ CloseRow(w, "pending", error[t], quote[t])
           /\ releases' = [releases EXCEPT ![t] = @ + 1]
  <2>1. error[t] = "none"
    BY <1>1, <1>6 DEF IInv, ErrorIffFailed, CloseRow, Owns
  <2> QED
    BY <1>4, <1>6, <2>1
<1> QED
  BY <1>2, <1>3, <1>5, <1>6
  DEF CompleteTask, FailTask, ReleaseTask, ClaimLost, FinaliseFails

LEMMA RecoveryIInv ==
  ASSUME IInv, NEW S \in SUBSET Stale, RecoveryPass(S)
  PROVE  IInv'
<1>1. TypeOK' /\ RowInv' /\ Keeps
  BY RecoveryTypes, RowInvRecovery, UnchangedKeeps, IInvParts DEF RecoveryPass
<1>2. /\ UNCHANGED <<pairOf, attempts, quote>>
      /\ \A t \in Tasks : status'[t] = "in_progress" => status[t] = "in_progress"
      /\ attempts \in [Tasks -> Nat]
  BY DEF RecoveryPass, IInv, TypeOK, RowTypeOK
<1> QED
  BY <1>1, <1>2, KeepsIInv

LEMMA IInvStep == IInv /\ [Next]_vars => IInv'
<1> SUFFICES ASSUME IInv, [Next]_vars PROVE IInv'
  OBVIOUS
<1>1. TypeOK'
  BY TypeStep DEF IInv
<1>2. CASE UNCHANGED vars
  BY <1>1, <1>2, QuietIInv, UnchangedKeeps DEF vars, rowVars
<1>3. ASSUME NEW p \in Pairs, Post(p) PROVE IInv'
  BY <1>3, PostIInv
<1>4. ASSUME NEW t \in Tasks, DeduplicatePost(t) \/ EndPost(t) PROVE IInv'
  BY <1>1, <1>4, QuietIInv, UnchangedKeeps DEF DeduplicatePost, EndPost, rowVars
<1>5. ASSUME NEW w \in Workers, WorkerStep(w) PROVE IInv'
  <2>1. CASE FetchInterrupted(w) \/ DeadlineFires(w) \/ Cancel(w) \/ Crash(w)
    BY <1>1, <2>1, QuietIInv, InterruptKeeps
    DEF IInv, FetchInterrupted, DeadlineFires, Cancel, Crash, rowVars
  <2> QED
    BY <1>5, <2>1, ClaimIInv, FetchIInv, FinaliseIInv DEF WorkerStep
<1>6. ASSUME NEW S \in SUBSET Stale, RecoveryPass(S) PROVE IInv'
  BY <1>6, RecoveryIInv
<1>7. CASE Tick
  BY <1>1, <1>7, QuietIInv, UnchangedKeeps DEF Tick
<1> QED
  BY <1>2, <1>3, <1>4, <1>5, <1>6, <1>7 DEF Next

THEOREM Invariance == Spec => []IInv
<1> QED
  BY IInvInit, IInvStep, PTL DEF Spec

(* GetTask's join answers for precisely the tasks in StatusDone, and a     *)
(* failure always carries its reason: CompleteTask, FailTask and           *)
(* ReleaseStuckTasks never leave half of their outcome behind.             *)
THEOREM OutcomesWhole == Spec => []ResultsWhole
<1>1. IInv => ResultsWhole
  BY DEF IInv, ResultsWhole
<1> QED
  BY <1>1, Invariance, PTL

(* insertTask deduplicates: no pair ever has two unfinished tasks.         *)
THEOREM Deduplicated == Spec => []OneUnfinishedPerPair
<1>1. IInv => OneUnfinishedPerPair
  BY DEF IInv
<1> QED
  BY <1>1, Invariance, PTL

(* attempts as a token: no two workers hold the same claim.                *)
THEOREM TokensDistinct == Spec => []ClaimsDistinct
<1>1. IInv => ClaimsDistinct
  BY DEF IInv
<1> QED
  BY <1>1, Invariance, PTL

(* ReleaseStuckTasks bounds the starts of a task, but for hand-backs.      *)
THEOREM StartsBounded == Spec => []AttemptsBounded
<1>1. IInv => AttemptsBounded
  BY DEF IInv
<1> QED
  BY <1>1, Invariance, PTL

(* GetLatestQuote's order by fetched_at is the order of finalisation.      *)
THEOREM NewestRate == Spec => []NewestRateWins
<1>1. IInv => NewestRateWins
  BY DEF IInv
<1> QED
  BY <1>1, Invariance, PTL
-----------------------------------------------------------------------------
(***************************************************************************)
(* What a step may not do.                                                 *)
(***************************************************************************)
Frozen(t) ==
  /\ status'[t] = status[t]
  /\ error'[t] = error[t]
  /\ quote'[t] = quote[t]
  /\ attempts'[t] = attempts[t]

LEMMA TerminalStep ==
  ASSUME IInv, [Next]_vars, NEW t \in Tasks, status[t] \in Terminal
  PROVE  Frozen(t)
<1> USE DEF IInv, TypeOK, RowTypeOK, Terminal
<1>1. CASE UNCHANGED rowVars
  BY <1>1 DEF rowVars, Frozen
<1>2. ASSUME NEW p \in Pairs, Post(p) PROVE Frozen(t)
  BY <1>2 DEF Post, Frozen
<1>3. ASSUME NEW u \in Tasks, DeduplicatePost(u) PROVE Frozen(t)
  BY <1>3 DEF DeduplicatePost, Frozen
<1>4. ASSUME NEW u \in Tasks, MarkClaimed(u) PROVE Frozen(t)
  BY <1>4 DEF MarkClaimed, Claimable, Frozen
<1>5. ASSUME NEW w \in Workers, Holding(w), NEW s, NEW e, NEW q, CloseRow(w, s, e, q)
      PROVE  Frozen(t)
  BY <1>5 DEF CloseRow, Owns, Frozen
<1>6. ASSUME NEW S \in SUBSET Stale, RecoveryPass(S) PROVE Frozen(t)
  BY <1>6 DEF RecoveryPass, Stale, Frozen
<1>7. CASE Tick
  BY <1>7 DEF Tick, Frozen
<1>8. ASSUME NEW w \in Workers, WorkerStep(w) PROVE Frozen(t)
  <2>1. CASE ClaimTask(w) \/ ClaimReplyLost(w)
    BY <1>4, <2>1 DEF ClaimTask, ClaimReplyLost
  <2>2. CASE FetchReturns(w) \/ FetchInterrupted(w) \/ DeadlineFires(w) \/ Cancel(w) \/ Crash(w)
    BY <1>1, <2>2 DEF FetchReturns, FetchInterrupted, DeadlineFires, Cancel, Crash
  <2>3. CASE CompleteTask(w) \/ FailTask(w) \/ ReleaseTask(w)
    BY <1>1, <1>5, <2>3
    DEF CompleteTask, FailTask, ReleaseTask, Commits, ClaimLost, FinaliseFails, Holding
  <2> QED
    BY <1>8, <2>1, <2>2, <2>3 DEF WorkerStep
<1> QED
  BY <1>1, <1>2, <1>3, <1>6, <1>7, <1>8 DEF Next, vars, EndPost

(* What a client read of a finished task stays what it was: no late        *)
(* worker, no recovery pass and no post touches a terminal row.            *)
THEOREM TerminalForever == Spec => TerminalIsFinal
<1>1. IInv /\ [Next]_vars =>
        [\A t \in Tasks : status[t] \in Terminal =>
           /\ status'[t] = status[t]
           /\ error'[t] = error[t]
           /\ quote'[t] = quote[t]
           /\ attempts'[t] = attempts[t]]_vars
  BY TerminalStep DEF Frozen
<1> QED
  BY <1>1, Invariance, PTL DEF Spec, TerminalIsFinal
-----------------------------------------------------------------------------
(***************************************************************************)
(* Claims: who may end one, and the clock that runs while it stands.       *)
(***************************************************************************)
(* A worker at work on the claim t stands under, about to give t the       *)
(* status it has after the step.                                           *)
Finisher(w, t) ==
  /\ claim[w] = [id |-> t, attempts |-> attempts[t]]
  /\ pc[w] = CASE status'[t] = "done" -> "completing"
               [] status'[t] = "failed" -> "failing"
               [] status'[t] = "pending" -> "releasing"

LEMMA FinisherCloses ==
  ASSUME IInv, NEW t \in Tasks, NEW w \in Workers,
         status[t] = "in_progress", status'[t] # "in_progress",
         NEW s, NEW e, NEW q, CloseRow(w, s, e, q), Holding(w),
         \/ s = "done" /\ pc[w] = "completing"
         \/ s = "failed" /\ pc[w] = "failing"
         \/ s = "pending" /\ pc[w] = "releasing"
  PROVE  Finisher(w, t)
<1>1. claim[w].id = t /\ status'[t] = s
  BY DEF CloseRow, IInv, TypeOK, RowTypeOK
<1>2. claim[w].attempts = attempts[t]
  BY <1>1 DEF CloseRow, Owns
<1>3. claim[w] = [id |-> t, attempts |-> attempts[t]]
  BY <1>1, <1>2 DEF IInv, TypeOK, WorkerTypeOK
<1> QED
  BY <1>1, <1>3 DEF Finisher

LEMMA HolderStep ==
  ASSUME IInv, [Next]_vars, NEW t \in Tasks,
         status[t] = "in_progress", status'[t] # "in_progress"
  PROVE  t \in Stale \/ \E w \in Workers : Finisher(w, t)
<1> USE DEF IInv, TypeOK, RowTypeOK
<1>1. ~UNCHANGED status
  OBVIOUS
<1>2. CASE \E u \in Tasks : DeduplicatePost(u) \/ EndPost(u)
  BY <1>1, <1>2 DEF DeduplicatePost, EndPost, rowVars
<1>3. ASSUME NEW p \in Pairs, Post(p) PROVE FALSE
  BY <1>3 DEF Post
<1>4. ASSUME NEW u \in Tasks, MarkClaimed(u) PROVE FALSE
  BY <1>4 DEF MarkClaimed, Claimable
<1>5. ASSUME NEW S \in SUBSET Stale, RecoveryPass(S) PROVE t \in Stale
  BY <1>5 DEF RecoveryPass
<1>6. ASSUME NEW w \in Workers, WorkerStep(w) PROVE Finisher(w, t)
  <2>1. CASE ClaimTask(w) \/ ClaimReplyLost(w)
    BY <1>4, <2>1 DEF ClaimTask, ClaimReplyLost
  <2>2. CASE FetchReturns(w) \/ FetchInterrupted(w) \/ DeadlineFires(w) \/ Cancel(w) \/ Crash(w)
    BY <1>1, <2>2
    DEF FetchReturns, FetchInterrupted, DeadlineFires, Cancel, Crash, rowVars
  <2>3. CASE CompleteTask(w)
    <3>1. Commits(w)
      BY <1>1, <2>3 DEF CompleteTask, ClaimLost, FinaliseFails, rowVars
    <3> QED
      BY <2>3, <3>1, FinisherCloses DEF CompleteTask, Commits, Holding
  <2>4. CASE FailTask(w)
    <3>1. CloseRow(w, "failed", answer[w], quote[claim[w].id])
      BY <1>1, <2>4 DEF FailTask, ClaimLost, FinaliseFails, rowVars
    <3> QED
      BY <2>4, <3>1, FinisherCloses DEF FailTask, Holding
  <2>5. CASE ReleaseTask(w)
    <3>1. CloseRow(w, "pending", error[claim[w].id], quote[claim[w].id])
      BY <1>1, <2>5 DEF ReleaseTask, rowVars
    <3> QED
      BY <2>5, <3>1, FinisherCloses DEF ReleaseTask, Holding
  <2> QED
    BY <1>6, <2>1, <2>2, <2>3, <2>4, <2>5 DEF WorkerStep
<1>7. CASE Tick \/ UNCHANGED vars
  BY <1>1, <1>7 DEF Tick, vars, rowVars
<1> QED
  BY <1>2, <1>3, <1>5, <1>6, <1>7 DEF Next

(* A claim is ended by its own worker or by its age, and by nobody else:   *)
(* CompleteTask, FailTask and ReleaseTask under a stale claim do nothing.  *)
THEOREM HolderFinishes == Spec => OnlyHolderFinishes
<1>1. IInv /\ [Next]_vars =>
        [\A t \in Tasks : status[t] = "in_progress" /\ status'[t] # "in_progress" =>
           \/ t \in Stale
           \/ \E w \in Workers :
                /\ claim[w] = [id |-> t, attempts |-> attempts[t]]
                /\ pc[w] = CASE status'[t] = "done" -> "completing"
                             [] status'[t] = "failed" -> "failing"
                             [] status'[t] = "pending" -> "releasing"]_vars
  BY HolderStep DEF Finisher
<1> QED
  BY <1>1, Invariance, PTL DEF Spec, OnlyHolderFinishes

LEMMA ClockStep ==
  ASSUME IInv, [Next]_vars, NEW t \in Tasks,
         status[t] = "in_progress", status'[t] = "in_progress"
  PROVE  age'[t] >= age[t]
<1> USE DEF IInv, TypeOK, RowTypeOK
<1>0. age[t] \in Nat
  BY QueueAssumption
<1>1. CASE UNCHANGED age
  BY <1>0, <1>1
<1>2. ASSUME NEW u \in Tasks, DeduplicatePost(u) \/ EndPost(u) PROVE UNCHANGED age
  BY <1>2 DEF DeduplicatePost, AgeAfterConflict, EndPost, rowVars
<1>3. ASSUME NEW p \in Pairs, Post(p) PROVE UNCHANGED age
  BY <1>3 DEF Post
<1>4. ASSUME NEW u \in Tasks, MarkClaimed(u) PROVE age'[t] = age[t]
  BY <1>4 DEF MarkClaimed, Claimable
<1>5. ASSUME NEW S \in SUBSET Stale, RecoveryPass(S) PROVE age'[t] = age[t]
  BY <1>5 DEF RecoveryPass
<1>6. CASE Tick
  BY <1>0, <1>6 DEF Tick
<1>7. ASSUME NEW w \in Workers, Holding(w), NEW s, NEW e, NEW q, CloseRow(w, s, e, q),
             s # "in_progress"
      PROVE  age'[t] = age[t]
  BY <1>7 DEF CloseRow
<1>8. ASSUME NEW w \in Workers, WorkerStep(w) PROVE age'[t] = age[t]
  <2>1. CASE ClaimTask(w) \/ ClaimReplyLost(w)
    BY <1>4, <2>1 DEF ClaimTask, ClaimReplyLost
  <2>2. CASE FetchReturns(w) \/ FetchInterrupted(w) \/ DeadlineFires(w) \/ Cancel(w) \/ Crash(w)
    BY <2>2 DEF FetchReturns, FetchInterrupted, DeadlineFires, Cancel, Crash, rowVars
  <2>3. CASE CompleteTask(w) \/ FailTask(w) \/ ReleaseTask(w)
    BY <1>7, <2>3
    DEF CompleteTask, FailTask, ReleaseTask, Commits, ClaimLost, FinaliseFails,
        Holding, rowVars
  <2> QED
    BY <1>8, <2>1, <2>2, <2>3 DEF WorkerStep
<1>9. CASE UNCHANGED vars
  BY <1>1, <1>9 DEF vars, rowVars
<1> QED
  BY <1>0, <1>1, <1>2, <1>3, <1>5, <1>6, <1>8, <1>9 DEF Next

(* ReleaseStuckTasks measures a claim from its start: insertTask, above    *)
(* all, leaves updated_at of the row it meets alone.                       *)
THEOREM RecoveryClock == Spec => RecoveryClockRuns
<1>1. IInv /\ [Next]_vars =>
        [\A t \in Tasks :
           status[t] = "in_progress" /\ status'[t] = "in_progress" =>
             age'[t] >= age[t]]_vars
  BY ClockStep
<1> QED
  BY <1>1, Invariance, PTL DEF Spec, RecoveryClockRuns
-----------------------------------------------------------------------------
(***************************************************************************)
(* The queue implements the promise of QuoteTasks: every step of it is a   *)
(* step the client was told of, or one a client cannot see.                *)
(*                                                                         *)
(* GetLatestQuote is a CHOOSE.  It says something only as long as each     *)
(* pair with quotes has one fetched after all others, which no assumption  *)
(* on the number of rows grants: it is an invariant.                       *)
(***************************************************************************)
Newest(t, p) ==
  /\ t \in QuotesOf(p)
  /\ \A u \in QuotesOf(p) : u # t => quote[u] < quote[t]

LatestExists ==
  \A p \in Pairs : QuotesOf(p) # {} => \E t \in Tasks : Newest(t, p)

LEMMA LatestIsNewest ==
  ASSUME NEW Q, NEW f, NEW t \in Q,
         \A u \in Q : f[u] \in Nat,
         \A u \in Q : u # t => f[u] < f[t]
  PROVE  (CHOOSE x \in Q : \A u \in Q : f[u] <= f[x]) = t
<1> DEFINE Top(x) == \A u \in Q : f[u] <= f[x]
<1>1. Top(t)
  OBVIOUS
<1>2. \A x \in Q : Top(x) => x = t
  OBVIOUS
<1> HIDE DEF Top
<1>3. (CHOOSE x \in Q : Top(x)) = t
  BY <1>1, <1>2
<1> QED
  BY <1>3 DEF Top

LEMMA NewestIsLatest ==
  ASSUME TypeOK, NEW p \in Pairs, NEW t \in Tasks, Newest(t, p)
  PROVE  GetLatestQuote(p) = t
<1>1. \A u \in QuotesOf(p) : quote[u] \in Nat
  BY DEF QuotesOf, TypeOK, RowTypeOK
<1>2. (CHOOSE x \in QuotesOf(p) : \A u \in QuotesOf(p) : quote[u] <= quote[x]) = t
  BY <1>1, LatestIsNewest DEF Newest
<1> QED
  BY <1>2 DEF GetLatestQuote, Newest

LEMMA NewestIsLatestNext ==
  ASSUME TypeOK', NEW p \in Pairs, NEW t \in Tasks, Newest(t, p)'
  PROVE  GetLatestQuote(p)' = t
<1> DEFINE Q == QuotesOf(p)'
<1>1. \A u \in Q : quote'[u] \in Nat
  BY DEF QuotesOf, TypeOK, RowTypeOK
<1>2. t \in Q /\ \A u \in Q : u # t => quote'[u] < quote'[t]
  BY DEF Newest
<1> HIDE DEF Q
<1>3. (CHOOSE x \in Q : \A u \in Q : quote'[u] <= quote'[x]) = t
  BY <1>1, <1>2, LatestIsNewest
<1> QED
  BY <1>2, <1>3 DEF GetLatestQuote, Q
-----------------------------------------------------------------------------
(***************************************************************************)
(* What steps do to the latest quotes: a commit replaces that of its pair, *)
(* and every other step leaves them all.                                   *)
(***************************************************************************)
LatestUnchanged == \A p \in Pairs : GetLatestQuote(p)' = GetLatestQuote(p)

LEMMA QuotesStay ==
  ASSUME TypeOK, TypeOK', LatestExists, UNCHANGED quote,
         \A t \in Tasks : quote[t] # 0 => pairOf'[t] = pairOf[t]
  PROVE  LatestExists' /\ LatestUnchanged
<1>1. ASSUME NEW p \in Pairs, \A t \in Tasks : quote[t] # 0 => pairOf'[t] = pairOf[t]
      PROVE  QuotesOf(p)' = QuotesOf(p)
  BY <1>1 DEF QuotesOf
<1>2. \A p \in Pairs, t \in Tasks : Newest(t, p)' <=> Newest(t, p)
  BY <1>1 DEF Newest
<1>3. LatestExists'
  BY <1>1, <1>2 DEF LatestExists
<1>4. ASSUME NEW p \in Pairs
      PROVE  GetLatestQuote(p)' = GetLatestQuote(p)
  <2>1. CASE QuotesOf(p) = {}
    BY <1>1, <2>1 DEF GetLatestQuote
  <2>2. ASSUME NEW t \in Tasks, Newest(t, p)
        PROVE  GetLatestQuote(p)' = GetLatestQuote(p)
    BY <1>2, <2>2, NewestIsLatest, NewestIsLatestNext
  <2> QED
    BY <2>1, <2>2 DEF LatestExists
<1> QED
  BY <1>3, <1>4 DEF LatestUnchanged

LEMMA CommitLatest ==
  ASSUME IInv, TypeOK', LatestExists, NEW w \in Workers,
         pc[w] = "completing", Commits(w)
  PROVE  /\ LatestExists'
         /\ \A p \in Pairs : GetLatestQuote(p)' =
              IF p = pairOf[claim[w].id] THEN claim[w].id ELSE GetLatestQuote(p)
<1> USE DEF IInv, TypeOK, RowTypeOK, WorkerTypeOK
<1>0. PICK t \in Tasks : t = claim[w].id
  BY DEF Holding
<1>1. Owns(w)
  BY DEF Commits, CloseRow
<1>2. pairOf' = pairOf /\ quote' = [quote EXCEPT ![t] = fetchedAt[w]]
  BY <1>0 DEF Commits, CloseRow
<1>3. fetchedAt[w] \in Nat /\ fetchedAt[w] # 0
  BY DEF StampsPast
<1>4. \A u \in Tasks : pairOf[u] = pairOf[t] => quote[u] < fetchedAt[w]
  BY <1>0, <1>1 DEF NewestRateWins
<1>5. ASSUME NEW p \in Pairs, p = pairOf[t]
      PROVE  Newest(t, p)'
  <2>1. t \in QuotesOf(p)'
    BY <1>1, <1>2, <1>3, <1>5 DEF QuotesOf
  <2>2. ASSUME NEW u \in QuotesOf(p)', u # t PROVE quote'[u] < quote'[t]
    <3>1. u \in Tasks /\ pairOf[u] = p
      BY <1>2, <2>2 DEF QuotesOf
    <3>2. quote[u] < fetchedAt[w]
      BY <1>4, <1>5, <3>1
    <3> QED
      BY <1>1, <1>2, <2>2, <3>1, <3>2
  <2> QED
    BY <2>1, <2>2 DEF Newest
<1>6. ASSUME NEW p \in Pairs, p # pairOf[t]
      PROVE  QuotesOf(p)' = QuotesOf(p) /\ \A u \in QuotesOf(p) : quote'[u] = quote[u]
  BY <1>1, <1>2, <1>6 DEF QuotesOf
<1>7. ASSUME NEW p \in Pairs, p # pairOf[t], NEW u \in Tasks, Newest(u, p)
      PROVE  Newest(u, p)'
  BY <1>6, <1>7 DEF Newest
<1>8. LatestExists'
  <2> SUFFICES ASSUME NEW p \in Pairs, (QuotesOf(p) # {})'
               PROVE  \E u \in Tasks : Newest(u, p)'
    BY DEF LatestExists
  <2>1. CASE p = pairOf[t]
    BY <1>1, <1>5, <2>1
  <2>2. CASE p # pairOf[t]
    BY <1>6, <1>7, <2>2 DEF LatestExists
  <2> QED
    BY <2>1, <2>2
<1>9. ASSUME NEW p \in Pairs
      PROVE  GetLatestQuote(p)' = IF p = pairOf[t] THEN t ELSE GetLatestQuote(p)
  <2>1. CASE p = pairOf[t]
    BY <1>1, <1>5, <2>1, NewestIsLatestNext
  <2>2. CASE p # pairOf[t] /\ QuotesOf(p) = {}
    BY <1>6, <2>2 DEF GetLatestQuote
  <2>3. CASE p # pairOf[t] /\ QuotesOf(p) # {}
    <3>1. PICK u \in Tasks : Newest(u, p)
      BY <2>3 DEF LatestExists
    <3>2. GetLatestQuote(p) = u
      BY <3>1, NewestIsLatest
    <3>3. GetLatestQuote(p)' = u
      BY <1>7, <2>3, <3>1, NewestIsLatestNext
    <3> QED
      BY <2>3, <3>2, <3>3
  <2> QED
    BY <2>1, <2>2, <2>3
<1> QED
  BY <1>0, <1>8, <1>9
-----------------------------------------------------------------------------
(***************************************************************************)
(* Steps as the client sees them.                                          *)
(***************************************************************************)
LEMMA Unseen ==
  ASSUME \A t \in Tasks : Phase(t)' = Phase(t), UNCHANGED pairOf, LatestUnchanged
  PROVE  UNCHANGED Promise!vars
BY DEF Promise!vars, LatestUnchanged

LEMMA SamePhases ==
  ASSUME \A t \in Tasks : \/ status'[t] = status[t]
                          \/ {status[t], status'[t]} \subseteq {"pending", "in_progress"}
  PROVE  \A t \in Tasks : Phase(t)' = Phase(t)
BY DEF Phase, Unfinished

(* A step that no client can see.                                          *)
LEMMA QuietSteps ==
  ASSUME TypeOK, TypeOK', LatestExists, UNCHANGED <<pairOf, quote>>,
         \A t \in Tasks : \/ status'[t] = status[t]
                          \/ {status[t], status'[t]} \subseteq {"pending", "in_progress"}
  PROVE  LatestExists' /\ UNCHANGED Promise!vars
BY QuotesStay, SamePhases, Unseen

(* A post that creates its row.                                            *)
LEMMA PostAsks ==
  ASSUME IInv, TypeOK', LatestExists, NEW p \in Pairs, Post(p)
  PROVE  LatestExists' /\ Promise!Next
<1> USE DEF IInv, TypeOK, RowTypeOK
<1>1. PICK t \in Tasks :
        /\ status[t] = "absent"
        /\ status' = [status EXCEPT ![t] = "pending"]
        /\ pairOf' = [pairOf EXCEPT ![t] = p]
  BY DEF Post
<1>2. quote[t] = 0 /\ UNCHANGED quote
  BY <1>1 DEF Post, QuoteIffDone
<1>3. LatestExists' /\ LatestUnchanged
  BY <1>1, <1>2, QuotesStay
<1>4. \A u \in Tasks : Phase(u)' = IF u = t THEN "waiting" ELSE Phase(u)
  BY <1>1 DEF Phase, Unfinished
<1>5. Phase(t) = "unknown"
  BY <1>1 DEF Phase, Unfinished
<1>6. \A u \in Tasks : pairOf[u] = p => Phase(u) # "waiting"
  <2>1. \A u \in Tasks : pairOf[u] = p => status[u] \in {"absent", "done", "failed"}
    BY DEF Post, MatchesIndex, Statuses
  <2> QED
    BY <2>1 DEF Phase, Unfinished
<1>7. Promise!Ask(t, p)
  <2>1. [u \in Tasks |-> Phase(u)]' = [[u \in Tasks |-> Phase(u)] EXCEPT ![t] = "waiting"]
    BY <1>4
  <2>2. [q \in Pairs |-> GetLatestQuote(q)]' = [q \in Pairs |-> GetLatestQuote(q)]
    BY <1>3 DEF LatestUnchanged
  <2> QED
    BY <1>1, <1>5, <1>6, <2>1, <2>2 DEF Promise!Ask
<1> QED
  BY <1>3, <1>7 DEF Promise!Next

(* A commit of CompleteTask.                                               *)
LEMMA CommitSucceeds ==
  ASSUME IInv, TypeOK', LatestExists, NEW w \in Workers,
         pc[w] = "completing", Commits(w)
  PROVE  LatestExists' /\ Promise!Next
<1> USE DEF IInv, TypeOK, RowTypeOK, WorkerTypeOK
<1>1. PICK t \in Tasks : t = claim[w].id
  BY DEF Holding
<1>2. /\ status[t] = "in_progress"
      /\ status' = [status EXCEPT ![t] = "done"]
      /\ UNCHANGED pairOf
  BY <1>1 DEF Commits, CloseRow, Owns
<1>3. \A u \in Tasks : Phase(u)' = IF u = t THEN "done" ELSE Phase(u)
  BY <1>2 DEF Phase, Unfinished
<1>4. Phase(t) = "waiting"
  BY <1>2 DEF Phase, Unfinished
<1>5. /\ LatestExists'
      /\ \A p \in Pairs : GetLatestQuote(p)' =
           IF p = pairOf[t] THEN t ELSE GetLatestQuote(p)
  BY <1>1, CommitLatest
<1>6. Promise!Succeed(t)
  <2>1. [u \in Tasks |-> Phase(u)]' = [[u \in Tasks |-> Phase(u)] EXCEPT ![t] = "done"]
    BY <1>3
  <2>2. [p \in Pairs |-> GetLatestQuote(p)]'
          = [[p \in Pairs |-> GetLatestQuote(p)] EXCEPT ![pairOf[t]] = t]
    BY <1>5
  <2> QED
    BY <1>2, <1>4, <2>1, <2>2 DEF Promise!Succeed
<1> QED
  BY <1>5, <1>6 DEF Promise!Next

(* FailTask, and the give-ups of ReleaseStuckTasks.                        *)
LEMMA FailuresGiveUp ==
  ASSUME IInv, TypeOK', LatestExists, UNCHANGED <<pairOf, quote>>,
         NEW S \in SUBSET Tasks,
         \A t \in S : status[t] = "in_progress" /\ status'[t] = "failed",
         \A t \in Tasks \ S :
           \/ status'[t] = status[t]
           \/ {status[t], status'[t]} \subseteq {"pending", "in_progress"}
  PROVE  LatestExists' /\ Promise!Next
<1> USE DEF IInv, TypeOK, RowTypeOK
<1>1. LatestExists' /\ LatestUnchanged
  BY QuotesStay
<1>2. \A t \in S : Phase(t) = "waiting" /\ Phase(t)' = "failed"
  BY DEF Phase, Unfinished
<1>3. \A t \in Tasks \ S : Phase(t)' = Phase(t)
  BY DEF Phase, Unfinished
<1>4. Promise!GiveUp(S)
  BY <1>1, <1>2, <1>3 DEF Promise!GiveUp, LatestUnchanged
<1> QED
  BY <1>1, <1>4 DEF Promise!Next
-----------------------------------------------------------------------------
LEMMA WorkerRefines ==
  ASSUME IInv, TypeOK', LatestExists, NEW w \in Workers, WorkerStep(w)
  PROVE  LatestExists' /\ [Promise!Next]_(Promise!vars)
<1> USE DEF IInv, TypeOK, RowTypeOK
<1>1. CASE UNCHANGED rowVars
  BY <1>1, QuietSteps DEF rowVars
<1>2. ASSUME NEW t \in Tasks, MarkClaimed(t)
      PROVE  LatestExists' /\ UNCHANGED Promise!vars
  BY <1>2, QuietSteps DEF MarkClaimed, Claimable
<1>3. CASE ClaimTask(w) \/ ClaimReplyLost(w)
  BY <1>2, <1>3 DEF ClaimTask, ClaimReplyLost
<1>4. CASE FetchReturns(w) \/ FetchInterrupted(w) \/ DeadlineFires(w) \/ Cancel(w) \/ Crash(w)
  BY <1>1, <1>4 DEF FetchReturns, FetchInterrupted, DeadlineFires, Cancel, Crash
<1>5. CASE CompleteTask(w)
  BY <1>1, <1>5, CommitSucceeds DEF CompleteTask, ClaimLost, FinaliseFails
<1>6. CASE FailTask(w)
  <2>1. CASE CloseRow(w, "failed", answer[w], quote[claim[w].id])
    <3>1. PICK t \in Tasks : t = claim[w].id
      BY <1>6 DEF FailTask, Holding, WorkerTypeOK
    <3>2. /\ status[t] = "in_progress" /\ status'[t] = "failed"
          /\ \A u \in Tasks \ {t} : status'[u] = status[u]
          /\ UNCHANGED <<pairOf, quote>>
      BY <2>1, <3>1 DEF CloseRow, Owns
    <3> QED
      BY <3>2, FailuresGiveUp, {t} \in SUBSET Tasks
  <2> QED
    BY <1>1, <1>6, <2>1 DEF FailTask, ClaimLost, FinaliseFails
<1>7. CASE ReleaseTask(w)
  <2>1. CASE CloseRow(w, "pending", error[claim[w].id], quote[claim[w].id])
    <3>1. PICK t \in Tasks : t = claim[w].id
      BY <1>7 DEF ReleaseTask, Holding, WorkerTypeOK
    <3>2. /\ status[t] = "in_progress" /\ status'[t] = "pending"
          /\ \A u \in Tasks \ {t} : status'[u] = status[u]
          /\ UNCHANGED <<pairOf, quote>>
      BY <2>1, <3>1 DEF CloseRow, Owns
    <3> QED
      BY <3>2, QuietSteps
  <2> QED
    BY <1>1, <1>7, <2>1 DEF ReleaseTask
<1> QED
  BY <1>3, <1>4, <1>5, <1>6, <1>7 DEF WorkerStep

LEMMA StepRefines ==
  ASSUME IInv, TypeOK', LatestExists, [Next]_vars
  PROVE  LatestExists' /\ [Promise!Next]_(Promise!vars)
<1> USE DEF IInv
<1>1. ASSUME NEW p \in Pairs, Post(p)
      PROVE  LatestExists' /\ [Promise!Next]_(Promise!vars)
  BY <1>1, PostAsks
<1>2. ASSUME NEW t \in Tasks, DeduplicatePost(t) \/ EndPost(t)
      PROVE  LatestExists' /\ [Promise!Next]_(Promise!vars)
  BY <1>2, QuietSteps DEF DeduplicatePost, EndPost, rowVars
<1>3. ASSUME NEW w \in Workers, WorkerStep(w)
      PROVE  LatestExists' /\ [Promise!Next]_(Promise!vars)
  BY <1>3, WorkerRefines
<1>4. ASSUME NEW S \in SUBSET Stale, RecoveryPass(S)
      PROVE  LatestExists' /\ [Promise!Next]_(Promise!vars)
  <2> DEFINE Abandoned == {t \in S : ~UnderLimit(t)}
  <2>1. /\ Abandoned \in SUBSET Tasks
        /\ \A t \in Abandoned : status[t] = "in_progress" /\ status'[t] = "failed"
        /\ \A t \in Tasks \ Abandoned :
             \/ status'[t] = status[t]
             \/ {status[t], status'[t]} \subseteq {"pending", "in_progress"}
    BY <1>4 DEF RecoveryPass, Stale
  <2>2. UNCHANGED <<pairOf, quote>>
    BY <1>4 DEF RecoveryPass
  <2> HIDE DEF Abandoned
  <2> QED
    BY <2>1, <2>2, FailuresGiveUp
<1>5. CASE Tick \/ UNCHANGED vars
  BY <1>5, QuietSteps DEF Tick, vars, rowVars
<1> QED
  BY <1>1, <1>2, <1>3, <1>4, <1>5 DEF Next

LEMMA InitRefines == Init => LatestExists /\ Promise!Init
<1> SUFFICES ASSUME Init PROVE LatestExists /\ Promise!Init
  OBVIOUS
<1>1. \A p \in Pairs : QuotesOf(p) = {}
  BY DEF Init, QuotesOf
<1>2. \A p \in Pairs : GetLatestQuote(p) = None
  BY <1>1 DEF GetLatestQuote
<1>3. \A t \in Tasks : Phase(t) = "unknown"
  BY DEF Init, Phase, Unfinished
<1> QED
  BY <1>1, <1>2, <1>3 DEF LatestExists, Promise!Init, Init

(* What GetTask and GetLatestQuote answer is what QuoteTasks allows: tasks *)
(* end once, for good, and the latest quote is that of the task completed  *)
(* last, whatever the workers, posts and recovery passes do to each other. *)
THEOREM Implementation == Spec => KeepsPromise
<1>1. Init => LatestExists /\ Promise!Init
  BY InitRefines
<1>2. IInv /\ IInv' /\ LatestExists /\ [Next]_vars =>
        LatestExists' /\ [Promise!Next]_(Promise!vars)
  BY StepRefines DEF IInv
<1> QED
  BY <1>1, <1>2, Invariance, PTL DEF Spec, KeepsPromise, Promise!Safety
-----------------------------------------------------------------------------
(***************************************************************************)
(* The queue as the modules beside it take it to be: AtomicPasses, which   *)
(* ReleaseStuckTasks, taken apart in RecoveryPasses, amounts to, and       *)
(* PairTasks, which posts, taken apart in KeyedPosts, are made on.         *)
(***************************************************************************)
Committed == [t \in Tasks |-> IF status[t] = "absent" THEN "pending" ELSE status[t]]
Seen == [t \in Tasks |-> IF Unfinished(t) THEN "open"
                         ELSE IF status[t] = "absent" THEN "absent" ELSE "closed"]

LEMMA AgreeInit == Init => Recovery!Init /\ AsPosted!RowsInit
<1> SUFFICES ASSUME Init PROVE Recovery!Init /\ AsPosted!RowsInit
  OBVIOUS
<1>1. \A t \in Tasks : status[t] = "absent" /\ ~Unfinished(t)
  BY DEF Init, Unfinished
<1>2. Stale = {}
  BY <1>1 DEF Stale
<1> QED
  BY <1>1, <1>2 DEF Init, Recovery!Init, AsPosted!RowsInit

LEMMA QuietAgrees ==
  ASSUME TypeOK, UNCHANGED <<status, pairOf, attempts, age>>
  PROVE  UNCHANGED Recovery!vars /\ UNCHANGED AsPosted!tasks
<1>1. Stale' = Stale
  BY DEF Stale
<1> QED
  BY <1>1 DEF Recovery!vars, AsPosted!tasks, Unfinished

LEMMA PostAgrees ==
  ASSUME IInv, NEW p \in Pairs, Post(p)
  PROVE  [Recovery!Next]_(Recovery!vars) /\ AsPosted!RowsNext
<1> USE DEF IInv, TypeOK, RowTypeOK
<1>1. PICK t \in Tasks :
        /\ status[t] = "absent"
        /\ status' = [status EXCEPT ![t] = "pending"]
        /\ pairOf' = [pairOf EXCEPT ![t] = p]
  BY DEF Post
<1>2. UNCHANGED <<attempts, age>> /\ \A u \in Tasks : pairOf[u] = p => ~MatchesIndex(u)
  BY DEF Post
<1>3. UNCHANGED Recovery!vars
  <2>1. Committed' = Committed
    BY <1>1 DEF Committed
  <2>2. \A u \in Tasks : u \in Stale' <=> u \in Stale
    BY <1>1, <1>2 DEF Stale
  <2>3. Stale' = Stale
    BY <2>2 DEF Stale
  <2> QED
    BY <1>2, <2>1, <2>3 DEF Committed, Recovery!vars
<1>4. AsPosted!OpenTask(t, p)
  <2>1. \A u \in Tasks : Seen[u] = "open" => pairOf[u] # p
    BY <1>2 DEF Seen, Unfinished, MatchesIndex
  <2>2. Seen[t] = "absent"
    BY <1>1 DEF Seen, Unfinished
  <2>3. Seen' = [Seen EXCEPT ![t] = "open"]
    BY <1>1 DEF Seen, Unfinished
  <2> QED
    BY <1>1, <2>1, <2>2, <2>3 DEF Seen, AsPosted!OpenTask
<1> QED
  BY <1>3, <1>4 DEF AsPosted!RowsNext

(* SKIP LOCKED or not, a claim is the row's next one, and it is fresh.     *)
LEMMA MarkAgrees ==
  ASSUME IInv, NEW t \in Tasks, MarkClaimed(t)
  PROVE  Recovery!Next /\ UNCHANGED AsPosted!tasks
<1> USE DEF IInv, TypeOK, RowTypeOK
<1>1. /\ status[t] = "pending"
      /\ status' = [status EXCEPT ![t] = "in_progress"]
      /\ attempts' = [attempts EXCEPT ![t] = @ + 1]
      /\ age' = [age EXCEPT ![t] = 0]
      /\ UNCHANGED pairOf
  BY DEF MarkClaimed, Claimable, ClaimToken
<1>2. Recovery!Claim(t)
  <2>1. Committed' = [Committed EXCEPT ![t] = "in_progress"]
    BY <1>1 DEF Committed
  <2>2. \A u \in Tasks : u \in Stale' <=> u \in Stale
    BY <1>1, QueueAssumption DEF Stale
  <2>3. Stale' = Stale
    BY <2>2 DEF Stale
  <2> QED
    BY <1>1, <2>1, <2>3 DEF Committed, Recovery!Claim
<1>3. Seen' = Seen
  BY <1>1 DEF Seen, Unfinished
<1> QED
  BY <1>1, <1>2, <1>3 DEF Seen, AsPosted!tasks, Recovery!Next

LEMMA CloseAgrees ==
  ASSUME IInv, NEW w \in Workers, Holding(w),
         NEW s \in {"done", "failed", "pending"}, NEW e, NEW q, CloseRow(w, s, e, q)
  PROVE  Recovery!Next /\ [AsPosted!RowsNext]_(AsPosted!tasks)
<1>1. PICK t \in Tasks : t = claim[w].id
  BY DEF IInv, TypeOK, WorkerTypeOK
<1>2. /\ status[t] = "in_progress"
      /\ status' = [status EXCEPT ![t] = s]
      /\ age' = [age EXCEPT ![t] = 0]
      /\ UNCHANGED <<pairOf, attempts>>
  BY <1>1 DEF CloseRow, Owns
<1> USE DEF IInv, TypeOK, RowTypeOK
<1>3. Recovery!Finalise(t)
  <2>1. Committed[t] = "in_progress" /\ Committed' = [Committed EXCEPT ![t] = s]
    BY <1>1, <1>2 DEF Committed
  <2>2. \A u \in Tasks : u \in Stale' <=> u \in Stale \ {t}
    BY <1>1, <1>2, QueueAssumption DEF Stale
  <2>3. Stale' = Stale \ {t}
    BY <2>2 DEF Stale
  <2> QED
    BY <1>2, <2>1, <2>3 DEF Committed, Recovery!Finalise
<1>4. ASSUME s = "pending" PROVE UNCHANGED AsPosted!tasks
  <2>1. Seen' = Seen
    BY <1>1, <1>2, <1>4 DEF Seen, Unfinished
  <2> QED
    BY <1>2, <2>1 DEF Seen, AsPosted!tasks
<1>5. ASSUME s # "pending" PROVE AsPosted!RowsNext
  <2>1. Seen[t] = "open"
    BY <1>1, <1>2 DEF Seen, Unfinished
  <2>2. Seen' = [u \in Tasks |-> IF u \in {t} THEN "closed" ELSE Seen[u]]
    BY <1>1, <1>2, <1>5 DEF Seen, Unfinished
  <2>3. AsPosted!CloseTasks({t})
    BY <1>2, <2>1, <2>2 DEF Seen, AsPosted!CloseTasks
  <2>4. {t} \in SUBSET Tasks
    BY <1>1
  <2> QED
    BY <2>3, <2>4 DEF AsPosted!RowsNext
<1>6. Recovery!Next
  BY <1>1, <1>3 DEF Recovery!Next
<1> QED
  BY <1>4, <1>5, <1>6

(* ReleaseStuckTasks takes stale claims to where their attempts say, makes *)
(* them fresh, and touches no other row's staleness; to posts, it closes   *)
(* the rows it gives up on.                                                *)
LEMMA PassAgrees ==
  ASSUME IInv, NEW S \in SUBSET Stale, RecoveryPass(S)
  PROVE  Recovery!Next /\ AsPosted!RowsNext
<1> USE DEF IInv, TypeOK, RowTypeOK
<1>1. \A t \in S : t \in Tasks /\ status[t] = "in_progress"
  BY DEF Stale
<1> PICK Abandoned \in SUBSET Tasks : Abandoned = {t \in S : ~UnderLimit(t)}
  BY <1>1
<1>2. /\ status' = [t \in Tasks |->
           IF t \notin S THEN status[t]
           ELSE IF UnderLimit(t) THEN "pending" ELSE "failed"]
      /\ age' = [t \in Tasks |-> IF t \in S THEN 0 ELSE age[t]]
      /\ UNCHANGED <<pairOf, attempts>>
  BY DEF RecoveryPass
<1>3. Recovery!Pass(S)
  <2>1. \A t \in Tasks : t \in Stale' <=> t \in Stale \ S
    BY <1>1, <1>2 DEF Stale
  <2>2. Stale' = Stale \ S
    BY <2>1 DEF Stale
  <2>3. \A t \in S : Committed[t] = "in_progress"
    BY <1>1 DEF Committed
  <2>4. Committed' = [t \in Tasks |->
          IF t \notin S THEN Committed[t]
          ELSE IF attempts[t] < MaxAttempts THEN "pending" ELSE "failed"]
    BY <1>1, <1>2 DEF Committed, UnderLimit
  <2> QED
    BY <1>2, <2>2, <2>3, <2>4 DEF Committed, Recovery!Pass
<1>4. AsPosted!CloseTasks(Abandoned)
  <2>1. \A t \in Abandoned : Seen[t] = "open"
    BY <1>1 DEF Seen, Unfinished
  <2>2. Seen' = [t \in Tasks |-> IF t \in Abandoned THEN "closed" ELSE Seen[t]]
    BY <1>1, <1>2 DEF Seen, Unfinished
  <2> QED
    BY <1>2, <2>1, <2>2 DEF Seen, AsPosted!CloseTasks
<1>5. Recovery!Next
  BY <1>1, <1>3 DEF Recovery!Next
<1>6. AsPosted!RowsNext
  BY <1>4 DEF AsPosted!RowsNext
<1> QED
  BY <1>5, <1>6

(* Time makes claims stale, several at once, and does nothing else.        *)
LEMMA TickAgrees ==
  ASSUME IInv, Tick
  PROVE  Recovery!Next /\ UNCHANGED AsPosted!tasks
<1> USE DEF IInv, TypeOK, RowTypeOK
<1> DEFINE Grown == Stale' \ Stale
<1>1. /\ age' = [t \in Tasks |-> IF t \in Aging THEN age[t] + 1 ELSE age[t]]
      /\ UNCHANGED <<status, pairOf, attempts>>
  BY DEF Tick
<1>2. \A t \in Stale : t \in Stale'
  BY <1>1, QueueAssumption DEF Stale, Aging
<1>3. Stale' = Stale \cup Grown
  BY <1>2
<1>4. \A t \in Grown : t \in Tasks /\ Committed[t] = "in_progress"
  BY <1>1 DEF Stale, Committed
<1>5. Committed' = Committed /\ Seen' = Seen
  BY <1>1 DEF Committed, Seen, Unfinished
<1>6. Recovery!GrowStale(Grown) /\ Grown \in SUBSET Tasks
  <2> HIDE DEF Grown
  <2> QED
    BY <1>1, <1>3, <1>4, <1>5 DEF Committed, Recovery!GrowStale
<1> HIDE DEF Grown
<1> QED
  BY <1>1, <1>5, <1>6 DEF Seen, AsPosted!tasks, Recovery!Next

LEMMA WorkerAgrees ==
  ASSUME IInv, NEW w \in Workers, WorkerStep(w)
  PROVE  [Recovery!Next]_(Recovery!vars) /\ [AsPosted!RowsNext]_(AsPosted!tasks)
<1> DEFINE Agreed == [Recovery!Next]_(Recovery!vars) /\ [AsPosted!RowsNext]_(AsPosted!tasks)
<1> SUFFICES Agreed
  OBVIOUS
<1>1. UNCHANGED rowVars => Agreed
  BY QuietAgrees DEF IInv, rowVars
<1>2. CASE ClaimTask(w) \/ ClaimReplyLost(w)
  <2>1. PICK t \in Tasks : MarkClaimed(t)
    BY <1>2 DEF ClaimTask, ClaimReplyLost
  <2> QED
    BY <2>1, MarkAgrees
<1>3. CASE CompleteTask(w)
  <2>1. pc[w] = "completing" /\ Holding(w)
    BY <1>3 DEF CompleteTask, Holding
  <2>2. CASE Commits(w)
    BY <2>1, <2>2, CloseAgrees DEF Commits
  <2> QED
    BY <1>1, <1>3, <2>2 DEF CompleteTask, ClaimLost, FinaliseFails
<1>4. CASE FailTask(w)
  <2>1. pc[w] = "failing" /\ Holding(w)
    BY <1>4 DEF FailTask, Holding
  <2>2. CASE CloseRow(w, "failed", answer[w], quote[claim[w].id])
    BY <2>1, <2>2, CloseAgrees
  <2> QED
    BY <1>1, <1>4, <2>2 DEF FailTask, ClaimLost, FinaliseFails
<1>5. CASE ReleaseTask(w)
  <2>1. pc[w] = "releasing" /\ Holding(w)
    BY <1>5 DEF ReleaseTask, Holding
  <2>2. CASE CloseRow(w, "pending", error[claim[w].id], quote[claim[w].id])
    BY <2>1, <2>2, CloseAgrees
  <2> QED
    BY <1>1, <1>5, <2>2 DEF ReleaseTask
<1>6. CASE \/ FetchReturns(w) \/ FetchInterrupted(w) \/ DeadlineFires(w)
           \/ Cancel(w) \/ Crash(w)
  BY <1>1, <1>6 DEF FetchReturns, FetchInterrupted, DeadlineFires, Cancel, Crash
<1> HIDE DEF Agreed
<1> QED
  BY <1>2, <1>3, <1>4, <1>5, <1>6 DEF WorkerStep

LEMMA StepAgrees ==
  IInv /\ [Next]_vars =>
    [Recovery!Next]_(Recovery!vars) /\ [AsPosted!RowsNext]_(AsPosted!tasks)
<1> SUFFICES ASSUME IInv, [Next]_vars
             PROVE  /\ [Recovery!Next]_(Recovery!vars)
                    /\ [AsPosted!RowsNext]_(AsPosted!tasks)
  OBVIOUS
<1>1. CASE \E p \in Pairs : Post(p)
  BY <1>1, PostAgrees
<1>2. CASE \E t \in Tasks : DeduplicatePost(t) \/ EndPost(t)
  <2>1. UNCHANGED <<status, pairOf, attempts, age>>
    BY <1>2 DEF DeduplicatePost, AgeAfterConflict, EndPost, rowVars
  <2> QED
    BY <2>1, QuietAgrees DEF IInv
<1>3. CASE \E w \in Workers : WorkerStep(w)
  BY <1>3, WorkerAgrees
<1>4. CASE \E S \in SUBSET Stale : RecoveryPass(S)
  BY <1>4, PassAgrees
<1>5. CASE Tick
  BY <1>5, TickAgrees
<1>6. CASE UNCHANGED vars
  BY <1>6, QuietAgrees DEF IInv, vars, rowVars
<1> QED
  BY <1>1, <1>2, <1>3, <1>4, <1>5, <1>6 DEF Next

(* The queue and the two closer looks at it give one account of the rows:  *)
(* every step of posts, workers and recovery pass is a step of             *)
(* AtomicPasses, which RecoveryPasses implements too, and of PairTasks,    *)
(* which KeyedPosts implements too; or it shows in neither.                *)
THEOREM RowsAgree == Spec => RowsAsAgreed
<1>1. Init => Recovery!Init /\ AsPosted!RowsInit
  BY AgreeInit
<1>2. IInv /\ [Next]_vars =>
        [Recovery!Next]_(Recovery!vars) /\ [AsPosted!RowsNext]_(AsPosted!tasks)
  BY StepAgrees
<1> QED
  BY <1>1, <1>2, Invariance, PTL
     DEF Spec, RowsAsAgreed, Recovery!Spec, AsPosted!RowsSpec
=============================================================================
