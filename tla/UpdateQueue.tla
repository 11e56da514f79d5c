---------------------------- MODULE UpdateQueue ----------------------------
(***************************************************************************)
(* The queue of quote updates: the tables quote_updates and quotes, the    *)
(* statements internal/storage/postgres runs on them, the pool of workers  *)
(* of internal/worker that drains the queue, and the recovery pass that    *)
(* takes back tasks nobody holds any more.                                 *)
(*                                                                         *)
(* One statement, or one transaction, of the repository is one step: its   *)
(* row locks order it against every other writer of the same row.  The     *)
(* one lock seen from outside is that of a post which met an unfinished    *)
(* row: with a key, it is kept until the transaction ends (locked).        *)
(*                                                                         *)
(* A worker is one goroutine of Worker.Run, in whichever process runs it.  *)
(* A worker that holds nothing has nothing to lose, so an idle one stands  *)
(* as well for a process that is down: it takes no step until it polls.    *)
(*                                                                         *)
(* A definition named Def_Something is Def with a mistake in it, kept to   *)
(* show which property notices.                                            *)
(***************************************************************************)
EXTENDS Naturals

CONSTANTS
  Tasks,         \* identifiers the database can generate for a row
  Pairs,         \* currency pairs ParsePair accepts
  Workers,       \* goroutines draining the queue, over all processes
  MaxAttempts,   \* WORKER_MAX_ATTEMPTS
  StuckTimeout,  \* WORKER_STUCK_TIMEOUT, in ticks of the database clock
  MaxReleases,   \* bound: shutdowns that may still hit a task after this
                 \* many hand-backs of it, given for each, are left out
  None           \* the absence of a task or of a pair

ASSUME QueueAssumption ==
  /\ MaxAttempts \in Nat \ {0}
  /\ StuckTimeout \in Nat
  /\ MaxReleases \in [Tasks -> Nat]
  /\ None \notin Tasks \cup Pairs

VARIABLES
  status,      \* quote_updates.status, "absent" before the row is inserted
  pairOf,      \* quote_updates.pair
  created,     \* quote_updates.created_at, as a rank; rows may share one
  attempts,    \* quote_updates.attempts
  age,         \* ticks since quote_updates.updated_at, while in progress
  error,       \* quote_updates.error
  quote,       \* quotes.fetched_at of the row's quote, 0 without one
  locked,      \* rows locked by a post that is being answered with them
  posted,      \* the greatest rank given out
  clock,       \* the service's wall clock, as a count of rates received
  pc,          \* where in claimAndProcess a worker is
  claim,       \* the task as ClaimTask returned it: identifier and attempts
  ctx,         \* taskCtx.Err() of the worker
  answer,      \* what FetchRate returned
  fetchedAt,   \* the worker's fetchedAt
  releases     \* history: how often a task was handed back by ReleaseTask

rowVars == <<status, pairOf, created, attempts, age, error, quote, posted>>
workerVars == <<pc, claim, ctx, answer, fetchedAt, clock>>
vars == <<rowVars, locked, workerVars, releases>>

Statuses == {"pending", "in_progress", "done", "failed"}
Terminal == {"done", "failed"}
Reasons == {"unavailable", "unusable", "abandoned"}

(* A rate that parseRate accepted is storable or not: numeric(20,10)       *)
(* refuses one too large and rounds one too small to a zero, which the     *)
(* CHECK on the column refuses.                                            *)
Rates == {"storable", "unstorable"}
FetchErrors == {"unavailable", "unusable"}

NoClaim == [id |-> None, attempts |-> 0]
Holding(w) == pc[w] # "idle"

RowTypeOK ==
  /\ status \in [Tasks -> Statuses \cup {"absent"}]
  /\ pairOf \in [Tasks -> Pairs \cup {None}]
  /\ created \in [Tasks -> Nat]
  /\ attempts \in [Tasks -> Nat]
  /\ age \in [Tasks -> 0..StuckTimeout + 1]
  /\ error \in [Tasks -> Reasons \cup {"none"}]
  /\ quote \in [Tasks -> Nat]
  /\ posted \in Nat
  /\ locked \in SUBSET Tasks
  /\ releases \in [Tasks -> Nat]

WorkerTypeOK ==
  /\ pc \in [Workers -> {"idle", "fetching", "completing", "failing", "releasing"}]
  /\ claim \in [Workers -> [id : Tasks \cup {None}, attempts : Nat]]
  /\ ctx \in [Workers -> {"live", "canceled", "deadline"}]
  /\ answer \in [Workers -> Rates \cup FetchErrors \cup {"none"}]
  /\ fetchedAt \in [Workers -> Nat]
  /\ clock \in Nat
  /\ \A w \in Workers :
       /\ IF Holding(w) THEN claim[w].id \in Tasks ELSE claim[w] = NoClaim
       /\ pc[w] = "completing" => answer[w] \in Rates
       /\ pc[w] = "failing" => answer[w] \in FetchErrors

(* Types, and what a worker carries at each point of claimAndProcess: a    *)
(* claim exactly while it processes one, the answer it is about to record. *)
TypeOK == RowTypeOK /\ WorkerTypeOK
-----------------------------------------------------------------------------
Init ==
  /\ status = [t \in Tasks |-> "absent"]
  /\ pairOf = [t \in Tasks |-> None]
  /\ created = [t \in Tasks |-> 0]
  /\ attempts = [t \in Tasks |-> 0]
  /\ age = [t \in Tasks |-> 0]
  /\ error = [t \in Tasks |-> "none"]
  /\ quote = [t \in Tasks |-> 0]
  /\ locked = {}
  /\ posted = 0
  /\ clock = 0
  /\ pc = [w \in Workers |-> "idle"]
  /\ claim = [w \in Workers |-> NoClaim]
  /\ ctx = [w \in Workers |-> "live"]
  /\ answer = [w \in Workers |-> "none"]
  /\ fetchedAt = [w \in Workers |-> 0]
  /\ releases = [t \in Tasks |-> 0]
-----------------------------------------------------------------------------
(***************************************************************************)
(* Posts.  The partial unique index lets at most one unfinished row exist  *)
(* per pair, and insertTask answers with it when it does.                  *)
(***************************************************************************)
MatchesIndex_PendingOnly(t) == status[t] = "pending"
MatchesIndex(t) == status[t] \in {"pending", "in_progress"}

(* A row appears when its post commits, and carries the instant its        *)
(* transaction began: behind rows that were stamped before it, level with  *)
(* them, or ahead of them.                                                 *)
Post(p) ==
  /\ \A u \in Tasks : pairOf[u] = p => ~MatchesIndex(u)
  /\ \E t \in Tasks, stamp \in 1..posted + 1 :
       /\ status[t] = "absent"
       /\ status' = [status EXCEPT ![t] = "pending"]
       /\ pairOf' = [pairOf EXCEPT ![t] = p]
       /\ created' = [created EXCEPT ![t] = stamp]
       /\ posted' = IF stamp > posted THEN stamp ELSE posted
  /\ UNCHANGED <<attempts, age, error, quote, locked, workerVars, releases>>

AgeAfterConflict_Refreshed(t) == [age EXCEPT ![t] = 0]
AgeAfterConflict(t) == age

(* DO UPDATE SET pair = pair: the row is locked, nothing in it changes.    *)
DeduplicatePost(t) ==
  /\ MatchesIndex(t)
  /\ t \notin locked
  /\ locked' = locked \cup {t}
  /\ age' = AgeAfterConflict(t)
  /\ UNCHANGED <<status, pairOf, created, attempts, error, quote, posted,
                 workerVars, releases>>

(* Commit or rollback: with nothing changed they are the same.             *)
EndPost(t) ==
  /\ t \in locked
  /\ locked' = locked \ {t}
  /\ UNCHANGED <<rowVars, workerVars, releases>>
-----------------------------------------------------------------------------
(***************************************************************************)
(* Claiming.                                                               *)
(***************************************************************************)
Claimable(t) == status[t] = "pending" /\ t \notin locked

ClaimToken_Kept(t) == attempts[t]
ClaimToken(t) == attempts[t] + 1

MarkClaimed(t) ==
  /\ Claimable(t)
  /\ \A u \in Tasks : Claimable(u) => created[t] <= created[u]
  /\ status' = [status EXCEPT ![t] = "in_progress"]
  /\ attempts' = [attempts EXCEPT ![t] = ClaimToken(t)]
  /\ age' = [age EXCEPT ![t] = 0]
  /\ UNCHANGED <<pairOf, created, error, quote, posted, locked, releases>>

ClaimTask(w) ==
  /\ pc[w] = "idle"
  /\ \E t \in Tasks :
       /\ MarkClaimed(t)
       /\ claim' = [claim EXCEPT ![w] = [id |-> t, attempts |-> ClaimToken(t)]]
  /\ pc' = [pc EXCEPT ![w] = "fetching"]
  /\ UNCHANGED <<ctx, answer, fetchedAt, clock>>

(* The statement committed and its answer never arrived: a cancelled       *)
(* context, a lost connection, a dead process.  Nobody holds the task.     *)
ClaimReplyLost(w) ==
  /\ pc[w] = "idle"
  /\ \E t \in Tasks : MarkClaimed(t)
  /\ UNCHANGED workerVars
-----------------------------------------------------------------------------
(***************************************************************************)
(* Processing a claim.                                                     *)
(***************************************************************************)
ToIdle(w) ==
  /\ pc' = [pc EXCEPT ![w] = "idle"]
  /\ claim' = [claim EXCEPT ![w] = NoClaim]
  /\ ctx' = [ctx EXCEPT ![w] = "live"]
  /\ answer' = [answer EXCEPT ![w] = "none"]
  /\ fetchedAt' = [fetchedAt EXCEPT ![w] = 0]
  /\ UNCHANGED clock

(* A cancelled context means this process is leaving: the claim goes back. *)
(* A context past its deadline leaves the task in progress on purpose.     *)
GiveUp(w) ==
  \/ /\ ctx[w] = "canceled"
     /\ pc' = [pc EXCEPT ![w] = "releasing"]
     /\ UNCHANGED <<claim, ctx, answer, fetchedAt, clock>>
  \/ ctx[w] # "canceled" /\ ToIdle(w)

FetchReturns(w) ==
  /\ pc[w] = "fetching"
  /\ ctx[w] = "live"
  /\ \/ \E r \in Rates :
          /\ answer' = [answer EXCEPT ![w] = r]
          /\ fetchedAt' = [fetchedAt EXCEPT ![w] = clock + 1]
          /\ clock' = clock + 1
          /\ pc' = [pc EXCEPT ![w] = "completing"]
     \/ \E e \in FetchErrors :
          /\ answer' = [answer EXCEPT ![w] = e]
          /\ pc' = [pc EXCEPT ![w] = "failing"]
          /\ UNCHANGED <<fetchedAt, clock>>
  /\ UNCHANGED <<rowVars, locked, claim, ctx, releases>>

(* Whatever FetchRate returned, a context that ended decides.              *)
FetchInterrupted(w) ==
  /\ pc[w] = "fetching"
  /\ ctx[w] # "live"
  /\ GiveUp(w)
  /\ UNCHANGED <<rowVars, locked, releases>>

(* The task's deadline passes, wherever the worker is.  Nothing ties it to *)
(* the age the database measures: a worker may still be at work on a task  *)
(* that the recovery pass finds stale.                                     *)
DeadlineFires(w) ==
  /\ pc[w] \in {"fetching", "completing", "failing"}
  /\ ctx[w] = "live"
  /\ ctx' = [ctx EXCEPT ![w] = "deadline"]
  /\ UNCHANGED <<rowVars, locked, pc, claim, answer, fetchedAt, clock, releases>>

(* The process is told to stop while the worker is busy.                   *)
Cancel(w) ==
  /\ pc[w] \in {"fetching", "completing", "failing"}
  /\ ctx[w] = "live"
  /\ releases[claim[w].id] < MaxReleases[claim[w].id]
  /\ ctx' = [ctx EXCEPT ![w] = "canceled"]
  /\ UNCHANGED <<rowVars, locked, pc, claim, answer, fetchedAt, clock, releases>>

(* The process dies: what the worker knew is gone, the rows stay.          *)
Crash(w) ==
  /\ Holding(w)
  /\ ToIdle(w)
  /\ UNCHANGED <<rowVars, locked, releases>>
-----------------------------------------------------------------------------
(***************************************************************************)
(* Finalising.  WHERE id = claim.ID AND status = 'in_progress' AND         *)
(* attempts = claim.Attempts.                                              *)
(***************************************************************************)
Owns_TokenOnly(w) == attempts[claim[w].id] = claim[w].attempts
Owns_StatusOnly(w) == status[claim[w].id] = "in_progress"
Owns(w) ==
  /\ status[claim[w].id] = "in_progress"
  /\ attempts[claim[w].id] = claim[w].attempts

(* Sets the claimed row's status, error and quote; a statement touches the *)
(* row only if no post holds its lock.                                     *)
CloseRow(w, s, e, q) ==
  LET t == claim[w].id IN
    /\ Owns(w)
    /\ t \notin locked
    /\ status' = [status EXCEPT ![t] = s]
    /\ error' = [error EXCEPT ![t] = e]
    /\ quote' = [quote EXCEPT ![t] = q]
    /\ age' = [age EXCEPT ![t] = 0]
    /\ UNCHANGED <<pairOf, created, attempts, posted, locked>>

(* The statement matched no row: the claim is lost and its result void.    *)
ClaimLost(w) ==
  /\ ~Owns(w)
  /\ claim[w].id \notin locked
  /\ ToIdle(w)
  /\ UNCHANGED <<rowVars, locked, releases>>

(* The transaction rolled back: an error of the database, of the           *)
(* connection or of a context that ended.                                  *)
FinaliseFails(w) ==
  /\ GiveUp(w)
  /\ UNCHANGED <<rowVars, locked, releases>>

(* The quote is inserted after the task is closed, in the same             *)
(* transaction: a rate the column refuses takes the closing back with it.  *)
Commits_WithoutQuote(w) ==
  CloseRow(w, "done", "none",
           IF answer[w] = "storable" THEN fetchedAt[w] ELSE 0)
Commits(w) ==
  /\ answer[w] = "storable"
  /\ CloseRow(w, "done", "none", fetchedAt[w])

(* After a commit whose acknowledgement is lost, the worker sees an error. *)
CompleteTask(w) ==
  /\ pc[w] = "completing"
  /\ \/ Commits(w) /\ (ToIdle(w) \/ GiveUp(w)) /\ UNCHANGED releases
     \/ ClaimLost(w)
     \/ FinaliseFails(w)

FailTask(w) ==
  /\ pc[w] = "failing"
  /\ \/ /\ CloseRow(w, "failed", answer[w], quote[claim[w].id])
        /\ ToIdle(w) \/ GiveUp(w)
        /\ UNCHANGED releases
     \/ ClaimLost(w)
     \/ FinaliseFails(w)

(* Under a context of its own; whatever comes of it, the worker is done.   *)
ReleaseTask(w) ==
  /\ pc[w] = "releasing"
  /\ LET t == claim[w].id IN
       \/ /\ CloseRow(w, "pending", error[t], quote[t])
          /\ releases' = [releases EXCEPT ![t] = @ + 1]
       \/ UNCHANGED <<rowVars, locked, releases>>
  /\ ToIdle(w)
-----------------------------------------------------------------------------
(***************************************************************************)
(* Recovery.                                                               *)
(***************************************************************************)
UnderLimit_OneMore(t) == attempts[t] <= MaxAttempts
UnderLimit(t) == attempts[t] < MaxAttempts

Stale == {t \in Tasks : status[t] = "in_progress" /\ age[t] > StuckTimeout}

(* One transaction.  Its cutoff is the instant it began, so rows that      *)
(* became stale since are not among the rows S it takes; it waits for a    *)
(* row a post has locked, and its own rows are nobody else's meanwhile.    *)
RecoveryPass(S) ==
  /\ S # {} /\ S \subseteq Stale
  /\ S \cap locked = {}
  /\ status' = [t \in Tasks |->
       IF t \notin S THEN status[t]
       ELSE IF UnderLimit(t) THEN "pending" ELSE "failed"]
  /\ error' = [t \in Tasks |->
       IF t \in S /\ ~UnderLimit(t) THEN "abandoned" ELSE error[t]]
  /\ age' = [t \in Tasks |-> IF t \in S THEN 0 ELSE age[t]]
  /\ UNCHANGED <<pairOf, created, attempts, quote, posted, locked, workerVars,
                 releases>>

(* Time passes at the database.  Ages past the threshold are alike.        *)
Aging == {t \in Tasks : status[t] = "in_progress" /\ age[t] <= StuckTimeout}

Tick ==
  /\ Aging # {}
  /\ age' = [t \in Tasks |-> IF t \in Aging THEN age[t] + 1 ELSE age[t]]
  /\ UNCHANGED <<status, pairOf, created, attempts, error, quote, posted,
                 locked, workerVars, releases>>
-----------------------------------------------------------------------------
WorkerStep(w) ==
  \/ ClaimTask(w)
  \/ ClaimReplyLost(w)
  \/ FetchReturns(w)
  \/ FetchInterrupted(w)
  \/ DeadlineFires(w)
  \/ Cancel(w)
  \/ Crash(w)
  \/ CompleteTask(w)
  \/ FailTask(w)
  \/ ReleaseTask(w)

Next ==
  \/ \E p \in Pairs : Post(p)
  \/ \E t \in Tasks : DeduplicatePost(t) \/ EndPost(t)
  \/ \E w \in Workers : WorkerStep(w)
  \/ \E S \in SUBSET Stale : RecoveryPass(S)
  \/ Tick

Spec == Init /\ [][Next]_vars

(***************************************************************************)
(* Fairness.  A worker polls, so a task that is claimable again and again  *)
(* is claimed (SKIP LOCKED passes over a row only while a post holds it);  *)
(* the recovery pass ticks, and waits its turn for a row a post has locked *)
(* instead of passing over it; every statement ends, every task has a      *)
(* deadline, every post is over at last.  That a rate arrives, that a      *)
(* worker's statement succeeds or that a process stops is never assumed.   *)
(***************************************************************************)
WorkerEnds(w) == FetchInterrupted(w) \/ CompleteTask(w) \/ FailTask(w) \/ ReleaseTask(w)

Fairness ==
  /\ SF_vars(\E w \in Workers : ClaimTask(w) \/ ClaimReplyLost(w))
  /\ \A t \in Tasks : SF_vars(\E S \in SUBSET Stale : t \in S /\ RecoveryPass(S))
  /\ WF_vars(Tick)
  /\ \A t \in Tasks : WF_vars(EndPost(t))
  /\ \A w \in Workers : WF_vars(DeadlineFires(w)) /\ WF_vars(WorkerEnds(w))

FairSpec == Spec /\ Fairness
-----------------------------------------------------------------------------
(***************************************************************************)
(* What is read: GetTask and GetLatestQuote.                               *)
(***************************************************************************)
Unfinished(t) == status[t] \in {"pending", "in_progress"}

Phase(t) ==
  CASE status[t] = "absent" -> "unknown"
    [] Unfinished(t) -> "waiting"
    [] OTHER -> status[t]

QuotesOf(p) == {t \in Tasks : pairOf[t] = p /\ quote[t] # 0}

(* ORDER BY fetched_at DESC LIMIT 1.                                       *)
GetLatestQuote(p) ==
  IF QuotesOf(p) = {} THEN None
  ELSE CHOOSE t \in QuotesOf(p) : \A u \in QuotesOf(p) : quote[u] <= quote[t]

Promise == INSTANCE QuoteTasks WITH
  phase <- [t \in Tasks |-> Phase(t)],
  latest <- [p \in Pairs |-> GetLatestQuote(p)]
-----------------------------------------------------------------------------
(***************************************************************************)
(* Properties.                                                             *)
(***************************************************************************)

(* GetTask's join: "a quote row exists for precisely the tasks in          *)
(* StatusDone", through refused rates, lost acknowledgements and late      *)
(* finalisations.                                                          *)
QuoteIffDone == \A t \in Tasks : quote[t] # 0 <=> status[t] = "done"

(* A task carries a reason exactly when it failed: a claim lost to the     *)
(* recovery pass and finished by somebody else shows no trace of it.       *)
ErrorIffFailed == \A t \in Tasks : error[t] # "none" <=> status[t] = "failed"

(* The statements that end a claim never leave half of its outcome behind. *)
ResultsWhole == QuoteIffDone /\ ErrorIffFailed

(* quote_updates_unfinished_pair_idx as its users see it: two posts of a   *)
(* pair never wait for two different tasks.                                *)
OneUnfinishedPerPair ==
  \A t, u \in Tasks :
    Unfinished(t) /\ Unfinished(u) /\ pairOf[t] = pairOf[u] => t = u

(* The value of attempts identifies a claim: of all workers that still     *)
(* believe they hold a task, however late, no two bear the same token.     *)
ClaimsDistinct ==
  \A v, w \in Workers :
    Holding(v) /\ Holding(w) /\ claim[v] = claim[w] => v = w

(* The recovery pass bounds the times processing was started, except that  *)
(* a hand-back at shutdown buys one more; and what says "abandoned after   *)
(* N attempts" was not given up on earlier.                                *)
AttemptsBounded ==
  \A t \in Tasks :
    /\ status[t] = "pending" => attempts[t] < MaxAttempts + releases[t]
    /\ attempts[t] <= MaxAttempts + releases[t]
    /\ error[t] = "abandoned" => attempts[t] >= MaxAttempts

(* What a client was told of a finished task is never taken back, by a     *)
(* late worker or by the recovery pass.                                    *)
TerminalIsFinal ==
  [][\A t \in Tasks : status[t] \in Terminal =>
       /\ status'[t] = status[t]
       /\ error'[t] = error[t]
       /\ quote'[t] = quote[t]
       /\ attempts'[t] = attempts[t]]_vars

(* A claimed task leaves its claim in two ways only: its age passed the    *)
(* threshold, or the worker whose claim is the current one acted on it.    *)
OnlyHolderFinishes ==
  [][\A t \in Tasks : status[t] = "in_progress" /\ status'[t] # "in_progress" =>
       \/ t \in Stale
       \/ \E w \in Workers :
            /\ claim[w] = [id |-> t, attempts |-> attempts[t]]
            /\ pc[w] = CASE status'[t] = "done" -> "completing"
                         [] status'[t] = "failed" -> "failing"
                         [] status'[t] = "pending" -> "releasing"]_vars

(* The recovery pass's clock runs from the claim: nothing sets it back     *)
(* while the same claim stands, above all not the posts of a busy pair.    *)
RecoveryClockRuns ==
  [][\A t \in Tasks :
       status[t] = "in_progress" /\ status'[t] = "in_progress" =>
         age'[t] >= age[t]]_vars

(* A rate about to be stored for a task still held is newer than every     *)
(* quote of its pair, so ordering by fetched_at never hides the update a   *)
(* client has just been told is done.                                      *)
NewestRateWins ==
  \A w \in Workers : pc[w] = "completing" /\ Owns(w) =>
    \A u \in Tasks : pairOf[u] = pairOf[claim[w].id] => quote[u] < fetchedAt[w]

(* Behind these: a token is one its row has really given out, no task has  *)
(* been started before it exists, and every stamp lies in the past.        *)
ClaimsStand ==
  /\ \A w \in Workers :
       Holding(w) => claim[w].attempts \in 1..attempts[claim[w].id]
  /\ \A t \in Tasks : status[t] = "absent" => attempts[t] = 0

StampsPast ==
  /\ \A t \in Tasks : quote[t] <= clock
  /\ \A w \in Workers : pc[w] = "completing" => fetchedAt[w] \in 1..clock

(* What the queue and the modules that look closer agree on.  To the       *)
(* passes RecoveryPasses takes apart, the rest of the queue claims rows    *)
(* and ends claims, and a pass is the step it is here.  To the posts       *)
(* KeyedPosts takes apart, a pair has one open row, which workers and      *)
(* passes close and do nothing else to, a claim handed back included.      *)
Recovery == INSTANCE AtomicPasses WITH
  Rows <- Tasks,
  status <- [t \in Tasks |-> IF status[t] = "absent" THEN "pending" ELSE status[t]],
  stale <- Stale

AsPosted == INSTANCE PairTasks WITH
  status <- [t \in Tasks |-> IF Unfinished(t) THEN "open"
                             ELSE IF status[t] = "absent" THEN "absent" ELSE "closed"]

RowsAsAgreed == Recovery!Spec /\ AsPosted!RowsSpec

(* The inductive invariant: together, these survive every step.            *)
IInv ==
  /\ TypeOK
  /\ QuoteIffDone /\ ErrorIffFailed
  /\ OneUnfinishedPerPair
  /\ AttemptsBounded
  /\ ClaimsDistinct /\ ClaimsStand
  /\ StampsPast /\ NewestRateWins

(* The queue keeps the client's promise (safety).                          *)
KeepsPromise == Promise!Safety

(* Every task ends, whatever is lost, cancelled or killed, as long as      *)
(* shutdowns do not hit the same task forever.                             *)
EveryTaskEnds == Promise!EveryTaskEnds

(* README: recovery "gives up on a task claimed WORKER_MAX_ATTEMPTS        *)
(* times", so no task is claimed more often than that.                     *)
ClaimedAtMostMaxAttempts == \A t \in Tasks : attempts[t] <= MaxAttempts
=============================================================================
