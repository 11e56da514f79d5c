# currency-quotes-service in TLA+

The service answers `POST /quotes/updates` with the identifier of a task, has a
pool of workers fetch the rate from an upstream provider, and serves the stored
result. It keeps its whole state in Postgres; nothing is handed from one
goroutine to another except a wake-up signal. What makes it correct is therefore
in a few SQL statements and in how the workers, the recovery pass and the posts
use them — at the same time, from several processes, with answers lost and
processes killed in between. That is what these modules model.

## Inventory

| Component | State | Operations | Interacts with |
|---|---|---|---|
| Update queue — `repository.go`, `migrations/` | rows of `quote_updates`, `quotes` | insertTask, ClaimTask, CompleteTask, FailTask, ReleaseTask, ReleaseStuckTasks, GetTask, GetLatestQuote | workers and posts, through row locks |
| Idempotent posts — `repository.go` (CreateTask with a key) | `idempotency_keys`, an open transaction | fast path, insert, bind, commit, rollback, replay | the queue (same rows), other posts (key) |
| Worker pool — `worker/worker.go` | claim, context, answer, fetchedAt | claimAndProcess, process, fail, finalisationFailed, release; the wait of Run | queue, provider, wake signal, shutdown |
| Recovery pass — `worker/recovery.go` | a ticker | pass | queue |
| Service — `service/service.go` | a channel of one slot | CreateTask + notify, reads | queue, workers |
| Provider client and retrier — `provider/` | the retry schedule of one call | FetchRate, parseRate, statusError | workers |
| HTTP API — `api/` | one request and its deadline | handlers, requestTimeout, recoverPanic, error mapping | service |
| Configuration — `config/config.go` | none after Load | Load, check, HandlerTimeout | everything, at startup |
| Lifecycle — `main.go` | errgroup, signal context, pool | run, shutdown | all goroutines |
| Domain — `domain/` | none | ParsePair | API, schema |
| Generated contract, OpenAPI, build files | none | — | — |

What is hard, by component, and what makes it correct:

* **Queue and workers.** A claim's row lock ends with the statement, so a task is
  protected by its status and its `attempts` alone. Workers finish late, are
  cancelled, run past their deadline, die, or lose the answer to a claim or a
  commit. Correct means: one unfinished task per pair; a result is recorded by
  the worker whose claim stands or not at all; outcomes are whole (quote exactly
  with `done`, reason exactly with `failed`) and final; the newest quote is the
  one of the last task done; every task ends.
* **Recovery.** Age stands in for "nobody holds this". Correct means: its clock
  is never set back while a claim stands, it bounds the starts of a task, and
  it ends what is lost.
* **Idempotent posts.** Posts race for a key after both missed the fast path;
  bindings expire between two reads of the clock. Correct means: an answer given
  under a key stands for a lifetime, a keyed post's task shows with its key or not
  at all, nobody waits forever.
* **Wake signal.** The channel says that there is work, not how much; signals are
  dropped, spent on a locked row, or lost with a failed claim. Correct means: no
  dropped signal leaves the pool asleep as a whole on a task it was told of; where a
  signal is spent for nothing, the poll interval finds the task; no post waits for a worker; every worker returns
  at the shutdown.
* **Recovery passes of several processes.** A pass is two statements that lock rows
  one by one and look at each again. Correct means: what a pass commits is one
  step, a claim is ended once, and deadlocks between passes only delay it.
* **Provider client and retrier.** Attempt timeouts, pauses, the task's deadline and
  the shutdown run at once and come back as similar errors. Correct means: what is
  recorded as the provider's failure is the provider's, a task is left in progress
  only when its deadline was really spent, and no unusable rate is carried on.
* **HTTP API.** A handler may panic, run out of time or lose its client at any
  point, under four layers of middleware. Correct means: one answer, the one the
  log has, in time for a client that stays; nothing holds a request open.
* **Configuration.** Durations are checked one by one and in two relations, in
  arithmetic that wraps around. Correct means: what is accepted disables no timeout
  and keeps recovery away from workers that are still within their time.
* **Lifecycle.** Goroutines end in any order, by a signal or by a failure. Correct
  means: the pool outlives every claim, a clean exit has answered everybody, requests in
  flight get the whole time the shutdown has, and a process told to stop ends.
* **Domain.** A pair is compared as text. Correct means: one spelling of each.

`PROJECT.json` lists every component with its status, and every hazard at the
line where it bites with the properties that watch it.

## Modules

**`UpdateQueue`** — queue, workers and recovery together. A row is
`status[t], pairOf[t], created[t], attempts[t], age[t], error[t], quote[t]`;
`age` is the time since `updated_at` of a row in progress, which is all the code
uses that column for; `quote` is the `fetched_at` of the row in `quotes`.
A worker is `pc[w], claim[w], ctx[w], answer[w], fetchedAt[w]`, the locals of
`claimAndProcess`. One statement or transaction of the repository is one step:

| Code | Actions |
|---|---|
| `insertTask` | `Post` (new row), `DeduplicatePost` / `EndPost` (met an unfinished row and keeps it locked until its statement, or its transaction, is over) |
| `ClaimTask` | `ClaimTask`, `ClaimReplyLost` (committed, answer lost) |
| `process` up to the answer | `FetchReturns`, `FetchInterrupted`, with `DeadlineFires` and `Cancel` changing `ctx` at any point |
| `CompleteTask`, `FailTask`, `finalisationFailed` | `CompleteTask`, `FailTask`: commits, commits with the acknowledgement lost, finds the claim stale, or fails without effect |
| `release` | `ReleaseTask` |
| `ReleaseStuckTasks` | `RecoveryPass(S)`, for any non-empty set of stale rows (its cutoff is the start of its transaction, which later stale rows miss) |
| database time, a dying process | `Tick`, `Crash` |

Choices worth knowing: `created_at` is the start of a transaction, so a row may
appear behind rows inserted before it, and `Post` lets it. A rate is `storable`
or not: `parseRate` accepts values `numeric(20,10)` refuses. Nothing relates a
worker's deadline to the staleness threshold; the margin `config.go` demands only
makes a theft less likely (`StuckMargin` says by how much), and no property may rest on it. A connection closed by
a cancelled context may leave a statement running at the server: that is the same
as a worker staying longer at its statement, which the model allows anyway.

**`QuoteTasks`** — what a client is promised, with no queue, worker or clock: a
task waits, then ends once, and the latest quote of a pair is that of the task
done last. `UpdateQueue` instantiates it as `Promise`, mapping `phase` to what
GetTask tells and `latest` to what GetLatestQuote returns.

**`KeyedPosts`** — any number of concurrent calls of `CreateTask`, statement by
statement: `LookUp` (fast path), `Begin` (fixes `now()` of the transaction),
`InsertTask`, `BindKey` (bound, taken over, or refused), `Commit`, `Rollback`,
`ReplayByKey`; `PostUnkeyed`, a post without a key, whose insert is a transaction of its
own; `Abort` for an error, deadline or crash anywhere. `Commit` and `PostUnkeyed` may
lose their acknowledgement: what they wrote stands, and the client is told of an error. A row written by an open transaction is
`uncommitted`: others do not see it but wait for it, as they do for the row a
transaction met and for the key it has bound or been refused by. Workers and
recovery passes appear as `CloseTasks` only, which may close several rows in one
transaction. `started`, `began` and `since` keep the three instants whose
differences matter: when a request came, when its transaction began, and the age
of what it was told.

**`AtomicPosts`** — what a post is to everybody else: it asks (`Arrive`), and in one step
makes or finds its task, binds its key and is answered (`PostUnkeyed`, `PostKeyed`), or is
answered from the binding that is there (`Replay`), finds it expired (`LosesKey`) or fails
before it had any effect (`Fail`). A post that had its effect may be told of an error all
the same; the client cannot tell the two apart. For a post with a key the retry does, for
one without nothing does. The lifetime of a key counts from some instant between arrival
and answer. `KeyedPosts` instantiates it as `Atomic`: a row that is not committed is
absent (`Shown`), and a request between arrival and answer is waiting (`Phase`).

**`PairTasks`** — what posts and the queue have in common, the rows as a post sees them:
`OpenTask` opens one for a pair that has none open, `CloseTasks` closes any number for
good. `AtomicPosts` is built on it, and `UpdateQueue` instantiates it as `AsPosted`, where
an unfinished row is open and a terminal one closed, so a claim and a hand-back change
nothing.

**`WakeSignal`** — `Service.CreateTask`, `notify` and the loop of `Worker.Run`. Of a
row it keeps the status and the lock, since SKIP LOCKED makes a worker go away
from a row that is merely locked. `Requests` are the posts of all processes and `Here`
those that reach this one: all of them insert, meet and lock rows, and a post of another
process signals the workers of that one only.

| Code | Actions |
|---|---|
| `CreateTask` | `InsertTask` (with its answer lost: `InsertUnanswered`), `MeetTask`, then `ReturnTask` or, for a post refused its key, `Refuse` (an unfinished row, locked meanwhile), `ReplayTask` (by key, at once or after a refusal), `PostFails` |
| `notify` | `Notify`: as in Go, a signal goes to a goroutine that is receiving, else into the free slot, else it is dropped |
| `ClaimTask` within `Run` | `PickTask` (locks), then `ClaimCommits` or `ClaimErrs`; `NothingFound` |
| the loop | `Again` (loop condition, evaluated whenever a worker comes round), `AfterTask`, `AfterError`, `Finish` |
| the select | `Select` (takes the signal that is there, or parks), `Poll`, `Stop` |
| workers of other processes, the recovery pass | `PickElsewhere` / `ClaimElsewhere` / `FailElsewhere`, `PutBack`, `CloseElsewhere` |

The state between "found nothing" and "receiving" (`selecting`) is where a signal
finds nobody. `owed` is a history variable: the pending tasks that were signalled and
whose signal nothing may have swallowed since. Four things may: a claim here that
failed; a worker here that passed over the row while a post or a worker of another
process had it locked; and a post here that had the row locked and was refused its key,
or failed. None of them is followed by a signal to this process. A lock held by another
claim or another answered post of this process is not among them: the one comes round
again, the other signals. Which claimable row a worker gets is left open; the order by `created_at` is in
`UpdateQueue`.

**`RecoveryPasses`** — `ReleaseStuckTasks` taken apart: `Begin` (a snapshot of the rows
that are stale), `Visit(p, r)` (locks a row once it is free and looks at it again, as
READ COMMITTED does), `SecondStatement`, `Finished`, `Commit`; `Rollback` behind
`Fails` (an error, the shutdown, a death) and `DeadlockVictim`. Each process runs one
pass at a time; a worker that ends its claim, late or not, is `CompleteTask`, `FailTask` or
`ReleaseTask` (the hand-back of a shutdown), and then `WorkerCommits`.
New statuses are in `new` until the commit, and `owner` is the row lock.

**`AtomicPasses`** — what a recovery pass is to everybody else: committed rows that are
claimed, grow stale (several at once, when the clock moves), and are ended by their
holder (`Finalise`: done, failed or handed back) or by `Pass(S)`, one step for any set of
stale rows. `RecoveryPasses` instantiates it as `Atomic`, on the committed `status`,
`attempts` and `stale` as they are; `UpdateQueue` as `Recovery`, where a row not inserted
yet counts as one nobody has claimed and `stale` is what the ages say.

**`Deadlines`**, **`Settings`**, **`StuckMargin`** — `Deadlines` has durations of a fixed
width (`Wrap`) and `HandlerTimeout`; `Settings` has `Load` and `Check` as functions of
the environment, where a variable is unset, malformed or a number; `StuckMargin`
starts a process with any environment and follows one claim on two clocks:

| Code | Actions |
|---|---|
| `config.Load` and `check`, `run` | `Start` (refused, or running with what was accepted) |
| `ClaimTask`, the reply, `context.WithTimeout` | `ClaimCommits` (the database's clock starts), `ReplyArrives` (the process's clock starts) |
| `process` and the statement that closes the task | `Finalise`, `GiveUp` at the deadline |
| `ReleaseStuckTasks` | `Recover`: `recovered` if the worker had given up, `robbed` if it was within its time |
| both clocks | `Tick`, which moves either or both |

**`RateFetch`** — one call of `FetchRate` through the retrier, and what `process` makes
of the result.

| Code | Actions |
|---|---|
| one attempt | `Answered` (every kind of reply, each body `parseRate` tells apart), `TimedOut`, `Aborted` |
| `fetch`, `parseRate`, `statusError` | `FetchRate`, with `Verdict`: a rate, transient, permanent, or the context's error |
| `Retrier.FetchRate` | `GivesUp`, `Pauses` (any pause from half to one and a half times the nominal one, which doubles), `TriesAgain`, `Interrupted` |
| `process`, `failureReason` | `process`, with `Decision`: complete, unavailable, unusable, release, leave |
| the contexts | `Deadline`, `Shutdown`, `Tick` |

**`HttpRequest`** — one request of any of the three routes. `Bind` (with every error the
binder has, and what `writeParamError` makes of it), `ReadBody`, `Parse`, `ServiceReturns`,
`Panic`, `Reply`, `Encode` are the handler; `Unwind` is one layer of `Middleware` on the
way out (`recoverPanic`, `requestTimeout`, `accessLog`, `requestID`, innermost first, as
`NewRouter` nests them); `Finish` is net/http, which writes nothing past the write
timeout. `ClientLeaves`, `Cancel`, `Expire` and `Tick` happen around them. The class of
a parameter stands for its text: `fit`, `malformed`, `missing`, or `repeated`.

**`PairText`** — `ParsePair` on a text as a sequence of symbols: words of three letters
in either case, a slash, anything else. Of a request `HttpRequest` knows only whether
its pair parses; **`QuoteRequest`** puts the texts behind that, and `OneSpelling` is about
what a handler about to parse one will make of it.

**`Lifecycle`** — `run`: `Start` / `StartFails`, the listener (`Listen`, `ListenFails`), the
goroutine that shuts the server down (`BeginShutdown`, `ShutdownDone`, `ShutdownTime`,
`ShutdownFails`), workers (`Claim` … `Return`), the recovery pass, requests (`Arrive`,
`Query`, `QueryEnds`, `Answer`), `Signal`, and, once `group.Wait` returns, `ClosePool` and
`Exit`. Of workers and requests it keeps whether they hold a connection or a claim.

How the modules fit together: `UpdateQueue` takes a recovery pass and a post for one step
each; `RecoveryPasses` and `KeyedPosts` take them apart and reduce the rest of the queue to
the little they need of it. Both directions are shown. `RecoveryPasses` implements
`AtomicPasses` and `KeyedPosts` implements `AtomicPosts`, so what they take apart is one step
after all; and `UpdateQueue` implements `AtomicPasses` and `PairTasks` as they do
(`RowsAsAgreed`), so all give one account of what may happen to a row. `RateFetch` gives `UpdateQueue` its answers (its `Decision` is where
`FetchReturns` and `FetchInterrupted` go); `WakeSignal` and `KeyedPosts` look closer at the
post and the idle worker that `UpdateQueue` lets act at any time; `UpdateQueue` implements
`QuoteTasks`; `StuckMargin` and `HttpRequest` share `Deadlines`. All of these
implementations are run and proved.

`UpdateQueueProofs`, `RecoveryPassesProofs`, `KeyedPostsProofs`, `WakeSignalProofs`,
`StuckMarginProofs`, `HttpRequestProofs`, `LifecycleProofs` and `RateFetchProofs` hold the
theorems. The MC modules add symmetry and the environments TLC starts with. A definition
named `Def_Something` is `Def` with a plausible mistake; replacing `Def` by it breaks
the property `PROJECT.json` names with it.

## Runs

| Run | Bounds | What it shows |
|---|---|---|
| `queue_pair` | 2 tasks, 1 pair, 2 workers, limit 2, threshold 1 tick, 1 hand-back | `ResultsWhole`, `ClaimsDistinct`, `AttemptsBounded`, `OneUnfinishedPerPair`, `NewestRateWins`, `TerminalIsFinal`, `OnlyHolderFinishes`, `RecoveryClockRuns`; the queue implements `QuoteTasks` (`KeepsPromise`), `AtomicPasses` and `PairTasks` (`RowsAsAgreed`) |
| `queue_ends` | 2 tasks, 2 pairs, 1 worker, limit 2, 1 hand-back of one of the tasks | `EveryTaskEnds`, through lost claims, retries, a shutdown's hand-back and posts that lock the row |
| `queue_limit` | 1 task, limit 1 | **violated**: see Findings |
| `posts_race` | 3 requests, 3 tasks, 2 pairs, 1 key, lifetime 1, clock to 2 | `AnswerStands`, `AnswerFresh`, `LiveBindingKept`, `NobodysTask`, `UnboundOnlyByAge`, `NoCircleOfWaits`; posts implement `AtomicPosts` (`PostsAreAtomic`) |
| `wake_drain` | 2 rows, 2 workers, 4 requests, 1 of them another process's | `SignalKept`: the pool never sleeps as a whole on a signalled task, the four exceptions apart |
| `wake_signal` | 2 rows, 1 worker, 3 requests, 1 of them another process's | `SignalledTaskTaken` without any poll, `EveryTaskTaken` with polls, `PostsAnswered`, `PoolStops` |
| `stuck_margin` | durations of 4 bits, every pair of the two timeouts, every other setting out of range in turn | `MarginHolds`, `NoTimeoutDisabled` |
| `http_answers` | durations of 5 bits, write timeout 6, margin 2; texts of up to 5 symbols | `OneAnswer`, `LogTellsAnswer`, `StayingClientAnswered`, `RequestEnds`, `OneSpelling` |
| `http_params` | as above | **violated**: see Findings |
| `life_exit` | 2 workers, 2 requests | `PoolOutlivesClaims`, `CleanExitWhole`, `InFlightFinish`, `ProcessEnds` |
| `fetch_tight` | 3 attempts of 3 ticks, pause 2, deadline 10 | `OutcomeTrue`, `OursNeverBlamed`, `DeadlineEarned` |
| `passes_atomic` | 2 passes, 2 rows, limit 2, 1 fault | `EndedOnce`, `ClaimsEnd`; passes implement `AtomicPasses` (`PassesAreAtomic`) |

Why the bounds are enough for the cases to happen: two workers and two starts of one
task already give a late worker beside a new holder with every order of their
statements; a second task of the pair gives an older quote to be hidden; a
threshold of one tick distinguishes fresh, at the boundary, and stale. Two
lifetimes of a binding and three posts give a holder, a refused post and a
take-over between refusal and replay. Two rows, two workers and two signals are
what it takes for one slot to be too small; with one worker the burst has to be
drained by the worker that woke. Two passes and two rows are the smallest deadlock.
The deadline of `fetch_tight` lies inside the schedule (18 ticks at most), so it falls
into every attempt and every pause. Four bits of duration wrap within the settings
tried. Five symbols are two more than a pair has.

What stops the counters: `MaxReleases`, a number for each task, keeps a busy task from
being cancelled again once it was handed back that often, which makes `attempts` finite
(`EachOnce`, or `OneOnce` where liveness makes two hand-backs too many states); `MaxNow` stops the clock
of `KeyedPosts`, `Horizon` those of `StuckMargin` and `HttpRequest`; in `WakeSignal` a request
posts once and a row is put back once (`backs`); `MaxFaults` bounds failing passes and
the hand-backs of `RecoveryPasses`. The
wall clock of `UpdateQueue` counts rates received: **one monotone clock for all
processes** is an assumption of `NewestRateWins` and `KeepsPromise` that the code makes
too.

Deadlock is checked in `passes_atomic`, the module about locks: rows come back to the
queue, so some step is always possible. In the others the system may stop (identifiers used up,
requests answered, the process gone), and `NoCircleOfWaits` says for posts what a
deadlock check would: while one of them is not answered, one of them is `Ready`, held
by no lock, and whoever is ready can go on without a failure.

**Fairness.** `UpdateQueue.FairSpec`: workers poll every interval, so a claim that
is possible again and again is made (strong fairness over all workers, because
SKIP LOCKED passes over a row while a post holds it). The recovery pass ticks and
waits for locked rows instead of skipping them: strong fairness per row. Time
passes; a deadline fires; a statement ends, with or without success; a post's
transaction ends. Not assumed: that a rate arrives, that a worker's statement
succeeds, that a process survives or stops.

`WakeSignal.SignalFairness` says that goroutines that can go on do and that statements
end, with an error or not, in this process and in the others; the poll interval may last
forever. `EveryTaskTaken` adds
`PollFairness` as its own hypothesis: that the interval ends, and that a claim which can
be picked or committed again and again sometimes is. Without it a database that always
fails at the wrong moment keeps any task waiting, as would posts that lock a row whenever
a worker looks (in `WakeSignal` the posts are finitely many); `EveryTaskEnds` rests on the same.

`RecoveryPasses.Fairness`: every process keeps running passes, PostgreSQL hands a lock
that is let go to a waiter (strong fairness per pass and row) and breaks deadlocks;
workers leave and rows age. `HttpRequest.FairSpec`: the handler's own steps run, the
deadline fires, a service whose context has ended returns, and a body that does not
come runs into the read timeout; nothing is assumed of a service whose context is
live. `Lifecycle.Fairness`: goroutines run, statements end, a provider call ends with
its context and a handler with its deadline, time passes. Nothing makes a signal come.

## Findings

`queue_limit`: README.md:121-123 of the repository says recovery gives up on a
task claimed `WORKER_MAX_ATTEMPTS` times. A task on its last permitted attempt
whose worker is shut down is put back by `ReleaseTask` and claimed once more, so
it can be claimed more often, once per such shutdown. What does hold, and is
proved, is `AttemptsBounded`: the limit plus one per hand-back.

`http_params`: errors.go:71-72 says the spec can produce nothing that the switch over
parameter names does not cover, and errors.go:38-40 that a missing, a malformed and
an unsupported pair are one answer. The generated binder reports a `pair` sent more than
once as InvalidParamFormatError for "pair" (contract.gen.go:389-390); the switch knows
only `id` and `Idempotency-Key`, so the client is told 500 `internal_error` where the
spec has 400 `invalid_pair`.

Smaller observations, without a run of their own:

* config.go compares the staleness threshold with twice the task deadline, a product
  that wraps around beyond some 146 years and then lets any threshold pass;
  `MarginHolds` excepts it (`Overflow`).
* config.go:78 says the deadline "covers the whole path from the claim to the
  finalising commit". It is set after the reply to the claim has arrived
  (worker.go:119-123), so the row is older than the deadline knows; this is the
  difference `MarginHolds` is about.
* worker_test.go:737-738 expects an idle worker to claim a posted task at once. Two
  posts that meet a pool just about to wait leave one signal, so one worker takes a
  task and the other waits out its interval beside the second. The drop is deliberate
  (service.go:45-46); what holds, and is proved, is `SignalKept`.
* A signal can be spent for nothing without any failure. A worker woken for a row finds
  it locked by a post of another process (repository.go:199-205), which notifies only its
  own channel; or by a keyed post of this process that is refused, rolls back and replays
  a task long closed (repository.go:125-157), after which nobody is notified. The worker
  waits again, and the poll interval takes the task (`EveryTaskTaken`).
* A post without a key is one autocommitted insert (repository.go:68-70, 207-210). If its
  commit is not acknowledged the client is told of an error, and there is a task nobody
  was told of, which the next post of the pair is answered with. repository.go:64-66
  rules such a task out for posts with a key; for those it holds (`NobodysTask`).
* A signal during the start cancels the context the ping runs under (main.go:44-53,
  repository.go:33-46), so `run` returns the ping's error: a process told to stop before it
  is up logs "service stopped with error" and exits with 1 (`StartFails`).
* No check relates HTTP_READ_TIMEOUT to HTTP_WRITE_TIMEOUT. A body that is awaited
  past the handler's deadline can leave its client without an answer;
  `StayingClientAnswered` has the relation as a hypothesis (`InTime`).
* `attempts` is a smallint: after 32767 starts of one task, which takes as many
  shutdowns, a claim would fail. The models leave the width out.

## Proofs

All proofs are for every value of the constants, under the named assumptions of the
modules, which say what `Load` lets through or that a marker is not a datum. Each
module's type invariant (`Typing`) and inductive invariant (`Invariance`) are proved
from `Init`, `Next` and nothing else; the other theorems follow from the latter.

**`UpdateQueueProofs`** (`QueueAssumption`: limits are naturals, the attempt limit is
positive, `None` is no task and no pair) — `OutcomesWhole`, `Deduplicated`,
`TokensDistinct`, `StartsBounded`, `NewestRate`, and the action properties `TerminalForever`,
`HolderFinishes`, `RecoveryClock`. Why the strengthening: `ClaimsDistinct` alone is not
inductive, since a claim could equal a token some late worker already bears;
`ClaimsStand` adds that every token held was given out by its row (`1..attempts`), so
that the next one is new. `NewestRateWins` needs `StampsPast` (no quote is younger than
the clock), `OneUnfinishedPerPair` (nobody else can publish for the pair while the claim
stands) and `ClaimsStand` again (a row taken away does not come back under the old
token). `QuoteIffDone` needs `StampsPast` so that what is committed is a quote at all.
The proof sorts steps by what they do: `RowInv*` lemmas by their effect on rows, `Keeps`
for the many steps after which each worker keeps or drops its claim, and one lemma per
action for `IInv`.

`Implementation` is that the queue implements `QuoteTasks` (`KeepsPromise`).
`GetLatestQuote` is a CHOOSE, which says something only where a
pair with quotes has one fetched after all others: neither that a greatest `fetched_at`
exists (the rows are not assumed finite) nor that only one row bears it is given. So
`LatestExists` is a second invariant, kept by `NewestRateWins`: what a commit stores is
newer than everything of its pair. Each action is then a step of the promise
(`PostAsks`, `CommitSucceeds`, `FailuresGiveUp`) or invisible (`QuietSteps`).
`RowsAgree` is `RowsAsAgreed`: a claim, a finalisation, a tick and a pass are each the step
of `AtomicPasses` of that kind, a post and what ends a task are steps of `PairTasks`, and
the rest changes neither. It takes `ClaimsStand` (a row is inserted with no attempts, as
one nobody has claimed).

**`RecoveryPassesProofs`** (`PassesAssumption`: the attempt limit is positive, and the two
markers of `owner` are no passes) — `ClaimsEndedOnce` and `Implementation`, that any
number of passes, row by row, implement `AtomicPasses` (`PassesAreAtomic`). A pass locks a
row long after its snapshot and commits long after that lock, and the abstract pass must
find its rows in progress and stale at the commit. `LocksProtect` carries that over the
gap: what is written and not committed was written to a claim that stands, because the
row was looked at when its lock was taken and nobody else writes it since;
`StalenessStands`: a cutoff covers only claims still stale, since a row that is taken or
completed leaves every cutoff with its claim, and a new claim is younger than all of them.
A worker's claim stands while it is alive and, once it has written, while it has the
lock, whichever of the three ends it wrote.
`CommitIsPass` and `CommitIsFinalise` then give the two steps that show; every other step
changes no committed row, or is the abstract step of the same name.

**`WakeSignalProofs`** — `SignalStands`. The strengthening is `HoldersApart`: a row is held
by one worker at most, so that no statement changes a row another worker is claiming,
and `TypeOK`'s clause that a signal lies in the channel only while nobody waits for
one — which is why dropping a second signal is harmless. The case that needs care is a
worker that finds nothing: a row that is still owed is then locked by a post here, which
is about to signal or to give up the debt (`InHand`), or by a claim of another worker,
who comes round again.

**`KeyedPostsProofs`** — `AnswersStand`, `AnswersFresh`, `AnswersFit`, `OneOpen`,
`BindingsLive`, `UnboundByAge`, `TasksReported`; `Implementation`, that posts implement
`AtomicPosts` (`PostsAreAtomic`); `SomebodyReady` and `NoStepTwice`. The strengthening says what each lock
protects. `PairHeld`: a transaction that has its task holds the pair alone and the task
is still unfinished, which no other post or worker can change; a row not committed
belongs to such a transaction. `KeyHeld`: one that is about to commit still may bind,
because nobody else can commit under the key, and one that was refused still would be,
because a binding only gets younger. `Asked`: the instants of a request are in order.
From these, a commit either writes a key nobody had or takes over one that was a
lifetime old when the transaction began, and `AnswerStands` survives it.
In the refinement the commit is the step that shows (`Commit` of a transaction that made
its row publishes it, one that met a row finds it still open, by `PairHeld`), the
lifetime counts from `began`, which `Asked` puts between arrival and answer, and a
rollback takes back only a row nobody was shown. A post without a key shows at its one
statement, answered or not. `TasksReported` is that the row of a keyed post shows in the
step that binds its key to it. `SomebodyReady` is why locks never form a
circle: who holds a key waits for nothing, who holds a pair waits for a key only, and who
waits for a pair holds nothing. Its hypotheses say that the database has an identifier
for every request (`Cardinality(Requests) <= Cardinality(Tasks)`, both finite): UUIDs do
not run out. That one is left for whoever still needs it is counted: by `Makers`, an
invariant of its own, every row that is there was made by a request of its own, so with
every identifier taken the rows would map one to one into the requests without the one
that waits (`IdentifierLeft`, by the pigeonhole principle). `NoStepTwice` gives a measure that
every step of a post decreases: a refused post replays and never binds again. With both,
posts all end if ready ones go on. `RowsAgree` is the other half of the agreement with
`UpdateQueue`: to whoever reads committed rows, posts keep to `PairTasks`.

**`StuckMarginProofs`** — `MarginStands` and `TimeoutsStand`, for every environment and
any two clocks. The invariant is that a worker robbed within its time had a row older
than the threshold; what `Check` demands of it, with `Wrap` unfolded, does the rest:
`2 * TaskTimeout < Half` does not wrap.

**`HttpRequestProofs`** — `AnswersOnce`, `LogStands`, `ClientAnswered`. `AnswerFollows` says
where each answer can come from and which layer has been passed: that nothing is out
before the service has returned, that a panic is caught by the first layer, and that
from the access log on the answer is settled. `Paced` says that within the margin the
write timeout has not passed. `SpelledOnce` is about texts of any length:
`ParsePairExact` says what the parser returns for every one of them. `strings.Cut`
takes the first slash; that there is a first one among the slashes of a text is
`LeastExists`, by the well-ordering of the naturals, since induction is not available.

**`LifecycleProofs`** — `PoolStands`, `ExitWhole`, `RequestsFinish`. `Ended` says that the pool
is closed only over a group whose goroutines have all returned, and that a server that
has stopped waiting has nobody in flight, or has used its whole time and left an error in
the group. So a request is failed by a closed pool, or cut off by the exit, only after
that time, whether a signal or another goroutine's failure began the shutdown.

**`RateFetchProofs`** — `OutcomeStands`, `BlameStands`, `DeadlineStands`. `Pace` is a budget:
the time used and the time still granted never exceed the attempts at their timeout
and the pauses at one and a half of nominal; doubling the interval pays for the pause
(`PauseFits`). `Counted` ties the faults to the tries, `Whose` knows our own context's
end for what it is.

Model-checked only: the eight liveness properties (`EveryTaskEnds`, `SignalledTaskTaken`,
`EveryTaskTaken`, `PostsAnswered`, `PoolStops`, `RequestEnds`, `ProcessEnds`, `ClaimsEnd`),
which rest on fairness; and the half of `NoCircleOfWaits` that says a ready post can take
its next step, which is about ENABLED. Every other property of a passing run is the
conclusion of a theorem.

## Not modelled

* `contract.gen.go` beyond its three binders: types, their JSON encoding and the
  registration of routes keep no state.
* `dto.go`, logging and its levels, `handleHealth`: conversions and constants. The
  counting of failed polls decides only what is logged.
* net/http, pgx, errgroup, the backoff library and PostgreSQL (planner, locks,
  deadlock detection), modelled as the code uses them; the library's cap of a minute
  on a pause, above any pause of the schedules meant.
* Reads (`GetTask`, `GetLatestQuote`) have no actions: they are the refinement mapping
  of `UpdateQueue`, what a client would be told in each state.
* Image, compose file, linters: no behaviour of the program.
