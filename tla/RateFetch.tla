------------------------------ MODULE RateFetch ------------------------------
(***************************************************************************)
(* One claimed task and its rate: the client that asks the provider, the   *)
(* retrier around it, and what the worker makes of what comes back.  The   *)
(* deadline of the task, the end of the service, the timeout of an attempt *)
(* and the pauses between attempts all run at once.                        *)
(*                                                                         *)
(* Time is discrete and only waiting takes any.  The retrier's loop is a   *)
(* library's (backoff.Retry), external; its cap on the pause (a minute) is *)
(* above any pause here.                                                   *)
(* A definition named Def_Something is Def with a mistake in it.           *)
(***************************************************************************)
EXTENDS Integers

CONSTANTS
  Attempts,    \* PROVIDER_ATTEMPTS
  Timeout,     \* PROVIDER_TIMEOUT, of one attempt
  Backoff,     \* PROVIDER_BACKOFF, the nominal pause before the second
  TaskTimeout  \* WORKER_TASK_TIMEOUT

(* What Load lets through.                                                 *)
ASSUME ScheduleAssumption ==
  /\ Attempts \in Nat \ {0} /\ Timeout \in Nat \ {0}
  /\ Backoff \in Nat \ {0} /\ TaskTimeout \in Nat \ {0}

VARIABLES
  at,        \* where the call is
  now,       \* time since the deadline of the task was set
  left,      \* what is left of the attempt's timeout, or of the pause
  ctx,       \* the context of the task
  tries,     \* attempts begun
  interval,  \* the nominal pause the schedule has reached
  reply,     \* how the last attempt ended
  err,       \* what FetchRate returned
  task,      \* what the worker does to the task
  faults,    \* history: attempts the provider failed and might not fail again
  ours       \* history: an attempt ended because our own context did

clock == <<now, left>>
history == <<faults, ours>>
vars == <<at, clock, ctx, tries, interval, reply, err, task, history>>

(* Bodies of an answer 200, and the other ends of an attempt: no answer,   *)
(* the timeout, our own context, and statuses that say "not now" (408,     *)
(* 429, 5xx) or "no".                                                      *)
Bodies == {"garbled", "no rate", "null rate", "zero rate", "negative rate",
           "undated", "tiny rate", "rate", "huge rate"}
Upstream == {"lost", "busy", "rejected"} \cup Bodies
Replies == Upstream \cup {"slow", "aborted"}

Waiting == at \in {"calling", "pausing"}

TypeOK ==
  /\ at \in {"calling", "replied", "returned", "pausing", "answered", "over"}
  /\ now \in 0..TaskTimeout /\ left \in Nat
  /\ at = "calling" => left <= Timeout
  /\ ctx \in {"live", "deadline", "canceled"}
  /\ tries \in 1..Attempts /\ interval \in Nat
  /\ reply \in Replies \cup {"none"}
  /\ err \in {"unset", "none", "transient", "permanent", "context"}
  /\ task \in {"fetching", "complete", "unavailable", "unusable", "release", "leave"}
  /\ faults \in Nat /\ ours \in BOOLEAN

Init ==
  /\ at = "calling" /\ now = 0 /\ left = Timeout
  /\ ctx = "live" /\ tries = 1 /\ interval = Backoff
  /\ reply = "none" /\ err = "unset" /\ task = "fetching"
  /\ faults = 0 /\ ours = FALSE
-----------------------------------------------------------------------------
(***************************************************************************)
(* The client.                                                             *)
(***************************************************************************)
Ends(how) ==
  /\ at = "calling"
  /\ at' = "replied" /\ reply' = how
  /\ UNCHANGED <<clock, ctx, tries, interval, err, task, history>>

Answered == \E how \in Upstream : Ends(how)
TimedOut == left = 0 /\ Ends("slow")
Aborted == ctx # "live" /\ Ends("aborted")

(* A null rate decodes into a zero one, with the key present.              *)
parseRate(body) ==
  body \notin {"garbled", "no rate", "undated"}
    /\ body \notin {"null rate", "zero rate", "negative rate"}

(* A transport error is our own context's once that is done, whatever the  *)
(* error says.                                                             *)
Verdict_RetryAll(how, context) ==
  IF how \in Bodies /\ parseRate(how) THEN "none"
  ELSE IF how \in {"lost", "slow", "aborted"} /\ context # "live" THEN "context"
  ELSE "transient"
Verdict(how, context) ==
  IF how \in Bodies /\ parseRate(how) THEN "none"
  ELSE IF how \in {"lost", "slow", "aborted"} /\ context # "live" THEN "context"
  ELSE IF how \in {"lost", "slow", "busy"} THEN "transient"
  ELSE "permanent"

FetchRate ==
  /\ at = "replied"
  /\ at' = "returned" /\ err' = Verdict(reply, ctx)
  /\ faults' = IF reply \in {"lost", "slow", "busy"} THEN faults + 1 ELSE faults
  /\ ours' = (ours \/ reply = "aborted")
  /\ UNCHANGED <<clock, ctx, tries, interval, reply, task>>
-----------------------------------------------------------------------------
(***************************************************************************)
(* The retrier.                                                            *)
(***************************************************************************)
LastTry == tries >= Attempts

(* It returns what the last attempt returned, ...                          *)
GivesUp ==
  /\ at = "returned"
  /\ LastTry \/ err # "transient"
  /\ at' = "answered"
  /\ UNCHANGED <<clock, ctx, tries, interval, reply, err, task, history>>

(* ... pauses for half to one and a half times the nominal pause, which    *)
(* doubles, ...                                                            *)
Pauses_Doubled ==
  /\ at = "returned" /\ err = "transient" /\ ~LastTry /\ ctx = "live"
  /\ at' = "pausing" /\ interval' = 2 * interval
  /\ \E pause \in 0..(2 * interval') :
       /\ interval' <= 2 * pause /\ 2 * pause <= 3 * interval'
       /\ left' = pause
  /\ UNCHANGED <<now, ctx, tries, reply, err, task, history>>
Pauses ==
  /\ at = "returned" /\ err = "transient" /\ ~LastTry /\ ctx = "live"
  /\ at' = "pausing" /\ interval' = 2 * interval
  /\ \E pause \in 0..(2 * interval) :
       /\ interval <= 2 * pause /\ 2 * pause <= 3 * interval
       /\ left' = pause
  /\ UNCHANGED <<now, ctx, tries, reply, err, task, history>>

TriesAgain ==
  /\ at = "pausing" /\ left = 0
  /\ at' = "calling" /\ left' = Timeout /\ tries' = tries + 1
  /\ UNCHANGED <<now, ctx, interval, reply, err, task, history>>

(* ... and returns the context's error when it finds that done, in a pause *)
(* or before one.                                                          *)
Interrupted ==
  /\ ctx # "live"
  /\ at = "pausing" \/ (at = "returned" /\ err = "transient" /\ ~LastTry)
  /\ at' = "answered" /\ err' = "context"
  /\ UNCHANGED <<clock, ctx, tries, interval, reply, task, history>>
-----------------------------------------------------------------------------
(***************************************************************************)
(* The worker: process, with failureReason.                                *)
(***************************************************************************)
Decision_Unasked ==
  IF err = "none" THEN "complete"
  ELSE IF err = "transient" THEN "unavailable" ELSE "unusable"
Decision ==
  IF ctx = "canceled" THEN "release"
  ELSE IF ctx = "deadline" THEN "leave"
  ELSE IF err = "none" THEN "complete"
  ELSE IF err = "transient" THEN "unavailable" ELSE "unusable"

process ==
  /\ at = "answered"
  /\ at' = "over" /\ task' = Decision
  /\ UNCHANGED <<clock, ctx, tries, interval, reply, err, history>>
-----------------------------------------------------------------------------
(***************************************************************************)
(* The contexts and the clock.                                             *)
(***************************************************************************)
ContextEnds(why) ==
  /\ ctx = "live" /\ at # "over"
  /\ ctx' = why
  /\ UNCHANGED <<at, clock, tries, interval, reply, err, task, history>>

Shutdown == ContextEnds("canceled")
Deadline == now >= TaskTimeout /\ ContextEnds("deadline")

Tick ==
  /\ Waiting /\ ctx = "live" /\ left > 0 /\ now < TaskTimeout
  /\ now' = now + 1 /\ left' = left - 1
  /\ UNCHANGED <<at, ctx, tries, interval, reply, err, task, history>>

Next ==
  \/ Answered \/ TimedOut \/ Aborted \/ FetchRate
  \/ GivesUp \/ Pauses \/ TriesAgain \/ Interrupted
  \/ process \/ Shutdown \/ Deadline \/ Tick

Spec == Init /\ [][Next]_vars
-----------------------------------------------------------------------------
(***************************************************************************)
(* Properties.                                                             *)
(***************************************************************************)
(* "provider unavailable after N attempts" is true to the letter: N were   *)
(* made, and the provider failed every one in a way it might not repeat.   *)
ReasonTrue == task = "unavailable" => faults = Attempts /\ tries = Attempts

(* The deadline and the end of the service are never recorded as the       *)
(* provider's failure: such a task goes back or is left in progress.       *)
OursNeverBlamed == task \in {"unavailable", "unusable"} => ~ours /\ err # "context"

(* Half the way to a bound: twice the time the schedule may have used, the *)
(* attempts at their timeout and the pauses at one and a half.             *)
Budget == 2 * (tries * Timeout) + 3 * (interval - Backoff)

(* A task is left in progress for its deadline only, and only a schedule   *)
(* that can outlast the deadline ever meets it: an attempt that hits the   *)
(* provider's timeout is not the deadline of the task.  With the defaults  *)
(* (3 attempts of 3 s, 0.9 s of pauses, against 15 s) none is.             *)
DeadlineEarned == task = "leave" => 2 * TaskTimeout <= Budget

(* No rate the CHECK on quotes.rate refuses as it stands is carried into   *)
(* the transaction that closes the task.  (One that numeric(20,10) cannot  *)
(* hold is: UpdateQueue has what follows.)                                 *)
RatePositive ==
  task = "complete" => reply \in {"tiny rate", "rate", "huge rate"}

(* What the retrier and the client make of the provider's behaviour is     *)
(* what happened, both in the reason a client reads and in the rate.       *)
OutcomeTrue == ReasonTrue /\ RatePositive

(* The inductive invariant.                                                *)
Pace ==
  /\ Backoff <= interval
  /\ 2 * now + (IF Waiting THEN 2 * left ELSE 0) <= Budget

Counted ==
  /\ at \in {"calling", "replied"} => faults = tries - 1
  /\ at \in {"returned", "answered"} /\ err = "transient" => faults = tries
  /\ at = "pausing" => faults = tries /\ tries < Attempts
  /\ at = "answered" /\ err = "transient" => tries = Attempts

Whose ==
  /\ reply = "aborted" \/ ours => ctx # "live"
  /\ at \in {"returned", "answered"} => err # "unset"
  /\ at \in {"returned", "answered"} /\ err = "context" => ctx # "live"
  /\ at \in {"returned", "answered"} /\ err = "none" =>
       reply \in {"tiny rate", "rate", "huge rate"}
  /\ at = "replied" => reply # "none"
  /\ at # "over" => task = "fetching"
  /\ ctx = "deadline" => now = TaskTimeout

IInv ==
  /\ TypeOK /\ Pace /\ Counted /\ Whose
  /\ ReasonTrue /\ OursNeverBlamed /\ DeadlineEarned /\ RatePositive
=============================================================================
