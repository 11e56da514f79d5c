---------------------------- MODULE StuckMargin ----------------------------
(***************************************************************************)
(* What WORKER_STUCK_TIMEOUT is to WORKER_TASK_TIMEOUT: one claim on two   *)
(* clocks.  The database times it from the commit of the claim; the        *)
(* process starts its deadline when the reply to the claim arrives, and    *)
(* neither clock knows the other.  The settings are any that Load accepts. *)
(***************************************************************************)
EXTENDS Settings

CONSTANTS
  Envs,         \* the environments the process may be started in
  ClocksAgree,  \* whether both clocks run alike while a worker works
  Horizon       \* bound: the age at which a row is no longer looked at

ASSUME EnvAssumption ==
  /\ Horizon \in Nat /\ ClocksAgree \in BOOLEAN
  /\ Default \in [NumberNames -> Durations]
  /\ \A env \in Envs : \A name \in NumberNames :
       env[name] \in Durations \/ env[name] \in {Unset, Malformed}
  /\ Unset # Malformed /\ {Unset, Malformed} \cap Durations = {}
  /\ \A name \in DurationNames : Default[name] > 0
  /\ Refused \notin [NumberNames -> Durations]

VARIABLES
  env,     \* the environment
  cfg,     \* what Load returned
  at,      \* where the claim and its worker are
  rowAge,  \* now() - updated_at of the row, by the database
  workAge  \* time since the deadline of the task was set, by the process

clocks == <<rowAge, workAge>>
vars == <<env, cfg, at, clocks>>

Started == at \notin {"starting", "refused"}
TaskTimeout == cfg["WORKER_TASK_TIMEOUT"]
StuckTimeout == cfg["WORKER_STUCK_TIMEOUT"]

(* Types; and no worker works past its deadline.                           *)
TypeOK ==
  /\ env \in Envs
  /\ at \in {"starting", "refused", "idle", "claimed", "working", "committed",
             "left", "robbed", "recovered"}
  /\ rowAge \in 0..Horizon /\ workAge \in 0..Horizon
  /\ Started => cfg \in [NumberNames -> Durations] /\ cfg = Load(env)
  /\ at \in {"starting", "idle", "claimed"} => workAge = 0
  /\ at \in {"working", "left", "robbed", "committed"} => workAge <= TaskTimeout

Init ==
  /\ env \in Envs
  /\ cfg = Refused
  /\ at = "starting"
  /\ rowAge = 0 /\ workAge = 0

(* run: a configuration that is refused ends the process.                  *)
Start ==
  /\ at = "starting"
  /\ cfg' = Load(env)
  /\ at' = IF cfg' = Refused THEN "refused" ELSE "idle"
  /\ UNCHANGED <<env, clocks>>

ClaimCommits ==
  /\ at = "idle"
  /\ at' = "claimed"
  /\ UNCHANGED <<env, cfg, clocks>>

(* claimAndProcess: the deadline is set once the claim is known.           *)
ReplyArrives ==
  /\ at = "claimed"
  /\ at' = "working"
  /\ UNCHANGED <<env, cfg, clocks>>

(* The statement that closes the task runs under the deadline.             *)
Finalise ==
  /\ at = "working"
  /\ at' = "committed"
  /\ UNCHANGED <<env, cfg, clocks>>

Due == workAge = TaskTimeout

(* "task deadline exceeded, left in progress"                              *)
GiveUp ==
  /\ at = "working"
  /\ Due
  /\ at' = "left"
  /\ UNCHANGED <<env, cfg, clocks>>

(* ReleaseStuckTasks: robbed is a worker that was still within its time.   *)
Stale == rowAge > StuckTimeout

Recover ==
  /\ at \in {"claimed", "working", "left"}
  /\ Stale
  /\ at' = IF at = "left" THEN "recovered" ELSE "robbed"
  /\ UNCHANGED <<env, cfg, clocks>>

(* Time passes for both clocks alike, or for one of them alone: while the  *)
(* reply travels, and, unless they agree, when the process is stopped or a *)
(* clock is set.                                                           *)
Tick ==
  /\ at \in {"claimed", "working", "left"}
  /\ \E row, work \in {0, 1} :
       /\ rowAge + row <= Horizon
       /\ work = 1 => at = "working" /\ ~Due /\ workAge < Horizon
       /\ at = "working" /\ ClocksAgree => row = work
       /\ rowAge' = rowAge + row
       /\ workAge' = workAge + work
  /\ UNCHANGED <<env, cfg, at>>

Next ==
  \/ Start \/ ClaimCommits \/ ReplyArrives \/ Finalise \/ GiveUp
  \/ Recover \/ Tick

Spec == Init /\ [][Next]_vars
-----------------------------------------------------------------------------
(***************************************************************************)
(* Properties.                                                             *)
(***************************************************************************)
(* Beyond some 146 years twice the deadline wraps around, and check lets   *)
(* any threshold pass.                                                     *)
Overflow == 2 * TaskTimeout >= Half

(* stuckTimeoutMargin: "erring low takes tasks away from workers that are  *)
(* still alive".  Twice the deadline buys this: the recovery pass takes a  *)
(* task from a worker within its time only if the database has counted     *)
(* more than a whole deadline that the worker has not, in the reply of the *)
(* claim and in the clocks together.                                       *)
MarginHolds == at = "robbed" => rowAge - workAge > TaskTimeout \/ Overflow

(* durationFromEnv and check: "Go reads a non-positive timeout as no       *)
(* timeout at all".  A process that runs has every timeout, and a handler  *)
(* that runs out of time has Margin left to answer in.                     *)
NoTimeoutDisabled ==
  Started =>
    /\ \A name \in DurationNames : cfg[name] > 0
    /\ HandlerTimeout(cfg["HTTP_WRITE_TIMEOUT"]) \in
         1..cfg["HTTP_WRITE_TIMEOUT"] - Margin

(* The inductive invariant.                                                *)
IInv == TypeOK /\ (at = "robbed" => rowAge > StuckTimeout)
=============================================================================
