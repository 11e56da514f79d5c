------------------------------ MODULE Lifecycle ------------------------------
(***************************************************************************)
(* How the process starts and ends: run in main.go, with its group of      *)
(* goroutines (the listener, the workers, the recovery pass and the one    *)
(* that shuts the server down), the requests the server has in hand, and   *)
(* the connection pool they all share, closed after the group.             *)
(*                                                                         *)
(* http.Server, errgroup and pgxpool are external, modelled as run uses    *)
(* them.  A definition named Def_Something is Def with a mistake in it.    *)
(***************************************************************************)
CONSTANTS
  Workers,  \* goroutines of the pool
  Requests  \* bound: the requests the process ever receives

VARIABLES
  main,      \* where run is
  pool,      \* the connection pool
  canceled,  \* the context of the group is done
  failure,   \* the group holds an error
  listener,  \* ListenAndServe
  closer,    \* the goroutine that waits for the context and calls Shutdown
  timeUp,    \* SHUTDOWN_TIMEOUT has passed since
  worker,    \* where each worker is
  recovery,  \* where the recovery pass is
  request    \* where each request is

group == <<canceled, failure>>
server == <<listener, closer, timeUp>>
vars == <<main, pool, group, server, worker, recovery, request>>

(* Who has a connection of the pool in hand; and who a claim.              *)
Using ==
  {w \in Workers : worker[w] \in {"claiming", "finalising", "releasing"}}
  \cup {r \in Requests : request[r] = "querying"}
  \cup {g \in {"recovery"} : recovery = "passing"}

Claimed == {w \in Workers : worker[w] \in {"fetching", "finalising", "releasing"}}

TypeOK ==
  /\ main \in {"starting", "waiting", "closing", "exited"}
  /\ pool \in {"unopened", "open", "closing", "closed"}
  /\ canceled \in BOOLEAN /\ failure \in BOOLEAN
  /\ timeUp \in {FALSE, closer # "waiting"}
  /\ listener \in {"new", "listening", "returned"}
  /\ closer \in {"waiting", "shutting", "returned"}
  /\ worker \in [Workers -> {"idle", "claiming", "fetching", "finalising",
                             "releasing", "returned"}]
  /\ recovery \in {"idle", "passing", "returned"}
  /\ request \in [Requests -> {"none", "active", "querying", "over", "failed", "cut"}]

Init ==
  /\ main = "starting" /\ pool = "unopened"
  /\ canceled = FALSE /\ failure = FALSE
  /\ listener = "new" /\ closer = "waiting" /\ timeUp = FALSE
  /\ worker = [w \in Workers |-> "idle"]
  /\ recovery = "idle"
  /\ request = [r \in Requests |-> "none"]
-----------------------------------------------------------------------------
(***************************************************************************)
(* run.                                                                    *)
(***************************************************************************)
Signal ==
  /\ main # "exited" /\ ~canceled
  /\ canceled' = TRUE
  /\ UNCHANGED <<main, pool, failure, server, worker, recovery, request>>

Start ==
  /\ main = "starting"
  /\ main' = "waiting" /\ pool' = "open"
  /\ UNCHANGED <<group, server, worker, recovery, request>>

(* The settings, the database, or a signal: it cancels the context the     *)
(* ping runs under, and run returns the ping's error.  A process that is   *)
(* told to stop before it is up ends as one that failed.                   *)
StartFails ==
  /\ main = "starting"
  /\ main' = "exited"
  /\ failure' = TRUE
  /\ UNCHANGED <<pool, canceled, server, worker, recovery, request>>

Running == main = "waiting"

(* The first error of a goroutine cancels the rest.                        *)
Fails_Alone == failure' = TRUE /\ UNCHANGED canceled
Fails == failure' = TRUE /\ canceled' = TRUE

GroupDone_OnCancel == canceled
GroupDone ==
  /\ listener = "returned" /\ closer = "returned" /\ recovery = "returned"
  /\ \A w \in Workers : worker[w] = "returned"

(* The deferred Close: from now on nobody gets a connection, ...           *)
ClosePool ==
  /\ Running /\ GroupDone
  /\ main' = "closing" /\ pool' = "closing"
  /\ UNCHANGED <<group, server, worker, recovery, request>>

(* ... and it waits for those that are in use.                             *)
Exit ==
  /\ main = "closing"
  /\ Using = {}
  /\ main' = "exited" /\ pool' = "closed"
  /\ request' = [r \in Requests |->
                   IF request[r] = "active" THEN "cut" ELSE request[r]]
  /\ UNCHANGED <<group, server, worker, recovery>>
-----------------------------------------------------------------------------
(***************************************************************************)
(* The server.                                                             *)
(***************************************************************************)
(* A listener that starts after Shutdown finds it called.                  *)
Listen ==
  /\ Running /\ listener = "new"
  /\ listener' = IF closer = "waiting" THEN "listening" ELSE "returned"
  /\ UNCHANGED <<main, pool, group, closer, timeUp, worker, recovery, request>>

ListenFails ==
  /\ Running /\ listener \in {"new", "listening"} /\ closer = "waiting"
  /\ listener' = "returned"
  /\ Fails
  /\ UNCHANGED <<main, pool, closer, timeUp, worker, recovery, request>>

(* Shutdown closes the listener, which returns ErrServerClosed, ...        *)
BeginShutdown ==
  /\ Running /\ canceled /\ closer = "waiting"
  /\ closer' = "shutting"
  /\ listener' = IF listener = "listening" THEN "returned" ELSE listener
  /\ UNCHANGED <<main, pool, group, timeUp, worker, recovery, request>>

(* A connection that has sent nothing yet counts as a request: the server  *)
(* waits for it, too, for a while.                                         *)
InFlight == {r \in Requests : request[r] \in {"active", "querying"}}

(* ... waits until no request is in flight, ...                            *)
ShutdownDone ==
  /\ closer = "shutting" /\ InFlight = {}
  /\ closer' = "returned"
  /\ UNCHANGED <<main, pool, group, listener, timeUp, worker, recovery, request>>

ShutdownTime ==
  /\ closer = "shutting" /\ ~timeUp
  /\ timeUp' = TRUE
  /\ UNCHANGED <<main, pool, group, listener, closer, worker, recovery, request>>

(* ... or until its own context is done, which does not inherit the        *)
(* cancellation.                                                           *)
ShutdownOver_Inherited == timeUp \/ canceled
ShutdownOver == timeUp

ShutdownFails_Quietly ==
  /\ closer = "shutting" /\ InFlight # {} /\ ShutdownOver
  /\ closer' = "returned"
  /\ UNCHANGED <<main, pool, group, listener, timeUp, worker, recovery, request>>
ShutdownFails ==
  /\ closer = "shutting" /\ InFlight # {} /\ ShutdownOver
  /\ closer' = "returned"
  /\ Fails
  /\ UNCHANGED <<main, pool, listener, timeUp, worker, recovery, request>>

(* A request arrives; over a connection kept open, also while Shutdown     *)
(* waits.                                                                  *)
Arrive(r) ==
  /\ Running /\ request[r] = "none"
  /\ listener = "listening" \/ closer = "shutting"
  /\ request' = [request EXCEPT ![r] = "active"]
  /\ UNCHANGED <<main, pool, group, server, worker, recovery>>

(* It takes a connection, is refused one by a pool that is closed, or      *)
(* gives it back; a closed pool still finishes what it handed out.         *)
Query(r) ==
  /\ main # "exited" /\ request[r] = "active"
  /\ request' = [request EXCEPT ![r] = IF pool = "open" THEN "querying" ELSE "failed"]
  /\ UNCHANGED <<main, pool, group, server, worker, recovery>>

QueryEnds(r) ==
  /\ request[r] = "querying"
  /\ request' = [request EXCEPT ![r] = "active"]
  /\ UNCHANGED <<main, pool, group, server, worker, recovery>>

Answer(r) ==
  /\ main # "exited" /\ request[r] = "active"
  /\ request' = [request EXCEPT ![r] = "over"]
  /\ UNCHANGED <<main, pool, group, server, worker, recovery>>
-----------------------------------------------------------------------------
(***************************************************************************)
(* The workers and the recovery pass.                                      *)
(***************************************************************************)
Moves(w, from, to) ==
  /\ main \in {"waiting", "closing"}
  /\ worker[w] \in from
  /\ worker' = [worker EXCEPT ![w] = to]
  /\ UNCHANGED <<main, pool, group, server, recovery, request>>

Claim(w) == ~canceled /\ Moves(w, {"idle"}, "claiming")
ClaimEnds(w) == Moves(w, {"claiming"}, "fetching") \/ Moves(w, {"claiming"}, "idle")
Finalise(w) == Moves(w, {"fetching"}, "finalising")
Leave(w) == Moves(w, {"fetching", "finalising"}, "idle")
Release(w) == canceled /\ Moves(w, {"fetching", "finalising"}, "releasing")
Released(w) == Moves(w, {"releasing"}, "idle")
Return(w) == canceled /\ Moves(w, {"idle"}, "returned")

Recover(from, to) ==
  /\ Running /\ recovery = from /\ recovery' = to
  /\ UNCHANGED <<main, pool, group, server, worker, request>>

Pass == ~canceled /\ Recover("idle", "passing")
PassEnds == Recover("passing", "idle")
RecoveryReturns == canceled /\ Recover("idle", "returned")
-----------------------------------------------------------------------------
Work(w) ==
  \/ ClaimEnds(w) \/ Finalise(w) \/ Leave(w) \/ Release(w) \/ Released(w)
  \/ Return(w)

Serve(r) == Query(r) \/ QueryEnds(r) \/ Answer(r)

Next ==
  \/ Signal \/ Start \/ StartFails \/ ClosePool \/ Exit
  \/ Listen \/ ListenFails \/ BeginShutdown \/ ShutdownDone
  \/ ShutdownTime \/ ShutdownFails
  \/ \E r \in Requests : Arrive(r) \/ Serve(r)
  \/ \E w \in Workers : Claim(w) \/ Work(w)
  \/ Pass \/ PassEnds \/ RecoveryReturns

Spec == Init /\ [][Next]_vars

(* Every goroutine runs, every statement ends, a provider call ends with   *)
(* its context, a handler at its deadline, and time passes.                *)
Fairness ==
  /\ WF_vars(Start \/ StartFails) /\ WF_vars(ClosePool) /\ WF_vars(Exit)
  /\ WF_vars(Listen) /\ WF_vars(BeginShutdown)
  /\ WF_vars(ShutdownDone \/ ShutdownFails) /\ WF_vars(ShutdownTime)
  /\ \A r \in Requests : WF_vars(QueryEnds(r)) /\ SF_vars(Answer(r))
  /\ \A w \in Workers :
       /\ WF_vars(ClaimEnds(w)) /\ WF_vars(Leave(w) \/ Release(w))
       /\ WF_vars(Released(w)) /\ WF_vars(Return(w))
  /\ WF_vars(PassEnds) /\ WF_vars(RecoveryReturns)

FairSpec == Spec /\ Fairness
-----------------------------------------------------------------------------
(***************************************************************************)
(* Properties.                                                             *)
(***************************************************************************)
(* "A pool closed while a worker still holds a connection would fail the   *)
(* very finalisation the shutdown is waiting for": nothing but a request   *)
(* that outlived the shutdown ever meets a closed pool.                    *)
PoolOutlivesClaims ==
  pool # "open" =>
    Claimed = {} /\ Using \subseteq {r \in Requests : request[r] = "querying"}

(* "service stopped" and the status 0 are the word of a process that has   *)
(* answered every request it took.                                         *)
CleanExitWhole ==
  main = "exited" /\ ~failure =>
    \A r \in Requests : request[r] \in {"none", "over"}

(* "Otherwise Shutdown would abort in-flight requests instead of letting   *)
(* them finish": whatever ends the process, a signal or the failure of a   *)
(* goroutine, a request it has taken is neither refused a connection nor   *)
(* cut off before the whole SHUTDOWN_TIMEOUT was given to it.              *)
InFlightFinish ==
  \A r \in Requests : request[r] \in {"failed", "cut"} => timeUp

(* The inductive invariant.                                                *)
Ended ==
  /\ main = "starting" =>
       /\ pool = "unopened" /\ listener = "new" /\ closer = "waiting"
       /\ recovery = "idle" /\ \A w \in Workers : worker[w] = "idle"
       /\ \A r \in Requests : request[r] = "none"
  /\ main \in {"closing", "exited"} => GroupDone \/ pool = "unopened"
  /\ main = "waiting" => pool = "open"
  /\ main = "closing" => pool = "closing"
  /\ main = "exited" => pool \in {"unopened", "closed"}
  /\ pool = "unopened" =>
       /\ main = "starting" \/ (main = "exited" /\ failure)
       /\ recovery = "idle" /\ \A w \in Workers : worker[w] = "idle"
       /\ \A r \in Requests : request[r] = "none"
  /\ closer = "returned" => (failure /\ timeUp) \/ InFlight = {}
  /\ closer = "returned" => listener # "listening"
  /\ closer = "shutting" => listener # "listening"
  /\ \A r \in Requests : request[r] \in {"failed", "cut"} => failure

IInv == TypeOK /\ Ended /\ InFlightFinish

(* "The first error of any goroutine in the group cancels the rest", and a *)
(* signal all of them: the process ends.                                   *)
ProcessEnds == (canceled \/ failure) ~> (main = "exited")
=============================================================================
