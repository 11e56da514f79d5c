--------------------------- MODULE LifecycleProofs ---------------------------
(***************************************************************************)
(* Theorems about Lifecycle, for any number of workers and requests.       *)
(***************************************************************************)
EXTENDS Lifecycle, TLAPS

(* A process that has not started keeps the invariant.                     *)
LEMMA InitIInv == Init => IInv
BY DEF Init, IInv, TypeOK, Ended, InFlightFinish, InFlight

(* run: its start, the signal, the group and the deferred Close.           *)
LEMMA RunIInv ==
  ASSUME IInv, Signal \/ Start \/ StartFails \/ ClosePool \/ Exit
  PROVE  IInv'
<1> USE DEF IInv, TypeOK, Ended, InFlightFinish, InFlight, group, server
<1>1. CASE Signal BY <1>1 DEF Signal, GroupDone
<1>2. CASE Start BY <1>2 DEF Start, GroupDone
<1>3. CASE StartFails BY <1>3 DEF StartFails, GroupDone
<1>4. CASE ClosePool BY <1>4 DEF ClosePool, Running, GroupDone
<1>5. CASE Exit BY <1>5 DEF Exit, GroupDone, Using
<1> QED BY <1>1, <1>2, <1>3, <1>4, <1>5

(* The server: the listener and the goroutine that calls Shutdown.         *)
LEMMA ServerIInv ==
  ASSUME IInv,
         Listen \/ ListenFails \/ BeginShutdown \/ ShutdownDone
           \/ ShutdownTime \/ ShutdownFails
  PROVE  IInv'
<1> USE DEF IInv, TypeOK, Ended, InFlightFinish, InFlight, GroupDone, group
<1>1. CASE Listen BY <1>1 DEF Listen, Running
<1>2. CASE ListenFails BY <1>2 DEF ListenFails, Running, Fails
<1>3. CASE BeginShutdown BY <1>3 DEF BeginShutdown, Running
<1>4. CASE ShutdownDone BY <1>4 DEF ShutdownDone
<1>5. CASE ShutdownTime BY <1>5 DEF ShutdownTime
<1>6. CASE ShutdownFails BY <1>6 DEF ShutdownFails, ShutdownOver, Fails
<1> QED BY <1>1, <1>2, <1>3, <1>4, <1>5, <1>6

(* The requests the server has in hand.                                    *)
LEMMA RequestIInv ==
  ASSUME IInv, NEW r \in Requests, Arrive(r) \/ Serve(r)
  PROVE  IInv'
<1> USE DEF IInv, TypeOK, Ended, InFlightFinish, InFlight, GroupDone, group, server
<1>1. CASE Arrive(r) BY <1>1 DEF Arrive, Running
<1>2. CASE Query(r) BY <1>2 DEF Query
<1>3. CASE QueryEnds(r) BY <1>3 DEF QueryEnds
<1>4. CASE Answer(r) BY <1>4 DEF Answer
<1> QED BY <1>1, <1>2, <1>3, <1>4 DEF Serve

(* The workers; one that has returned does not move again.                 *)
LEMMA WorkerIInv ==
  ASSUME IInv, NEW w \in Workers, Claim(w) \/ Work(w)
  PROVE  IInv'
<1>1. /\ worker[w] # "returned" /\ main \in {"waiting", "closing"}
      /\ worker' \in [Workers -> {"idle", "claiming", "fetching", "finalising",
                                  "releasing", "returned"}]
      /\ UNCHANGED <<main, pool, group, server, recovery, request>>
  <2>1. ASSUME NEW from, NEW to, Moves(w, from, to), "returned" \notin from,
               to \in {"idle", "claiming", "fetching", "finalising",
                       "releasing", "returned"}
        PROVE  /\ worker[w] # "returned" /\ main \in {"waiting", "closing"}
               /\ worker' \in [Workers -> {"idle", "claiming", "fetching",
                                  "finalising", "releasing", "returned"}]
               /\ UNCHANGED <<main, pool, group, server, recovery, request>>
    BY <2>1 DEF Moves, IInv, TypeOK
  <2>2. CASE Claim(w) BY <2>1, <2>2 DEF Claim
  <2>3. CASE ClaimEnds(w) BY <2>1, <2>3 DEF ClaimEnds
  <2>4. CASE Finalise(w) \/ Leave(w) BY <2>1, <2>4 DEF Finalise, Leave
  <2>5. CASE Release(w) \/ Released(w) BY <2>1, <2>5 DEF Release, Released
  <2>6. CASE Return(w) BY <2>1, <2>6 DEF Return
  <2> QED BY <2>2, <2>3, <2>4, <2>5, <2>6 DEF Work
<1>2. ~GroupDone /\ pool # "unopened" /\ main = "waiting"
  BY <1>1 DEF GroupDone, IInv, Ended
<1> QED
  BY <1>1, <1>2 DEF IInv, TypeOK, Ended, InFlightFinish, InFlight, group, server

(* The recovery pass.                                                      *)
LEMMA RecoveryIInv ==
  ASSUME IInv, Pass \/ PassEnds \/ RecoveryReturns
  PROVE  IInv'
<1>1. /\ main = "waiting" /\ recovery' \in {"idle", "passing", "returned"}
      /\ UNCHANGED <<main, pool, group, server, worker, request>>
  BY DEF Pass, PassEnds, RecoveryReturns, Recover, Running
<1>2. pool = "open"
  BY <1>1 DEF IInv, Ended
<1> QED
  BY <1>1, <1>2 DEF IInv, TypeOK, Ended, InFlightFinish, InFlight, group, server

(* The invariant is inductive.                                             *)
LEMMA NextIInv == IInv /\ [Next]_vars => IInv'
<1> SUFFICES ASSUME IInv, [Next]_vars PROVE IInv'
  OBVIOUS
<1>1. CASE UNCHANGED vars
  BY <1>1 DEF vars, group, server, IInv, TypeOK, Ended, InFlightFinish, InFlight,
              GroupDone
<1>2. CASE Next
  BY <1>2, RunIInv, ServerIInv, RequestIInv, WorkerIInv, RecoveryIInv DEF Next
<1> QED BY <1>1, <1>2

(* The inductive invariant: how far run has come settles who may still be  *)
(* at work, and a request cut short is always on the group's account.      *)
THEOREM Invariance == Spec => []IInv
BY InitIInv, NextIInv, PTL DEF Spec

(* The variables keep their types.                                         *)
THEOREM Typing == Spec => []TypeOK
<1>1. IInv => TypeOK BY DEF IInv
<1> QED BY Invariance, <1>1, PTL

(* No worker holds a claim, and neither a worker nor the recovery pass a   *)
(* connection, once the deferred Close has begun.                          *)
THEOREM PoolStands == Spec => []PoolOutlivesClaims
<1>1. IInv => PoolOutlivesClaims
  BY DEF IInv, TypeOK, Ended, GroupDone, PoolOutlivesClaims, Claimed, Using
<1> QED BY Invariance, <1>1, PTL

(* A process that ends without an error has answered all it took.          *)
THEOREM ExitWhole == Spec => []CleanExitWhole
<1>1. IInv => CleanExitWhole
  BY DEF IInv, TypeOK, Ended, GroupDone, CleanExitWhole, InFlight
<1> QED BY Invariance, <1>1, PTL

(* No request in flight is failed or cut before its time: a closed pool    *)
(* and the end of run come after Shutdown, which gives up on requests only *)
(* when its own context is done.                                           *)
THEOREM RequestsFinish == Spec => []InFlightFinish
<1>1. IInv => InFlightFinish BY DEF IInv
<1> QED BY Invariance, <1>1, PTL
=============================================================================
