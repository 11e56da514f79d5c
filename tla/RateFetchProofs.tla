--------------------------- MODULE RateFetchProofs ---------------------------
(***************************************************************************)
(* Theorems about RateFetch, for any schedule and any deadline.            *)
(***************************************************************************)
EXTENDS RateFetch, TLAPS

(* The first attempt keeps the invariant.                                  *)
LEMMA InitIInv == Init => IInv
<1> SUFFICES ASSUME Init PROVE IInv
  OBVIOUS
<1> USE ScheduleAssumption DEF Init
<1>1. TypeOK
  <2>1. 1 \in 1..Attempts /\ 0 \in 0..TaskTimeout /\ Timeout \in Nat /\ Backoff \in Nat
    OBVIOUS
  <2>2. left <= Timeout
    BY <2>1
  <2> QED BY <2>1, <2>2 DEF TypeOK
<1>2. Pace
  <2>1. Waiting /\ tries * Timeout = Timeout
    BY DEF Waiting
  <2> QED BY <2>1 DEF Pace, Budget
<1>3. Counted /\ Whose BY DEF Counted, Whose
<1> QED
  BY <1>1, <1>2, <1>3
     DEF IInv, ReasonTrue, OursNeverBlamed, DeadlineEarned, RatePositive

(* What an attempt comes to: accepted, transient, permanent or our own.    *)
LEMMA Verdicts ==
  ASSUME NEW how, NEW context
  PROVE  /\ Verdict(how, context) \in {"none", "transient", "permanent", "context"}
         /\ Verdict(how, context) = "none" =>
              how \in {"tiny rate", "rate", "huge rate"}
         /\ Verdict(how, context) = "transient" => how \in {"lost", "slow", "busy"}
         /\ Verdict(how, context) = "context" => context # "live"
BY DEF Verdict, parseRate, Bodies

(* The client.                                                             *)
LEMMA ClientIInv ==
  ASSUME IInv, Answered \/ TimedOut \/ Aborted \/ FetchRate
  PROVE  IInv'
<1> USE ScheduleAssumption DEF IInv, clock, history
<1>1. CASE Answered \/ TimedOut \/ Aborted
  <2>1. PICK how \in Replies : Ends(how) /\ (how = "aborted" => ctx # "live")
    <3>1. CASE Answered BY <3>1 DEF Answered, Replies, Upstream, Bodies
    <3>2. CASE TimedOut BY <3>2 DEF TimedOut, Replies
    <3>3. CASE Aborted BY <3>3 DEF Aborted, Replies
    <3> QED BY <1>1, <3>1, <3>2, <3>3
  <2>2. TypeOK' BY <2>1 DEF Ends, TypeOK
  <2>3. Pace' BY <2>1 DEF Ends, TypeOK, Pace, Budget, Waiting
  <2>4. Counted' BY <2>1 DEF Ends, TypeOK, Counted
  <2>5. Whose'
    BY <2>1 DEF Ends, TypeOK, Whose, Replies, Upstream, Bodies
  <2> QED
    BY <2>1, <2>2, <2>3, <2>4, <2>5
       DEF Ends, Whose, ReasonTrue, OursNeverBlamed, DeadlineEarned, RatePositive
<1>2. CASE FetchRate
  <2>1. TypeOK'
    <3>1. err' \in {"none", "transient", "permanent", "context"}
      BY <1>2, Verdicts DEF FetchRate
    <3>2. faults' \in Nat
      BY <1>2 DEF FetchRate, TypeOK
    <3>3. ours' \in BOOLEAN
      BY <1>2, Zenon DEF FetchRate, TypeOK
    <3> QED BY <1>2, <3>1, <3>2, <3>3 DEF FetchRate, TypeOK
  <2>2. Pace' BY <1>2 DEF FetchRate, TypeOK, Pace, Budget, Waiting
  <2>3. Counted'
    <3>1. err' = "transient" => reply \in {"lost", "slow", "busy"}
      BY <1>2, Verdicts DEF FetchRate
    <3> QED BY <1>2, <3>1 DEF FetchRate, TypeOK, Counted
  <2>4. Whose' BY <1>2, Verdicts DEF FetchRate, TypeOK, Whose
  <2> QED
    BY <1>2, <2>1, <2>2, <2>3, <2>4
       DEF FetchRate, Whose, ReasonTrue, OursNeverBlamed, DeadlineEarned, RatePositive
<1> QED BY <1>1, <1>2

(* A pause of one and a half times the interval fits what doubling the     *)
(* interval adds to the budget.                                            *)
LEMMA PauseFits ==
  ASSUME NEW n \in Int, NEW pause \in Int, NEW used \in Int, NEW i \in Int,
         NEW b \in Int,
         2 * n <= 2 * used + 3 * (i - b), 2 * pause <= 3 * i
  PROVE  2 * n + 2 * pause <= 2 * used + 3 * (2 * i - b)
OBVIOUS

(* The retrier.                                                            *)
LEMMA RetrierIInv ==
  ASSUME IInv, GivesUp \/ Pauses \/ TriesAgain \/ Interrupted
  PROVE  IInv'
<1> USE ScheduleAssumption DEF IInv, clock, history, LastTry
<1>1. CASE GivesUp
  <2>1. TypeOK' BY <1>1 DEF GivesUp, TypeOK
  <2>2. Pace' BY <1>1 DEF GivesUp, TypeOK, Pace, Budget, Waiting
  <2>3. Counted' BY <1>1 DEF GivesUp, TypeOK, Counted
  <2>4. Whose' BY <1>1 DEF GivesUp, TypeOK, Whose
  <2> QED
    BY <1>1, <2>1, <2>2, <2>3, <2>4
       DEF GivesUp, Whose, ReasonTrue, OursNeverBlamed, DeadlineEarned, RatePositive
<1>2. CASE Pauses
  <2>1. TypeOK' BY <1>2 DEF Pauses, TypeOK
  <2>2. Pace'
    <3>1. /\ interval' = 2 * interval /\ left' \in Nat /\ 2 * left' <= 3 * interval
          /\ now' = now /\ tries' = tries /\ at = "returned"
      BY <1>2 DEF Pauses, TypeOK
    <3>2. 2 * now <= 2 * (tries * Timeout) + 3 * (interval - Backoff)
      <4>1. ~Waiting /\ tries * Timeout \in Int
        BY <3>1 DEF Waiting, TypeOK
      <4> QED BY <4>1 DEF Pace, Budget, TypeOK
    <3>3. tries * Timeout \in Int
      BY DEF TypeOK
    <3>4. Budget' = 2 * (tries * Timeout) + 3 * (2 * interval - Backoff)
      BY <3>1 DEF Budget
    <3>5. 2 * now' + 2 * left' <= Budget'
      <4>1. PICK used \in Int : used = tries * Timeout
        BY <3>3
      <4>2. /\ 2 * now <= 2 * used + 3 * (interval - Backoff)
            /\ Budget' = 2 * used + 3 * (2 * interval - Backoff)
            /\ now' = now
        BY <3>1, <3>2, <3>4, <4>1
      <4>3. now \in Int /\ interval \in Int /\ left' \in Int /\ Backoff \in Int
        BY <3>1 DEF TypeOK
      <4>4. 2 * now + 2 * left' <= 2 * used + 3 * (2 * interval - Backoff)
        BY <3>1, <4>1, <4>2, <4>3, PauseFits
      <4> QED BY <4>2, <4>4
    <3>6. Waiting' /\ Backoff <= interval'
      BY <1>2, <3>1 DEF Pauses, Waiting, TypeOK, Pace
    <3> QED BY <3>5, <3>6 DEF Pace
  <2>3. Counted' BY <1>2 DEF Pauses, TypeOK, Counted
  <2>4. Whose' BY <1>2 DEF Pauses, TypeOK, Whose
  <2> QED
    BY <1>2, <2>1, <2>2, <2>3, <2>4
       DEF Pauses, Whose, ReasonTrue, OursNeverBlamed, DeadlineEarned, RatePositive
<1>3. CASE TriesAgain
  <2>1. TypeOK' BY <1>3 DEF TriesAgain, TypeOK, Counted
  <2>2. Pace'
    <3>1. tries' * Timeout = tries * Timeout + Timeout
      BY <1>3 DEF TriesAgain, TypeOK
    <3>2. tries * Timeout \in Int
      BY DEF TypeOK
    <3> QED BY <1>3, <3>1, <3>2 DEF TriesAgain, TypeOK, Pace, Budget, Waiting
  <2>3. Counted' BY <1>3 DEF TriesAgain, TypeOK, Counted
  <2>4. Whose' BY <1>3 DEF TriesAgain, TypeOK, Whose
  <2> QED
    BY <1>3, <2>1, <2>2, <2>3, <2>4
       DEF TriesAgain, Whose, ReasonTrue, OursNeverBlamed, DeadlineEarned, RatePositive
<1>4. CASE Interrupted
  <2>1. TypeOK' BY <1>4 DEF Interrupted, TypeOK
  <2>2. Pace'
    <3>1. tries * Timeout \in Int
      BY DEF TypeOK
    <3> QED BY <1>4, <3>1 DEF Interrupted, TypeOK, Pace, Budget, Waiting
  <2>3. Counted' BY <1>4 DEF Interrupted, TypeOK, Counted
  <2>4. Whose' BY <1>4 DEF Interrupted, TypeOK, Whose
  <2> QED
    BY <1>4, <2>1, <2>2, <2>3, <2>4
       DEF Interrupted, Whose, ReasonTrue, OursNeverBlamed, DeadlineEarned, RatePositive
<1> QED BY <1>1, <1>2, <1>3, <1>4

(* The worker's decision.                                                  *)
LEMMA WorkerIInv == ASSUME IInv, process PROVE IInv'
<1> USE ScheduleAssumption DEF IInv, clock, history
<1>1. TypeOK' BY DEF process, Decision, TypeOK
<1>2. Pace' BY DEF process, TypeOK, Pace, Budget, Waiting
<1>3. Counted' BY DEF process, TypeOK, Counted
<1>4. Whose' BY DEF process, TypeOK, Whose
<1>5. ReasonTrue' BY DEF process, Decision, TypeOK, Counted, ReasonTrue
<1>6. OursNeverBlamed' BY DEF process, Decision, TypeOK, Whose, OursNeverBlamed
<1>7. DeadlineEarned'
  <2>1. ~Waiting /\ tries * Timeout \in Int /\ Budget' = Budget
    BY DEF process, Waiting, TypeOK, Budget
  <2>2. 2 * now <= Budget
    BY <2>1 DEF Pace, Budget, TypeOK
  <2>3. task' = "leave" => now = TaskTimeout
    BY DEF process, Decision, TypeOK, Whose
  <2> QED BY <2>1, <2>2, <2>3 DEF DeadlineEarned
<1>8. RatePositive' BY DEF process, Decision, TypeOK, Whose, RatePositive
<1> QED BY <1>1, <1>2, <1>3, <1>4, <1>5, <1>6, <1>7, <1>8

(* The contexts and the clock.                                             *)
LEMMA ContextIInv == ASSUME IInv, Shutdown \/ Deadline \/ Tick PROVE IInv'
<1> USE ScheduleAssumption DEF IInv, clock, history
<1>1. CASE Shutdown \/ Deadline
  <2>1. PICK why \in {"canceled", "deadline"} :
          ContextEnds(why) /\ (why = "deadline" => now >= TaskTimeout)
    BY <1>1 DEF Shutdown, Deadline
  <2>2. TypeOK' BY <2>1 DEF ContextEnds, TypeOK
  <2>3. Pace' BY <2>1 DEF ContextEnds, TypeOK, Pace, Budget, Waiting
  <2>4. Counted' BY <2>1 DEF ContextEnds, TypeOK, Counted
  <2>5. Whose'
    <3>1. why = "deadline" => now = TaskTimeout
      BY <2>1 DEF TypeOK
    <3> QED BY <2>1, <3>1 DEF ContextEnds, TypeOK, Whose
  <2> QED
    BY <2>1, <2>2, <2>3, <2>4, <2>5
       DEF ContextEnds, Whose, ReasonTrue, OursNeverBlamed, DeadlineEarned, RatePositive
<1>2. CASE Tick
  <2>1. TypeOK' BY <1>2 DEF Tick, TypeOK
  <2>2. Pace'
    <3>1. tries * Timeout \in Int
      BY DEF TypeOK
    <3> QED BY <1>2, <3>1 DEF Tick, TypeOK, Pace, Budget, Waiting
  <2>3. Counted' BY <1>2 DEF Tick, TypeOK, Counted
  <2>4. Whose' BY <1>2 DEF Tick, TypeOK, Whose
  <2> QED
    BY <1>2, <2>1, <2>2, <2>3, <2>4
       DEF Tick, Waiting, Whose, ReasonTrue, OursNeverBlamed, DeadlineEarned,
           RatePositive
<1> QED BY <1>1, <1>2

(* The invariant is inductive.                                             *)
LEMMA NextIInv == IInv /\ [Next]_vars => IInv'
<1> SUFFICES ASSUME IInv, [Next]_vars PROVE IInv'
  OBVIOUS
<1>1. CASE UNCHANGED vars
  <2> USE <1>1 DEF vars, clock, history, IInv
  <2>1. TypeOK' BY DEF TypeOK
  <2>2. Waiting' = Waiting /\ Budget' = Budget BY DEF Waiting, Budget
  <2>3. Pace' BY <2>2 DEF Pace
  <2>4. Counted' /\ Whose' BY DEF Counted, Whose
  <2> QED
    BY <2>1, <2>2, <2>3, <2>4
       DEF ReasonTrue, OursNeverBlamed, DeadlineEarned, RatePositive
<1>2. CASE Next
  BY <1>2, ClientIInv, RetrierIInv, WorkerIInv, ContextIInv DEF Next
<1> QED BY <1>1, <1>2

(* The inductive invariant: the clock keeps pace with the schedule, the    *)
(* count of faults with the tries, and our own context's end is known for  *)
(* what it is.                                                             *)
THEOREM Invariance == Spec => []IInv
BY InitIInv, NextIInv, PTL DEF Spec

(* The variables keep their types.                                         *)
THEOREM Typing == Spec => []TypeOK
<1>1. IInv => TypeOK BY DEF IInv
<1> QED BY Invariance, <1>1, PTL

(* The reason "provider unavailable after N attempts" is always true, and  *)
(* a rate the worker completes a task with is above zero.                  *)
THEOREM OutcomeStands == Spec => []OutcomeTrue
<1>1. IInv => OutcomeTrue BY DEF IInv, OutcomeTrue
<1> QED BY Invariance, <1>1, PTL

(* What our own contexts end is never recorded as the provider's failure.  *)
THEOREM BlameStands == Spec => []OursNeverBlamed
<1>1. IInv => OursNeverBlamed BY DEF IInv
<1> QED BY Invariance, <1>1, PTL

(* A task is left in progress only by a schedule that can outlast its      *)
(* deadline, for every schedule and every deadline.                        *)
THEOREM DeadlineStands == Spec => []DeadlineEarned
<1>1. IInv => DeadlineEarned BY DEF IInv
<1> QED BY Invariance, <1>1, PTL
=============================================================================
