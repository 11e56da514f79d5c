-------------------------- MODULE StuckMarginProofs --------------------------
(***************************************************************************)
(* What the settings promise, for every width of a duration, every margin  *)
(* and every environment.                                                  *)
(***************************************************************************)
EXTENDS StuckMargin, TLAPS

(* Load returns a duration or a count for every name, or refuses.          *)
LEMMA LoadType ==
  ASSUME NEW e \in Envs
  PROVE  Load(e) = Refused \/ Load(e) \in [NumberNames -> Durations]
<1>1. ASSUME NEW name \in NumberNames, Readable(e, name)
      PROVE  Value(e, name) \in Durations
  <2>1. name \notin {"DATABASE_URL", "LOG_LEVEL"}
    BY DEF NumberNames, DurationNames, CountNames
  <2> QED
    BY <1>1, <2>1, EnvAssumption DEF Readable, Value
<1>2. NumberNames \subseteq Names
  BY DEF Names
<1> QED
  BY <1>1, <1>2 DEF Load

(* A configuration that is not refused has passed check, and its durations *)
(* are positive.                                                           *)
LEMMA LoadChecked ==
  ASSUME NEW e \in Envs, Load(e) # Refused
  PROVE  /\ Check(Load(e))
         /\ \A name \in DurationNames : Load(e)[name] > 0
<1>1. ASSUME NEW name \in DurationNames, Readable(e, name)
      PROVE  Value(e, name) > 0
  <2>1. name \notin {"DATABASE_URL", "LOG_LEVEL"}
    BY DEF DurationNames
  <2>2. name \in NumberNames
    BY DEF NumberNames
  <2>3. e[name] = Unset \/ (e[name] # Malformed /\ e[name] > 0)
    <3>1. InRange(name, e[name]) => e[name] > 0
      BY DEF InRange, Positive
    <3> QED
      BY <1>1, <2>1, <3>1 DEF Readable
  <2>4. e[name] = Unset => Value(e, name) = Default[name]
    BY DEF Value
  <2>5. e[name] # Unset => Value(e, name) = e[name]
    BY DEF Value
  <2> QED
    BY <2>2, <2>3, <2>4, <2>5, EnvAssumption
<1>2. DurationNames \subseteq NumberNames /\ NumberNames \subseteq Names
  BY DEF Names, NumberNames
<1> QED
  BY <1>1, <1>2 DEF Load

(* The timeouts in use lie within the width of a duration.                 *)
LEMMA TimeoutTypes ==
  ASSUME cfg \in [NumberNames -> Durations]
  PROVE  /\ TaskTimeout \in Int /\ StuckTimeout \in Int
         /\ cfg["HTTP_WRITE_TIMEOUT"] \in Durations
         /\ TaskTimeout < Half /\ StuckTimeout < Half /\ Half \in Nat
BY WidthAssumption DEF TaskTimeout, StuckTimeout, NumberNames, DurationNames, Durations

(* No step lets a worker outlive its deadline, or takes a task before the  *)
(* threshold.                                                              *)
THEOREM Invariance == Spec => []IInv
<1>1. Init => IInv
  BY EnvAssumption DEF Init, IInv, TypeOK, Started
<1>2. IInv /\ [Next]_vars => IInv'
  <2> SUFFICES ASSUME IInv, [Next]_vars PROVE IInv'
    OBVIOUS
  <2> USE DEF IInv, TypeOK, Started
  <2>1. CASE Start
    <3>1. cfg' = Refused \/ cfg' \in [NumberNames -> Durations]
      BY <2>1, LoadType DEF Start
    <3> QED
      BY <2>1, <3>1 DEF Start, clocks
  <2>2. CASE ClaimCommits
    BY <2>2 DEF ClaimCommits, clocks
  <2>3. CASE ReplyArrives
    <3>1. TaskTimeout > 0
      <4>1. cfg = Load(env) /\ cfg # Refused
        BY <2>3, EnvAssumption DEF ReplyArrives
      <4> QED
        BY <4>1, LoadChecked DEF TaskTimeout, DurationNames
    <3>2. TaskTimeout' = TaskTimeout /\ TaskTimeout \in Int
      BY <2>3, TimeoutTypes DEF ReplyArrives, TaskTimeout
    <3> QED
      BY <2>3, <3>1, <3>2 DEF ReplyArrives, clocks
  <2>4. CASE Finalise
    BY <2>4 DEF Finalise, clocks, TaskTimeout
  <2>5. CASE GiveUp
    BY <2>5 DEF GiveUp, clocks, TaskTimeout
  <2>6. CASE Recover
    <3>1. at = "claimed" => workAge <= TaskTimeout
      <4>1. at = "claimed" => cfg = Load(env) /\ cfg # Refused
        BY <2>6, EnvAssumption
      <4>2. at = "claimed" => TaskTimeout > 0 /\ TaskTimeout \in Int
        BY <4>1, LoadChecked, TimeoutTypes DEF TaskTimeout, DurationNames
      <4> QED
        BY <4>2
    <3> QED
      BY <2>6, <3>1 DEF Recover, Stale, clocks, TaskTimeout, StuckTimeout
  <2>7. CASE Tick
    <3>1. TaskTimeout \in Int /\ TaskTimeout' = TaskTimeout
      BY <2>7, TimeoutTypes DEF Tick, TaskTimeout
    <3> QED
      BY <2>7, <3>1, EnvAssumption DEF Tick, Due, clocks
  <2>8. CASE UNCHANGED vars
    BY <2>8 DEF vars, clocks, TaskTimeout, StuckTimeout
  <2> QED
    BY <2>1, <2>2, <2>3, <2>4, <2>5, <2>6, <2>7, <2>8 DEF Next
<1> QED
  BY <1>1, <1>2, PTL DEF Spec

(* The types, which hold the bound on a worker's time.                     *)
THEOREM Typing == Spec => []TypeOK
BY Invariance, PTL DEF IInv

(* For every width, margin and accepted environment without an overflow, a *)
(* task is taken from a worker within its time only if the database has    *)
(* counted a whole deadline more than the worker.                          *)
THEOREM MarginStands == Spec => []MarginHolds
<1>1. IInv => MarginHolds
  <2> SUFFICES ASSUME IInv, at = "robbed", ~Overflow
               PROVE  rowAge - workAge > TaskTimeout
    BY DEF MarginHolds
  <2>1. cfg = Load(env) /\ cfg # Refused /\ env \in Envs
    BY EnvAssumption DEF IInv, TypeOK, Started
  <2>2. /\ TaskTimeout \in Int /\ StuckTimeout \in Int /\ Half \in Nat
        /\ 2 * TaskTimeout < Half /\ TaskTimeout > 0
    BY <2>1, LoadChecked, TimeoutTypes
    DEF Overflow, IInv, TypeOK, Started, TaskTimeout, DurationNames
  <2>3. StuckTimeout >= 2 * TaskTimeout
    <3>1. StuckTimeout >= Wrap(2 * TaskTimeout)
      BY <2>1, LoadChecked DEF Check, MinStuck, StuckTimeout, TaskTimeout
    <3> QED
      BY <2>2, <3>1 DEF Wrap
  <2> QED
    BY <2>2, <2>3 DEF IInv, TypeOK
<1> QED
  BY Invariance, <1>1, PTL

(* A process that runs has every timeout, and leaves Margin to answer in.  *)
THEOREM TimeoutsStand == Spec => []NoTimeoutDisabled
<1>1. IInv => NoTimeoutDisabled
  <2> SUFFICES ASSUME IInv, Started PROVE NoTimeoutDisabled
    BY DEF NoTimeoutDisabled
  <2>1. cfg = Load(env) /\ cfg # Refused /\ env \in Envs
    BY EnvAssumption DEF IInv, TypeOK
  <2> DEFINE write == cfg["HTTP_WRITE_TIMEOUT"]
  <2>2. write \in Durations /\ write > Margin
    BY <2>1, LoadChecked, TimeoutTypes DEF IInv, TypeOK, Check, RoomToAnswer
  <2>3. HandlerTimeout(write) = write - Margin
    BY <2>2, WidthAssumption DEF HandlerTimeout, Wrap, Durations
  <2> QED
    BY <2>1, <2>2, <2>3, LoadChecked, WidthAssumption
    DEF NoTimeoutDisabled, Durations
<1> QED
  BY Invariance, <1>1, PTL
=============================================================================
