-------------------------- MODULE WakeSignalProofs --------------------------
(***************************************************************************)
(* Theorems about WakeSignal, for any rows, workers and requests.          *)
(***************************************************************************)
EXTENDS WakeSignal, TLAPS

(* The empty system keeps the invariant.                                   *)
LEMMA InitIInv == Init => IInv
<1> SUFFICES ASSUME Init PROVE IInv
  OBVIOUS
<1> USE SignalAssumption DEF Init
<1>1. TypeOK BY DEF TypeOK, Parked
<1>2. HoldersApart BY DEF HoldersApart
<1>3. SignalKept BY DEF SignalKept
<1> QED BY <1>1, <1>2, <1>3 DEF IInv

(* CreateTask: rows appear, are locked and are answered with.              *)
LEMMA PostIInv ==
  ASSUME IInv, NEW r \in Requests, CreateTask(r)
  PROVE  IInv'
<1> USE SignalAssumption DEF IInv
<1>1. CASE InsertTask(r)
  <2>1. TypeOK' BY <1>1 DEF InsertTask, TypeOK, Parked, pool
  <2>2. HoldersApart' BY <1>1 DEF InsertTask, TypeOK, HoldersApart, pool
  <2>3. SignalKept'
    BY <1>1 DEF InsertTask, TypeOK, SignalKept, InHand, LockedByPost, pool
  <2> QED BY <2>1, <2>2, <2>3
<1>2. CASE InsertUnanswered(r)
  <2>1. TypeOK' BY <1>2 DEF InsertUnanswered, Returns, TypeOK, Parked, pool
  <2>2. HoldersApart'
    BY <1>2 DEF InsertUnanswered, Returns, TypeOK, HoldersApart, pool
  <2>3. SignalKept'
    BY <1>2 DEF InsertUnanswered, Returns, TypeOK, SignalKept, InHand, LockedByPost, pool
  <2> QED BY <2>1, <2>2, <2>3
<1>3. CASE ReturnTask(r)
  <2>1. TypeOK' BY <1>3 DEF ReturnTask, TypeOK, HoldersApart, Parked, pool, rows
  <2>2. HoldersApart' BY <1>3 DEF ReturnTask, TypeOK, HoldersApart, pool, rows
  <2>3. SignalKept'
    BY <1>3 DEF ReturnTask, TypeOK, SignalKept, InHand, LockedByPost, pool, rows
  <2> QED BY <2>1, <2>2, <2>3
<1>4. CASE PostFails(r) \/ Refuse(r)
  <2>1. TypeOK'
    BY <1>4 DEF PostFails, Refuse, Returns, Unsignalled, TypeOK, Parked, pool, rows
  <2>2. HoldersApart'
    BY <1>4 DEF PostFails, Refuse, Returns, TypeOK, HoldersApart, pool, rows
  <2>3. SignalKept'
    BY <1>4 DEF PostFails, Refuse, Returns, Unsignalled, TypeOK, SignalKept, InHand,
                LockedByPost, pool, rows
  <2> QED BY <2>1, <2>2, <2>3
<1>5. CASE Notify(r)
  <2>1. TypeOK'
    <3>1. at' \in [Workers -> {"asking", "claiming", "processing", "selecting",
                              "waiting", "stopped"}]
      BY <1>5 DEF Notify, Signal, Again, TypeOK
    <3>2. \A w \in Workers :
            at'[w] # at[w] => at[w] = "waiting" /\ at'[w] \in {"asking", "stopped"}
      BY <1>5 DEF Notify, Signal, Again, Parked, TypeOK
    <3>3. Parked' \subseteq Parked
      BY <3>2 DEF Parked
    <3>4. wake' \in BOOLEAN /\ (UNCHANGED wake \/ Parked = {})
      <4>1. TypeOK /\ (UNCHANGED wake \/ (Parked = {} /\ wake' = TRUE))
        BY <1>5 DEF Notify, Signal
      <4> QED BY <4>1, Zenon DEF TypeOK
    <3>5. wake' => Parked' = {}
      <4>1. wake => Parked = {}
        BY DEF TypeOK
      <4> QED BY <3>3, <3>4, <4>1
    <3>6. owed' \in SUBSET {t \in Tasks : status'[t] = "pending"}
      BY <1>5 DEF Notify, TypeOK, rows
    <3>7. UNCHANGED <<status, backs, elsewhere, holds, canceled>>
      BY <1>5 DEF Notify, rows
    <3>8. /\ post' \in [Requests -> {"new", "locking", "replaying", "answered", "over"}]
          /\ about' \in [Requests -> Tasks \cup {None}]
          /\ seen' \in [Requests -> {"none", "pending", "in_progress", "over"}]
      BY <1>5 DEF Notify, Returns, TypeOK
    <3> QED BY <3>1, <3>2, <3>4, <3>5, <3>6, <3>7, <3>8 DEF TypeOK
  <2>2. HoldersApart'
    BY <1>5 DEF Notify, Returns, Signal, Again, Parked, TypeOK, HoldersApart, rows
  <2>3. SignalKept'
    BY <1>5 DEF Notify, Returns, Signal, Again, Parked, TypeOK, SignalKept, InHand,
                LockedByPost, rows
  <2> QED BY <2>1, <2>2, <2>3
<1>6. ASSUME NEW t \in Tasks, MeetTask(r, t) PROVE IInv'
  <2>1. TypeOK' BY <1>6 DEF MeetTask, TypeOK, Parked, pool, rows
  <2>2. HoldersApart' BY <1>6 DEF MeetTask, TypeOK, HoldersApart, pool, rows
  <2>3. SignalKept'
    BY <1>6 DEF MeetTask, TypeOK, SignalKept, InHand, LockedByPost, pool, rows
  <2> QED BY <2>1, <2>2, <2>3
<1>7. ASSUME NEW t \in Tasks, ReplayTask(r, t) PROVE IInv'
  <2>1. TypeOK' BY <1>7 DEF ReplayTask, TypeOK, Parked, pool, rows
  <2>2. HoldersApart' BY <1>7 DEF ReplayTask, TypeOK, HoldersApart, pool, rows
  <2>3. SignalKept'
    BY <1>7 DEF ReplayTask, TypeOK, SignalKept, InHand, LockedByPost, pool, rows
  <2> QED BY <2>1, <2>2, <2>3
<1> QED BY <1>1, <1>2, <1>3, <1>4, <1>5, <1>6, <1>7 DEF CreateTask

(* Run: a claim is picked, committed or lost, a task is finished, and the  *)
(* worker asks again or waits.                                             *)
LEMMA WorkerIInv ==
  ASSUME IInv, NEW w \in Workers, Run(w)
  PROVE  IInv'
<1> USE SignalAssumption DEF IInv
<1>1. CASE PickTask(w)
  <2>1. TypeOK' BY <1>1 DEF PickTask, Claimable, TypeOK, Parked, rows, posts
  <2>2. HoldersApart'
    BY <1>1 DEF PickTask, Claimable, Locked, LockedElsewhere, TypeOK, HoldersApart,
                rows, posts
  <2>3. SignalKept'
    BY <1>1 DEF PickTask, TypeOK, SignalKept, InHand, LockedByPost, rows, posts
  <2> QED BY <2>1, <2>2, <2>3
<1>2. CASE ClaimCommits(w)
  <2>1. TypeOK' BY <1>2 DEF ClaimCommits, TypeOK, HoldersApart, Parked, posts
  <2>2. HoldersApart' BY <1>2 DEF ClaimCommits, TypeOK, HoldersApart, posts
  <2>3. SignalKept'
    BY <1>2 DEF ClaimCommits, TypeOK, SignalKept, InHand, LockedByPost, posts
  <2> QED BY <2>1, <2>2, <2>3
<1>3. CASE NothingFound(w)
  <2>1. TypeOK' BY <1>3 DEF NothingFound, TypeOK, Parked, rows, posts
  <2>2. HoldersApart' BY <1>3 DEF NothingFound, TypeOK, HoldersApart, rows, posts
  <2>3. SignalKept'
    BY <1>3 DEF NothingFound, Claimable, Locked, LockedElsewhere, TypeOK, SignalKept,
                InHand, LockedByPost, rows, posts
  <2> QED BY <2>1, <2>2, <2>3
<1>4. CASE ClaimErrs(w)
  <2>1. TypeOK'
    BY <1>4 DEF ClaimErrs, AfterError, TypeOK, HoldersApart, Parked, posts
  <2>2. HoldersApart'
    BY <1>4 DEF ClaimErrs, AfterError, TypeOK, HoldersApart, posts
  <2>3. SignalKept' BY <1>4 DEF ClaimErrs, SignalKept
  <2> QED BY <2>1, <2>2, <2>3
<1>5. CASE Finish(w)
  <2>1. TypeOK'
    BY <1>5 DEF Finish, LetGo, AfterTask, Again, TypeOK, HoldersApart, Parked, posts
  <2>2. HoldersApart'
    BY <1>5 DEF Finish, LetGo, AfterTask, Again, TypeOK, HoldersApart, posts
  <2>3. SignalKept'
    BY <1>5 DEF Finish, AfterTask, Again, TypeOK, SignalKept, InHand,
                LockedByPost, posts
  <2> QED BY <2>1, <2>2, <2>3
<1>6. CASE Select(w)
  <2>1. TypeOK'
    <3>1. ~wake' /\ wake' \in BOOLEAN
      <4>1. wake' = FALSE \/ (~wake /\ wake' = wake)
        BY <1>6, Zenon DEF Select
      <4>2. wake \in BOOLEAN
        BY DEF TypeOK
      <4>3. ~wake => wake = FALSE
        BY <4>2
      <4>4. wake' = FALSE
        BY <4>1, <4>3
      <4> QED BY <4>4
    <3> QED BY <1>6, <3>1 DEF Select, Again, TypeOK, rows, posts
  <2>2. HoldersApart' BY <1>6 DEF Select, Again, TypeOK, HoldersApart, rows, posts
  <2>3. SignalKept'
    BY <1>6 DEF Select, Again, TypeOK, SignalKept, InHand, LockedByPost, rows, posts
  <2> QED BY <2>1, <2>2, <2>3
<1>7. CASE Poll(w)
  <2>1. TypeOK' BY <1>7 DEF Poll, Again, TypeOK, Parked, rows, posts
  <2>2. HoldersApart' BY <1>7 DEF Poll, Again, TypeOK, HoldersApart, rows, posts
  <2>3. SignalKept'
    BY <1>7 DEF Poll, Again, TypeOK, SignalKept, InHand, LockedByPost, rows, posts
  <2> QED BY <2>1, <2>2, <2>3
<1>8. CASE Stop(w)
  <2>1. TypeOK' BY <1>8 DEF Stop, Attentive, TypeOK, Parked, rows, posts
  <2>2. HoldersApart' BY <1>8 DEF Stop, Attentive, TypeOK, HoldersApart, rows, posts
  <2>3. SignalKept' BY <1>8 DEF Stop, SignalKept
  <2> QED BY <2>1, <2>2, <2>3
<1> QED BY <1>1, <1>2, <1>3, <1>4, <1>5, <1>6, <1>7, <1>8 DEF Run

(* Other processes, the recovery pass, the shutdown.                       *)
LEMMA OthersIInv ==
  ASSUME IInv, Others \/ Shutdown
  PROVE  IInv'
<1> USE SignalAssumption DEF IInv
<1>1. CASE ClaimElsewhere \/ FailElsewhere
  <2>1. TypeOK'
    BY <1>1 DEF ClaimElsewhere, FailElsewhere, TypeOK, HoldersApart, Parked, pool, posts
  <2>2. HoldersApart'
    BY <1>1 DEF ClaimElsewhere, FailElsewhere, TypeOK, HoldersApart, pool, posts
  <2>3. SignalKept'
    BY <1>1 DEF ClaimElsewhere, FailElsewhere, TypeOK, SignalKept, InHand,
                LockedByPost, pool, posts
  <2> QED BY <2>1, <2>2, <2>3
<1>2. ASSUME NEW t \in Tasks, PickElsewhere(t) PROVE IInv'
  <2>1. TypeOK' BY <1>2 DEF PickElsewhere, TypeOK, Parked, pool, posts
  <2>2. HoldersApart'
    BY <1>2 DEF PickElsewhere, Claimable, Locked, LockedElsewhere, TypeOK,
                HoldersApart, pool, posts
  <2>3. SignalKept'
    BY <1>2 DEF PickElsewhere, TypeOK, SignalKept, InHand, LockedByPost, pool, posts
  <2> QED BY <2>1, <2>2, <2>3
<1>3. ASSUME NEW t \in Tasks, PutBack(t) \/ CloseElsewhere(t) PROVE IInv'
  <2>1. TypeOK' BY <1>3 DEF PutBack, CloseElsewhere, TypeOK, Parked, posts
  <2>2. HoldersApart'
    BY <1>3 DEF PutBack, CloseElsewhere, Locked, LockedElsewhere, TypeOK,
                HoldersApart, posts
  <2>3. SignalKept'
    BY <1>3 DEF PutBack, CloseElsewhere, SignalKept, InHand, LockedByPost, posts
  <2> QED BY <2>1, <2>2, <2>3
<1>4. CASE Shutdown
  <2>1. TypeOK' BY <1>4 DEF Shutdown, TypeOK, Parked, rows, pool, posts
  <2>2. HoldersApart' BY <1>4 DEF Shutdown, HoldersApart, rows, pool, posts
  <2>3. SignalKept' BY <1>4 DEF Shutdown, SignalKept
  <2> QED BY <2>1, <2>2, <2>3
<1> QED BY <1>1, <1>2, <1>3, <1>4 DEF Others

(* The invariant holds always: each step keeps it, whoever takes it.       *)
THEOREM Invariance == Spec => []IInv
<1>1. ASSUME IInv, [Next]_vars PROVE IInv'
  <2>1. ASSUME NEW r \in Requests, CreateTask(r) PROVE IInv'
    BY <1>1, <2>1, PostIInv
  <2>2. ASSUME NEW w \in Workers, Run(w) PROVE IInv'
    BY <1>1, <2>2, WorkerIInv
  <2>3. CASE Others \/ Shutdown BY <1>1, <2>3, OthersIInv
  <2>4. CASE UNCHANGED vars
    BY <1>1, <2>4 DEF vars, rows, pool, posts, IInv, TypeOK, Parked,
       HoldersApart, SignalKept, InHand, LockedByPost
  <2> QED BY <1>1, <2>1, <2>2, <2>3, <2>4 DEF Next
<1> QED BY <1>1, InitIInv, PTL DEF Spec

(* Run and CreateTask keep their types, and the channel holds no signal    *)
(* while a worker waits for one.                                           *)
THEOREM Typing == Spec => []TypeOK
<1>1. IInv => TypeOK BY DEF IInv
<1> QED BY <1>1, Invariance, PTL

(* notify may drop a signal because the one before it still stands: no     *)
(* signalled task is left to a pool asleep, unless a claim failed, or a    *)
(* worker passed over it under another process's lock, or a post here was  *)
(* refused or failed with the row locked.                                  *)
THEOREM SignalStands == Spec => []SignalKept
<1>1. IInv => SignalKept BY DEF IInv
<1> QED BY <1>1, Invariance, PTL
=============================================================================
