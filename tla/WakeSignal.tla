----------------------------- MODULE WakeSignal -----------------------------
(***************************************************************************)
(* How a posted task reaches an idle worker: Service.CreateTask and its    *)
(* notify, the channel of one slot made in main, and the loop of           *)
(* Worker.Run, which asks the queue again after every task and otherwise   *)
(* waits for a signal, for the poll interval or for the shutdown.          *)
(*                                                                         *)
(* Of a row only its status and its lock matter here; UpdateQueue has the  *)
(* rest.  A row is locked by a post that met it, or by a claim under way,  *)
(* and SKIP LOCKED passes over it either way.  Other processes, their      *)
(* posts and their workers, share the rows and not the channel.            *)
(*                                                                         *)
(* A definition named Def_Something is Def with a mistake in it.           *)
(***************************************************************************)
CONSTANTS
  Tasks,     \* rows
  Workers,   \* goroutines of this process's pool
  Requests,  \* bound: the posts there ever are
  Here,      \* those of them that reach this process
  None       \* no row

ASSUME SignalAssumption == None \notin Tasks /\ Here \subseteq Requests

VARIABLES
  status,     \* quote_updates.status; "over" is done or failed
  backs,      \* bound: rows put back once; a row is put back at most once
  elsewhere,  \* the row a worker of another process is claiming
  at,         \* where in Run a worker is
  holds,      \* the row it is claiming or processing
  post,       \* where in CreateTask a request is
  about,      \* the row the request was given
  seen,       \* the status it was given with it
  wake,       \* the channel holds a signal
  canceled,   \* the context of Run is done
  owed        \* history: pending rows signalled since they became pending,
              \* and nothing since that may have swallowed the signal

rows == <<status, backs, elsewhere>>
pool == <<at, holds>>
posts == <<post, about, seen>>
vars == <<rows, pool, posts, wake, canceled, owed>>

LockedByPost(t, R) == \E r \in R : post[r] = "locking" /\ about[r] = t
LockedElsewhere(t) == LockedByPost(t, Requests \ Here) \/ elsewhere = t
Locked(t) ==
  \/ LockedByPost(t, Here) \/ LockedElsewhere(t)
  \/ \E w \in Workers : at[w] = "claiming" /\ holds[w] = t
Claimable(t) == status[t] = "pending" /\ ~Locked(t)
Parked == {w \in Workers : at[w] = "waiting"}

(* Types; a claim under way is of a pending row; and a channel holds a     *)
(* value only while nobody is receiving from it.                           *)
TypeOK ==
  /\ status \in [Tasks -> {"absent", "pending", "in_progress", "over"}]
  /\ backs \in SUBSET Tasks
  /\ elsewhere \in Tasks \cup {None}
  /\ at \in [Workers -> {"asking", "claiming", "processing", "selecting",
                         "waiting", "stopped"}]
  /\ holds \in [Workers -> Tasks \cup {None}]
  /\ post \in [Requests -> {"new", "locking", "replaying", "answered", "over"}]
  /\ about \in [Requests -> Tasks \cup {None}]
  /\ seen \in [Requests -> {"none", "pending", "in_progress", "over"}]
  /\ wake \in BOOLEAN /\ canceled \in BOOLEAN
  /\ owed \in SUBSET {t \in Tasks : status[t] = "pending"}
  /\ \A w \in Workers :
       /\ at[w] = "claiming" => holds[w] # None /\ status[holds[w]] = "pending"
       /\ at[w] \notin {"claiming", "processing"} => holds[w] = None
  /\ wake => Parked = {}

Init ==
  /\ status = [t \in Tasks |-> "absent"]
  /\ backs = {}
  /\ elsewhere = None
  /\ at = [w \in Workers |-> "asking"]
  /\ holds = [w \in Workers |-> None]
  /\ post = [r \in Requests |-> "new"]
  /\ about = [r \in Requests |-> None]
  /\ seen = [r \in Requests |-> "none"]
  /\ wake = FALSE
  /\ canceled = FALSE
  /\ owed = {}
-----------------------------------------------------------------------------
(***************************************************************************)
(* Service.CreateTask.                                                     *)
(***************************************************************************)
Returns(r) ==
  /\ post' = [post EXCEPT ![r] = "over"]
  /\ about' = [about EXCEPT ![r] = None]
  /\ seen' = [seen EXCEPT ![r] = "none"]

InsertTask(r) ==
  /\ post[r] = "new"
  /\ \E t \in Tasks :
       /\ status[t] = "absent"
       /\ status' = [status EXCEPT ![t] = "pending"]
       /\ about' = [about EXCEPT ![r] = t]
  /\ seen' = [seen EXCEPT ![r] = "pending"]
  /\ post' = [post EXCEPT ![r] = "answered"]
  /\ UNCHANGED <<backs, elsewhere, pool, wake, canceled, owed>>

(* The commit is not acknowledged, or the request ran out of time: the     *)
(* caller gets an error and nobody is signalled.                           *)
InsertUnanswered(r) ==
  /\ post[r] = "new"
  /\ \E t \in Tasks :
       /\ status[t] = "absent"
       /\ status' = [status EXCEPT ![t] = "pending"]
  /\ Returns(r)
  /\ UNCHANGED <<backs, elsewhere, pool, wake, canceled, owed>>

(* insertTask meets an unfinished row of the pair and locks it, ...        *)
MeetTask(r, t) ==
  /\ post[r] = "new"
  /\ status[t] \in {"pending", "in_progress"}
  /\ ~Locked(t)
  /\ post' = [post EXCEPT ![r] = "locking"]
  /\ about' = [about EXCEPT ![r] = t]
  /\ UNCHANGED <<rows, pool, seen, wake, canceled, owed>>

(* ... and is answered with it, ...                                        *)
ReturnTask(r) ==
  /\ post[r] = "locking"
  /\ post' = [post EXCEPT ![r] = "answered"]
  /\ seen' = [seen EXCEPT ![r] = status[about[r]]]
  /\ UNCHANGED <<rows, pool, about, wake, canceled, owed>>

(* ... or is refused the key, and lets go of it to replay the key's task.  *)
(* A worker here that passed over the locked row may have gone to sleep on *)
(* it, and neither a refusal nor an error is a signal.                     *)
Unsignalled(r) == IF r \in Here THEN owed \ {about[r]} ELSE owed

Refuse(r) ==
  /\ post[r] = "locking"
  /\ post' = [post EXCEPT ![r] = "replaying"]
  /\ about' = [about EXCEPT ![r] = None]
  /\ owed' = Unsignalled(r)
  /\ UNCHANGED <<rows, pool, seen, wake, canceled>>

(* A key answers with its row as it stands, without a lock.                *)
ReplayTask(r, t) ==
  /\ post[r] \in {"new", "replaying"}
  /\ status[t] # "absent"
  /\ post' = [post EXCEPT ![r] = "answered"]
  /\ about' = [about EXCEPT ![r] = t]
  /\ seen' = [seen EXCEPT ![r] = status[t]]
  /\ UNCHANGED <<rows, pool, wake, canceled, owed>>

(* An error, on the way in, with the row locked, or after a refusal.       *)
PostFails(r) ==
  /\ post[r] \in {"new", "locking", "replaying"}
  /\ Returns(r)
  /\ owed' = Unsignalled(r)
  /\ UNCHANGED <<rows, pool, wake, canceled>>

(* Where Run's loop condition takes a worker.                              *)
Again == IF canceled THEN "stopped" ELSE "asking"

(* A send without blocking: handed to a worker that waits, else into the   *)
(* slot, else dropped.                                                     *)
Signal_Unbuffered ==
  /\ UNCHANGED wake
  /\ \/ \E w \in Parked : at' = [at EXCEPT ![w] = Again]
     \/ Parked = {} /\ UNCHANGED at
Signal_Blocking ==
  \/ /\ \E w \in Parked : at' = [at EXCEPT ![w] = Again]
     /\ UNCHANGED wake
  \/ Parked = {} /\ ~wake /\ wake' = TRUE /\ UNCHANGED at
Signal ==
  \/ /\ \E w \in Parked : at' = [at EXCEPT ![w] = Again]
     /\ UNCHANGED wake
  \/ Parked = {} /\ wake' = TRUE /\ UNCHANGED at

(* A post of another process signals the workers of that one.              *)
Notify(r) ==
  /\ post[r] = "answered"
  /\ Returns(r)
  /\ IF r \in Here /\ seen[r] = "pending"
     THEN /\ Signal
          /\ owed' = owed \cup {t \in Tasks : t = about[r] /\ status[t] = "pending"}
     ELSE UNCHANGED <<at, wake, owed>>
  /\ UNCHANGED <<rows, holds, canceled>>
-----------------------------------------------------------------------------
(***************************************************************************)
(* Worker.Run.                                                             *)
(***************************************************************************)
(* ClaimTask: the row is locked, and then the statement commits or not.    *)
PickTask(w) ==
  /\ at[w] = "asking"
  /\ \E t \in Tasks :
       /\ Claimable(t)
       /\ holds' = [holds EXCEPT ![w] = t]
  /\ at' = [at EXCEPT ![w] = "claiming"]
  /\ UNCHANGED <<rows, posts, wake, canceled, owed>>

ClaimCommits(w) ==
  /\ at[w] = "claiming"
  /\ status' = [status EXCEPT ![holds[w]] = "in_progress"]
  /\ at' = [at EXCEPT ![w] = "processing"]
  /\ owed' = owed \ {holds[w]}
  /\ UNCHANGED <<backs, elsewhere, holds, posts, wake, canceled>>

(* Nothing, or nothing but rows that are locked.  If another process has   *)
(* the lock, the signal that woke the worker is spent.                     *)
NothingFound(w) ==
  /\ at[w] = "asking"
  /\ \A t \in Tasks : ~Claimable(t)
  /\ at' = [at EXCEPT ![w] = "selecting"]
  /\ owed' = {t \in owed : ~LockedElsewhere(t)}
  /\ UNCHANGED <<rows, holds, posts, wake, canceled>>

(* An error is treated as an empty queue, whether the statement never ran, *)
(* was rolled back, or committed and only its answer is lost.              *)
AfterError_Stops == "stopped"
AfterError == "selecting"

ClaimErrs(w) ==
  /\ at[w] \in {"asking", "claiming"}
  /\ \/ UNCHANGED status
     \/ /\ at[w] = "claiming"
        /\ status' = [status EXCEPT ![holds[w]] = "in_progress"]
  /\ at' = [at EXCEPT ![w] = AfterError]
  /\ holds' = [holds EXCEPT ![w] = None]
  /\ owed' = {}
  /\ UNCHANGED <<backs, elsewhere, posts, wake, canceled>>

(* A task processed, whatever came of it, is followed by the next one.     *)
AfterTask_Waits == IF canceled THEN "stopped" ELSE "selecting"
AfterTask == Again

LetGo(w) == [holds EXCEPT ![w] = None]

(* The row is closed; or, at shutdown, put back; or left in progress, by a *)
(* deadline, an error or a claim that was lost meanwhile.                  *)
Finish(w) ==
  /\ at[w] = "processing"
  /\ \/ UNCHANGED status
     \/ \E end \in {"over"} \cup (IF canceled THEN {"pending"} ELSE {}) :
          /\ holds[w] # None
          /\ ~Locked(holds[w])
          /\ status' = [status EXCEPT ![holds[w]] = end]
  /\ at' = [at EXCEPT ![w] = AfterTask]
  /\ holds' = LetGo(w)
  /\ UNCHANGED <<backs, elsewhere, posts, wake, canceled, owed>>

(* The select: a signal that is there is taken, else the worker waits.     *)
Select(w) ==
  /\ at[w] = "selecting"
  /\ \/ wake /\ wake' = FALSE /\ at' = [at EXCEPT ![w] = Again]
     \/ /\ ~wake /\ ~canceled
        /\ at' = [at EXCEPT ![w] = "waiting"]
        /\ UNCHANGED wake
  /\ UNCHANGED <<rows, holds, posts, canceled, owed>>

Poll(w) ==
  /\ at[w] = "waiting"
  /\ at' = [at EXCEPT ![w] = Again]
  /\ UNCHANGED <<rows, holds, posts, wake, canceled, owed>>

Attentive_Selecting == {"selecting"}
Attentive == {"selecting", "waiting"}

Stop(w) ==
  /\ canceled
  /\ at[w] \in Attentive
  /\ at' = [at EXCEPT ![w] = "stopped"]
  /\ UNCHANGED <<rows, holds, posts, wake, canceled, owed>>

Shutdown ==
  /\ ~canceled
  /\ canceled' = TRUE
  /\ UNCHANGED <<rows, pool, posts, wake, owed>>
-----------------------------------------------------------------------------
(***************************************************************************)
(* What has "nobody to signal": the workers of other processes, and tasks  *)
(* put back, by the recovery pass or by another process that stops.  A row *)
(* put back is lost to a worker that still processes it.                   *)
(***************************************************************************)
PickElsewhere(t) ==
  /\ elsewhere = None
  /\ Claimable(t)
  /\ elsewhere' = t
  /\ UNCHANGED <<status, backs, pool, posts, wake, canceled, owed>>

ClaimElsewhere ==
  /\ elsewhere # None
  /\ status' = [status EXCEPT ![elsewhere] = "in_progress"]
  /\ elsewhere' = None
  /\ owed' = owed \ {elsewhere}
  /\ UNCHANGED <<backs, pool, posts, wake, canceled>>

FailElsewhere ==
  /\ elsewhere # None
  /\ elsewhere' = None
  /\ UNCHANGED <<status, backs, pool, posts, wake, canceled, owed>>

PutBack(t) ==
  /\ status[t] = "in_progress"
  /\ t \notin backs
  /\ ~Locked(t)
  /\ status' = [status EXCEPT ![t] = "pending"]
  /\ backs' = backs \cup {t}
  /\ holds' = [w \in Workers |-> IF holds[w] = t THEN None ELSE holds[w]]
  /\ UNCHANGED <<elsewhere, at, posts, wake, canceled, owed>>

CloseElsewhere(t) ==
  /\ status[t] = "in_progress"
  /\ ~Locked(t)
  /\ status' = [status EXCEPT ![t] = "over"]
  /\ holds' = [w \in Workers |-> IF holds[w] = t THEN None ELSE holds[w]]
  /\ UNCHANGED <<backs, elsewhere, at, posts, wake, canceled, owed>>
-----------------------------------------------------------------------------
CreateTask(r) ==
  \/ InsertTask(r) \/ InsertUnanswered(r)
  \/ ReturnTask(r) \/ Refuse(r) \/ PostFails(r) \/ Notify(r)
  \/ \E t \in Tasks : MeetTask(r, t) \/ ReplayTask(r, t)

Run(w) ==
  \/ PickTask(w) \/ ClaimCommits(w) \/ NothingFound(w) \/ ClaimErrs(w)
  \/ Finish(w) \/ Select(w) \/ Poll(w) \/ Stop(w)

Others ==
  \/ ClaimElsewhere \/ FailElsewhere
  \/ \E t \in Tasks : PickElsewhere(t) \/ PutBack(t) \/ CloseElsewhere(t)

Next ==
  \/ \E r \in Requests : CreateTask(r)
  \/ \E w \in Workers : Run(w)
  \/ Others
  \/ Shutdown

Spec == Init /\ [][Next]_vars

(* Every statement ends, with an error or not, in this process and in the  *)
(* others; a goroutine that can go on does.  Under this alone the poll     *)
(* interval may be as long as it likes.                                    *)
Moves(w) ==
  \/ PickTask(w) \/ NothingFound(w) \/ ClaimErrs(w) \/ ClaimCommits(w)
  \/ Finish(w) \/ Select(w) \/ Stop(w)

SignalFairness ==
  /\ \A w \in Workers : WF_vars(Moves(w))
  /\ \A r \in Requests : WF_vars(post[r] # "new" /\ CreateTask(r))
  /\ WF_vars(ClaimElsewhere \/ FailElsewhere)

(* And the interval ends, and the database answers again and again.        *)
PollFairness ==
  /\ \A w \in Workers : WF_vars(Poll(w))
  /\ SF_vars(\E w \in Workers : PickTask(w))
  /\ SF_vars(\E w \in Workers : ClaimCommits(w))
  /\ SF_vars(ClaimElsewhere)

SignalSpec == Spec /\ SignalFairness
-----------------------------------------------------------------------------
(***************************************************************************)
(* Properties.                                                             *)
(***************************************************************************)
InHand(t) ==
  \/ LockedByPost(t, Here)
  \/ \E r \in Here : post[r] = "answered" /\ about[r] = t /\ seen[r] = "pending"

(* notify: "a worker that wakes drains what it finds, so a signal already  *)
(* pending is dropped".  Whatever the dropped signals, a signalled task    *)
(* still pending is never left with every worker asleep and an empty slot, *)
(* unless a claim failed, or a worker here passed over it while another    *)
(* process had it locked, or a post here that had it locked ended in a     *)
(* refusal or an error: then the signal may be spent, and only the poll    *)
(* interval is left.                                                       *)
SignalKept ==
  canceled \/ \A t \in owed :
    \/ InHand(t)
    \/ wake
    \/ \E w \in Workers : at[w] \in {"asking", "claiming", "processing"}

(* Behind it: a row is held by one worker at most, here or elsewhere, and  *)
(* what is processed is in progress unless the claim has been lost.        *)
HoldersApart ==
  /\ \A v, w \in Workers : holds[v] = holds[w] /\ holds[w] # None => v = w
  /\ \A w \in Workers :
       /\ holds[w] = elsewhere => elsewhere = None
       /\ at[w] = "processing" /\ holds[w] # None => status[holds[w]] = "in_progress"
  /\ \A r \in Requests :
       post[r] = "locking" => about[r] # None /\ status[about[r]] # "absent"

(* The inductive invariant.                                                *)
IInv == TypeOK /\ HoldersApart /\ SignalKept

(* So the signal alone gets a signalled task claimed, however long the     *)
(* poll interval, or one of those four has spent it: a claim that failed,  *)
(* a row passed over under the lock of another process, a post refused or  *)
(* failed with the row locked.                                             *)
SignalledTaskTaken == \A t \in Tasks : t \in owed ~> t \notin owed \/ canceled

(* notify never holds a post up, least of all once the pool is gone.       *)
PostsAnswered == \A r \in Requests : post[r] = "answered" ~> post[r] = "over"

(* Run returns once its context is done, wherever it waits.                *)
PoolStops == canceled ~> \A w \in Workers : at[w] = "stopped"

(* "The interval is what makes it correct": with it, a pending task is     *)
(* taken whoever posted it or put it back, and whatever failed meanwhile.  *)
EveryTaskTaken ==
  PollFairness =>
    \A t \in Tasks : status[t] = "pending" ~> status[t] # "pending" \/ canceled
=============================================================================
