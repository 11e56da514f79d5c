----------------------------- MODULE KeyedPosts -----------------------------
(***************************************************************************)
(* Posts, with and without an idempotency key: CreateTask of               *)
(* internal/storage/postgres run by any number of requests at once, one    *)
(* step per statement.                                                     *)
(*                                                                         *)
(* A keyed post that misses the fast path opens a transaction, writes or   *)
(* meets a task, and binds the key.  From its insert on it excludes every  *)
(* other post of its pair and every finalisation of the task it met; from  *)
(* its bind on, every other bind of its key.  What the transaction wrote   *)
(* shows when it commits.                                                  *)
(*                                                                         *)
(* Workers and recovery appear as CloseTasks alone; UpdateQueue has the    *)
(* rest of them.                                                           *)
(*                                                                         *)
(* A definition named Def_Something is Def with a mistake in it, kept to   *)
(* show which property notices.                                            *)
(***************************************************************************)
EXTENDS Naturals

CONSTANTS
  Requests,  \* calls of CreateTask; a client's retry is another request
  Tasks,     \* identifiers the database can generate for a row
  Pairs,
  Keys,
  TTL,       \* IDEMPOTENCY_TTL, in ticks of the database clock
  MaxNow,    \* bound: the clock stops here
  None       \* no key, no task, no binding

ASSUME PostsAssumption ==
  /\ TTL \in Nat \ {0}
  /\ MaxNow \in Nat
  /\ None \notin Keys \cup Tasks /\ None \notin [task : Tasks, at : Nat]

VARIABLES
  status,    \* of a row: absent, uncommitted, open (unfinished) or closed
  pairOf,    \* quote_updates.pair
  binding,   \* idempotency_keys: the task a key is bound to, and since when
  now,       \* the database clock
  pc,        \* where in CreateTask a request is
  pair, key, \* its arguments
  started,   \* when it arrived
  began,     \* now() of its transaction
  task,      \* the row its insert wrote or met
  outcome,   \* how it was answered
  told,      \* the task it was answered with
  since      \* history: when the binding it was answered under was made

dbVars == <<status, pairOf, binding>>
requestVars == <<pair, key, started>>
answerVars == <<outcome, told, since>>
vars == <<dbVars, now, pc, requestVars, began, task, answerVars>>

(* The stations of createTaskWithKey between Begin and the end of its      *)
(* transaction.                                                            *)
InTransaction == {"inserting", "binding", "committing", "refused"}

TypeOK ==
  /\ status \in [Tasks -> {"absent", "uncommitted", "open", "closed"}]
  /\ pairOf \in [Tasks -> Pairs \cup {None}]
  /\ binding \in [Keys -> [task : Tasks, at : Nat] \cup {None}]
  /\ now \in 0..MaxNow
  /\ pc \in [Requests -> InTransaction \cup
                {"new", "posting", "looking", "opening", "replaying", "ended"}]
  /\ pair \in [Requests -> Pairs \cup {None}]
  /\ key \in [Requests -> Keys \cup {None}]
  /\ started \in [Requests -> Nat]
  /\ began \in [Requests -> Nat]
  /\ task \in [Requests -> Tasks \cup {None}]
  /\ outcome \in [Requests -> {"none", "task", "conflict", "unbound", "error"}]
  /\ told \in [Requests -> Tasks \cup {None}]
  /\ since \in [Requests -> Nat]
  /\ \A t \in Tasks : status[t] = "uncommitted" =>
       \E r \in Requests : task[r] = t /\ pc[r] \in InTransaction

Init ==
  /\ status = [t \in Tasks |-> "absent"]
  /\ pairOf = [t \in Tasks |-> None]
  /\ binding = [k \in Keys |-> None]
  /\ now = 0
  /\ pc = [r \in Requests |-> "new"]
  /\ pair = [r \in Requests |-> None]
  /\ key = [r \in Requests |-> None]
  /\ started = [r \in Requests |-> 0]
  /\ began = [r \in Requests |-> 0]
  /\ task = [r \in Requests |-> None]
  /\ outcome = [r \in Requests |-> "none"]
  /\ told = [r \in Requests |-> None]
  /\ since = [r \in Requests |-> 0]
-----------------------------------------------------------------------------
(***************************************************************************)
(* Row locks, as other transactions meet them.                             *)
(***************************************************************************)
HoldsPair(r, p) == pair[r] = p /\ pc[r] \in {"binding", "committing", "refused"}
HoldsKey_FromLookUp(r, k) ==
  key[r] = k /\ pc[r] \in {"opening", "inserting", "committing", "refused"}
HoldsKey(r, k) == key[r] = k /\ pc[r] \in {"committing", "refused"}
PairFree(p) == \A r \in Requests : ~HoldsPair(r, p)
KeyFree(k) == \A r \in Requests : ~HoldsKey(r, k)

Answer(r, o, t, at) ==
  /\ pc' = [pc EXCEPT ![r] = "ended"]
  /\ outcome' = [outcome EXCEPT ![r] = o]
  /\ told' = [told EXCEPT ![r] = t]
  /\ since' = [since EXCEPT ![r] = at]

GoTo(r, l) ==
  /\ pc' = [pc EXCEPT ![r] = l]
  /\ UNCHANGED answerVars

Arrive(r) ==
  /\ pc[r] = "new"
  /\ \E p \in Pairs, k \in Keys \cup {None} :
       /\ pair' = [pair EXCEPT ![r] = p]
       /\ key' = [key EXCEPT ![r] = k]
       /\ GoTo(r, IF k = None THEN "posting" ELSE "looking")
  /\ started' = [started EXCEPT ![r] = now]
  /\ UNCHANGED <<dbVars, now, began, task>>
-----------------------------------------------------------------------------
(***************************************************************************)
(* insertTask: the unfinished row of the pair, or a new one.  It waits for *)
(* whoever holds the pair, and then decides on what is committed.          *)
(***************************************************************************)
OpenTasks(p) == {t \in Tasks : status[t] = "open" /\ pairOf[t] = p}

InsertsTask(p, t, s) ==
  /\ PairFree(p)
  /\ \/ /\ t \in OpenTasks(p)
        /\ UNCHANGED <<status, pairOf>>
     \/ /\ OpenTasks(p) = {}
        /\ status[t] = "absent"
        /\ status' = [status EXCEPT ![t] = s]
        /\ pairOf' = [pairOf EXCEPT ![t] = p]
  /\ UNCHANGED binding

(* Without a key the insert is all there is, and commits by itself.  Its   *)
(* acknowledgement may be lost: the row is there, and the client is told   *)
(* of an error.                                                            *)
PostUnkeyed(r) ==
  /\ pc[r] = "posting"
  /\ \E t \in Tasks :
       /\ InsertsTask(pair[r], t, "open")
       /\ task' = [task EXCEPT ![r] = t]
       /\ Answer(r, "task", t, now) \/ Answer(r, "error", None, now)
  /\ UNCHANGED <<now, requestVars, began>>
-----------------------------------------------------------------------------
(***************************************************************************)
(* taskByKey and replayTask.                                               *)
(***************************************************************************)
Found_AtAnyAge(k) == binding[k] # None
Found_TickShort(k) == binding[k] # None /\ binding[k].at + TTL > now + 1
Found(k) == binding[k] # None /\ binding[k].at + TTL > now

ReplayTask(r) ==
  LET b == binding[key[r]] IN
    IF pairOf[b.task] = pair[r]
    THEN Answer(r, "task", b.task, b.at)
    ELSE Answer(r, "conflict", None, b.at)

(* The fast path.                                                          *)
LookUp(r) ==
  /\ pc[r] = "looking"
  /\ \/ Found(key[r]) /\ ReplayTask(r)
     \/ ~Found(key[r]) /\ GoTo(r, "opening")
  /\ UNCHANGED <<dbVars, now, requestVars, began, task>>

(* After a refusal: the clock is read anew, so the binding that refused    *)
(* may be past its lifetime by now.                                        *)
ReplayByKey(r) ==
  /\ pc[r] = "replaying"
  /\ \/ Found(key[r]) /\ ReplayTask(r)
     \/ ~Found(key[r]) /\ Answer(r, "unbound", None, now)
  /\ UNCHANGED <<dbVars, now, requestVars, began, task>>
-----------------------------------------------------------------------------
(***************************************************************************)
(* createTaskWithKey.                                                      *)
(***************************************************************************)
Begin(r) ==
  /\ pc[r] = "opening"
  /\ began' = [began EXCEPT ![r] = now]
  /\ GoTo(r, "inserting")
  /\ UNCHANGED <<dbVars, now, requestVars, task>>

InsertTask_OutsideTransaction(r) ==
  /\ pc[r] = "inserting"
  /\ \E t \in Tasks :
       /\ InsertsTask(pair[r], t, "open")
       /\ task' = [task EXCEPT ![r] = t]
  /\ GoTo(r, "binding")
  /\ UNCHANGED <<now, requestVars, began>>
InsertTask(r) ==
  /\ pc[r] = "inserting"
  /\ \E t \in Tasks :
       /\ InsertsTask(pair[r], t, "uncommitted")
       /\ task' = [task EXCEPT ![r] = t]
  /\ GoTo(r, "binding")
  /\ UNCHANGED <<now, requestVars, began>>

(* Nobody's key, or one whose lifetime was over when the transaction       *)
(* began.                                                                  *)
MayBind_AtAnyAge(r) == TRUE
MayBind(r) ==
  LET b == binding[key[r]] IN b = None \/ b.at + TTL <= began[r]

BindKey(r) ==
  /\ pc[r] = "binding"
  /\ KeyFree(key[r])
  /\ GoTo(r, IF MayBind(r) THEN "committing" ELSE "refused")
  /\ UNCHANGED <<dbVars, now, requestVars, began, task>>

(* Task and binding show together.  The acknowledgement may be lost: the   *)
(* client is told of an error and knows nothing.                           *)
Commit(r) ==
  /\ pc[r] = "committing"
  /\ status' = [status EXCEPT ![task[r]] = "open"]
  /\ binding' = [binding EXCEPT ![key[r]] = [task |-> task[r], at |-> began[r]]]
  /\ Answer(r, "task", task[r], began[r]) \/ Answer(r, "error", None, now)
  /\ UNCHANGED <<pairOf, now, requestVars, began, task>>

(* The row the transaction wrote is gone with it; one it met stays.        *)
Undo_KeepsTask(r) ==
  /\ status' = [t \in Tasks |-> IF t = task[r] THEN "open" ELSE status[t]]
  /\ UNCHANGED <<pairOf, binding>>
Undo(r) ==
  LET written == {t \in Tasks : t = task[r] /\ status[t] = "uncommitted"} IN
    /\ status' = [t \in Tasks |-> IF t \in written THEN "absent" ELSE status[t]]
    /\ pairOf' = [t \in Tasks |-> IF t \in written THEN None ELSE pairOf[t]]
    /\ UNCHANGED binding

AfterRollback(r) == GoTo(r, "replaying")

Rollback(r) ==
  /\ pc[r] = "refused"
  /\ Undo(r)
  /\ AfterRollback(r)
  /\ UNCHANGED <<now, requestVars, began, task>>

(* An error of the database, a lost connection, the request's deadline, a  *)
(* dead process: the transaction, if any, is rolled back.  An error after  *)
(* the commit is PostUnkeyed's and Commit's.                               *)
Abort(r) ==
  /\ pc[r] \notin {"new", "ended"}
  /\ IF pc[r] \in InTransaction THEN Undo(r) ELSE UNCHANGED dbVars
  /\ Answer(r, "error", None, now)
  /\ UNCHANGED <<now, requestVars, began, task>>
-----------------------------------------------------------------------------
(* A worker finishes a task, or a recovery pass gives several up in one    *)
(* transaction, waiting for the posts that have locked their rows.         *)
CloseTasks(S) ==
  /\ S # {} /\ \A t \in S : status[t] = "open" /\ PairFree(pairOf[t])
  /\ status' = [t \in Tasks |-> IF t \in S THEN "closed" ELSE status[t]]
  /\ UNCHANGED <<pairOf, binding, now, pc, requestVars, began, task, answerVars>>

Tick ==
  /\ now < MaxNow
  /\ now' = now + 1
  /\ UNCHANGED <<dbVars, pc, requestVars, began, task, answerVars>>

(* What a request does by itself.                                          *)
Advance(r) ==
  \/ PostUnkeyed(r) \/ LookUp(r) \/ Begin(r) \/ InsertTask(r)
  \/ BindKey(r) \/ Commit(r) \/ Rollback(r) \/ ReplayByKey(r)

Next ==
  \/ \E r \in Requests : Arrive(r) \/ Advance(r) \/ Abort(r)
  \/ \E S \in SUBSET Tasks : CloseTasks(S)
  \/ Tick

Spec == Init /\ [][Next]_vars
-----------------------------------------------------------------------------
(* A live binding is never changed, by whichever of the posts racing for   *)
(* its key: bindQuery takes over only what had expired before it began.    *)
LiveBindingKept ==
  [][\A k \in Keys :
       binding'[k] # binding[k] =>
         \/ binding[k] = None
         \/ binding[k].at + TTL <= now]_vars

(* "A client that retries without knowing whether the first attempt        *)
(* arrived gets the same update_id back": what a request was told under a  *)
(* key is what the key still says, or the binding it was told from has     *)
(* been taken over a lifetime later.                                       *)
AnswerStands ==
  \A r \in Requests : outcome[r] = "task" /\ key[r] # None =>
    LET b == binding[key[r]] IN
      /\ b # None
      /\ \/ b.task = told[r] /\ b.at = since[r]
         \/ b.at >= since[r] + TTL

(* No request is answered from a binding that had expired when it arrived: *)
(* IDEMPOTENCY_TTL is "the longest a post can silently perform no update". *)
AnswerFresh ==
  \A r \in Requests : outcome[r] = "task" => since[r] + TTL > started[r]

(* An identifier is given out only for a row that is there, and for the    *)
(* pair that was asked for: "a key is only ever bound to a task queued for *)
(* the pair it arrived with".                                              *)
AnswerFits ==
  \A r \in Requests : outcome[r] = "task" =>
    status[told[r]] \in {"open", "closed"} /\ pairOf[told[r]] = pair[r]

(* "Written afterwards, a lost race would leave a task whose identifier    *)
(* reached nobody": the row a keyed post leaves, however its transaction   *)
(* ends, appears together with its key bound to it.  A post without a key  *)
(* names the row it leaves in its answer, or is told of an error, and only *)
(* that one can leave a task whose identifier reached nobody.              *)
NobodysTask ==
  [][\A t \in Tasks : status[t] # "open" /\ status'[t] = "open" =>
       \E r \in Requests :
         /\ pc[r] # "ended" /\ task'[r] = t
         /\ IF key[r] = None
            THEN told'[r] = t \/ outcome'[r] = "error"
            ELSE binding'[key[r]] # binding[key[r]] /\ binding'[key[r]].task = t]_vars

(* Rolling back and aborting leave the pair free for exactly one task.     *)
OneOpenPerPair ==
  \A t, u \in Tasks :
    status[t] \in {"open", "uncommitted"} /\ status[u] \in {"open", "uncommitted"}
      /\ pairOf[t] = pairOf[u] => t = u

(* To everybody else a post is one step: the row and the binding are there *)
(* at once or never, whatever became of its statements, its locks, its     *)
(* refusal and its rollback, and whatever of its acknowledgement.  A row   *)
(* that is not committed is not there.                                     *)
Shown(t) == status[t] \in {"open", "closed"}
Phase(r) == IF pc[r] \in {"new", "ended"} THEN pc[r] ELSE "waiting"

Atomic == INSTANCE AtomicPosts WITH
  status <- [t \in Tasks |-> IF Shown(t) THEN status[t] ELSE "absent"],
  pairOf <- [t \in Tasks |-> IF Shown(t) THEN pairOf[t] ELSE None],
  phase <- [r \in Requests |-> Phase(r)]

PostsAreAtomic == Atomic!Spec

(* "The holder has committed by now": a refusal finds the binding that     *)
(* refused it, or a newer one, unless a lifetime ran out in between.       *)
UnboundOnlyByAge ==
  [][\A r \in Requests : outcome[r] = "none" /\ outcome'[r] = "unbound" =>
       LET b == binding[key[r]] IN
         b # None /\ b.at + TTL > began[r] /\ b.at + TTL <= now]_vars

(* The inductive invariant.  A transaction that has its task holds a pair  *)
(* of its own, and keeps that row from being closed; one past its bind     *)
(* holds a key of its own, and keeps what it may take over as it was.      *)
Writing(r) == pc[r] \in {"binding", "committing", "refused"}

PairHeld ==
  /\ \A r \in Requests :
       pc[r] \in {"new", "posting", "looking", "opening", "inserting"} => task[r] = None
  /\ \A r \in Requests : Writing(r) =>
       /\ task[r] # None /\ pairOf[task[r]] = pair[r]
       /\ status[task[r]] \in {"open", "uncommitted"}
  /\ \A t \in Tasks : status[t] = "uncommitted" =>
       \E r \in Requests : Writing(r) /\ task[r] = t
  /\ \A r, q \in Requests :
       Writing(r) /\ Writing(q) /\ pair[r] = pair[q] => r = q

KeyHeld ==
  /\ \A r \in Requests : pc[r] = "committing" => MayBind(r)
  /\ \A r \in Requests : pc[r] \in {"refused", "replaying"} => ~MayBind(r)
  /\ \A r, q \in Requests : HoldsKey(r, key[r]) /\ HoldsKey(q, key[r]) => r = q
  /\ \A k \in Keys : binding[k] # None =>
       binding[k].at <= now /\ status[binding[k].task] \in {"open", "closed"}

Asked(r) ==
  /\ pc[r] # "new" => pair[r] \in Pairs /\ started[r] <= now
  /\ pc[r] \in InTransaction \cup {"looking", "opening", "replaying"} => key[r] \in Keys
  /\ pc[r] = "posting" => key[r] = None
  /\ pc[r] \in InTransaction \cup {"replaying"} =>
       started[r] <= began[r] /\ began[r] <= now
  /\ outcome[r] # "none" => pc[r] = "ended"
  /\ outcome[r] = "task" => told[r] \in Tasks

IInv ==
  /\ TypeOK /\ PairHeld /\ KeyHeld /\ \A r \in Requests : Asked(r)
  /\ AnswerStands /\ AnswerFresh /\ AnswerFits /\ OneOpenPerPair

(* Behind SomeoneReady: a row that is there was made by a request of its   *)
(* own, so there is an identifier left for one that has made none.         *)
Makers == \A t \in Tasks : status[t] # "absent" => \E r \in Requests : task[r] = t

(* What a post needs in order to get on.                                   *)
CanInsert(p) ==
  PairFree(p) /\ (OpenTasks(p) # {} \/ \E t \in Tasks : status[t] = "absent")

Ready(r) ==
  \/ pc[r] \in {"looking", "opening", "committing", "refused", "replaying"}
  \/ pc[r] \in {"posting", "inserting"} /\ CanInsert(pair[r])
  \/ pc[r] = "binding" /\ KeyFree(key[r])

Unanswered(r) == pc[r] \notin {"new", "ended"}

SomeoneReady ==
  (\E r \in Requests : Unanswered(r)) => \E r \in Requests : Ready(r)

(* Posts never wait for each other in a circle, each taking its pair before *)
(* its key and letting go of both: while one is not answered, one is ready *)
(* to get on by itself, without an error, a deadline or a worker to help,  *)
(* and one that is ready does.  A post takes no step twice, so all of them *)
(* end.                                                                    *)
NoCircleOfWaits ==
  /\ SomeoneReady
  /\ \A r \in Requests : Ready(r) => ENABLED <<Advance(r)>>_vars
=============================================================================
