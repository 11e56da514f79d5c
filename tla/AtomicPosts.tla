----------------------------- MODULE AtomicPosts -----------------------------
(***************************************************************************)
(* What POST /quotes/updates promises, with the transactions and the locks *)
(* left out: a post takes effect in one step, or has none, and one told of *)
(* an error does not know which.  A key names one task for a lifetime,     *)
(* counted from an instant between the arrival of the post that bound it   *)
(* and its answer.                                                         *)
(***************************************************************************)
EXTENDS Naturals, PairTasks

CONSTANTS Requests, Keys, TTL

VARIABLES
  binding,                \* the task a key is bound to, and since when
  now,
  phase,                  \* of a request: new, waiting or ended
  pair, key, started,     \* what it asks for, and since when
  outcome, told           \* what it is answered

asked == <<pair, key, started>>
vars == <<tasks, binding, now, phase, asked, outcome, told>>

Init ==
  /\ RowsInit
  /\ binding = [k \in Keys |-> None]
  /\ now = 0
  /\ phase = [r \in Requests |-> "new"]
  /\ pair = [r \in Requests |-> None]
  /\ key = [r \in Requests |-> None]
  /\ started = [r \in Requests |-> 0]
  /\ outcome = [r \in Requests |-> "none"]
  /\ told = [r \in Requests |-> None]

Arrive(r) ==
  /\ phase[r] = "new"
  /\ phase' = [phase EXCEPT ![r] = "waiting"]
  /\ \E p \in Pairs, k \in Keys \cup {None} :
       pair' = [pair EXCEPT ![r] = p] /\ key' = [key EXCEPT ![r] = k]
  /\ started' = [started EXCEPT ![r] = now]
  /\ UNCHANGED <<tasks, binding, now, outcome, told>>

Answer(r, o, t) ==
  /\ phase[r] = "waiting"
  /\ phase' = [phase EXCEPT ![r] = "ended"]
  /\ outcome' = [outcome EXCEPT ![r] = o]
  /\ told' = [told EXCEPT ![r] = t]
  /\ UNCHANGED <<now, asked>>

(* t is the open task of p, or becomes it.                                 *)
Asks(p, t) ==
  \/ /\ status[t] = "open" /\ pairOf[t] = p
     /\ UNCHANGED tasks
  \/ OpenTask(t, p)

(* The answer may be lost, and with it the only mention of the task.       *)
PostUnkeyed(r) ==
  /\ key[r] = None
  /\ \E t \in Tasks :
       /\ Asks(pair[r], t)
       /\ Answer(r, "task", t) \/ Answer(r, "error", None)
  /\ UNCHANGED binding

(* The key was nobody's at the instant its new lifetime starts from.  The  *)
(* answer may be lost; the key still names the task.                       *)
FreeAt(k, at) == binding[k] = None \/ binding[k].at + TTL <= at

PostKeyed(r) ==
  /\ key[r] # None
  /\ \E t \in Tasks, at \in started[r]..now :
       /\ FreeAt(key[r], at)
       /\ Asks(pair[r], t)
       /\ binding' = [binding EXCEPT ![key[r]] = [task |-> t, at |-> at]]
       /\ Answer(r, "task", t) \/ Answer(r, "error", None)

Replay(r) ==
  /\ key[r] # None /\ ~FreeAt(key[r], now)
  /\ LET t == binding[key[r]].task IN
       IF pairOf[t] = pair[r] THEN Answer(r, "task", t)
       ELSE Answer(r, "conflict", None)
  /\ UNCHANGED <<tasks, binding>>

(* A binding that was still good when the post arrived is not any more.    *)
LosesKey(r) ==
  /\ key[r] # None /\ FreeAt(key[r], now) /\ ~FreeAt(key[r], started[r])
  /\ Answer(r, "unbound", None)
  /\ UNCHANGED <<tasks, binding>>

(* The error came before the post had shown anything.                      *)
Fail(r) ==
  /\ Answer(r, "error", None)
  /\ UNCHANGED <<tasks, binding>>

Close(S) ==
  /\ CloseTasks(S)
  /\ UNCHANGED <<binding, now, phase, asked, outcome, told>>

Tick ==
  /\ now' = now + 1
  /\ UNCHANGED <<tasks, binding, phase, asked, outcome, told>>

Next ==
  \/ \E r \in Requests :
       Arrive(r) \/ PostUnkeyed(r) \/ PostKeyed(r) \/ Replay(r) \/ LosesKey(r) \/ Fail(r)
  \/ \E S \in SUBSET Tasks : Close(S)
  \/ Tick

Spec == Init /\ [][Next]_vars
=============================================================================
