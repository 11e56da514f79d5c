-------------------------- MODULE KeyedPostsProofs --------------------------
(***************************************************************************)
(* Theorems about KeyedPosts, for any requests, tasks, pairs and keys and  *)
(* any lifetime.                                                           *)
(***************************************************************************)
EXTENDS KeyedPosts, FiniteSetTheorems, TLAPS

(* An empty database keeps the invariant.                                  *)
LEMMA InitIInv == Init => IInv
<1> SUFFICES ASSUME Init PROVE IInv
  OBVIOUS
<1> USE PostsAssumption DEF Init
<1>1. TypeOK BY DEF TypeOK, InTransaction
<1>2. PairHeld BY DEF PairHeld, Writing
<1>3. KeyHeld BY DEF KeyHeld, HoldsKey
<1>4. \A r \in Requests : Asked(r) BY DEF Asked, InTransaction
<1> QED
  BY <1>1, <1>2, <1>3, <1>4
     DEF IInv, AnswerStands, AnswerFresh, AnswerFits, OneOpenPerPair

(* A request arrives: nothing is written yet.                              *)
LEMMA ArriveIInv ==
  ASSUME IInv, NEW r \in Requests, Arrive(r)
  PROVE  IInv'
<1> USE PostsAssumption DEF IInv, dbVars, requestVars, answerVars, Arrive, GoTo
<1>1. TypeOK' BY DEF TypeOK, InTransaction, Asked, PairHeld, KeyHeld, Writing
<1>2. PairHeld' BY DEF TypeOK, PairHeld, Writing, InTransaction
<1>3. KeyHeld' BY DEF TypeOK, KeyHeld, HoldsKey, MayBind, Asked, InTransaction,
                      PairHeld, Writing
<1>4. \A q \in Requests : Asked(q)' BY DEF TypeOK, Asked, InTransaction
<1>5. AnswerStands' BY DEF TypeOK, AnswerStands, Asked, InTransaction, KeyHeld,
                           MayBind
<1>6. AnswerFresh' BY DEF TypeOK, AnswerFresh, Asked, InTransaction
<1>7. AnswerFits' BY DEF TypeOK, AnswerFits, Asked, InTransaction, KeyHeld,
                         PairHeld, Writing
<1>8. OneOpenPerPair' BY DEF TypeOK, OneOpenPerPair, PairHeld, Writing
<1> QED BY <1>1, <1>2, <1>3, <1>4, <1>5, <1>6, <1>7, <1>8

(* A post without a key writes or meets the row of a pair nobody holds.    *)
LEMMA PostUnkeyedIInv ==
  ASSUME IInv, NEW r \in Requests, PostUnkeyed(r)
  PROVE  IInv'
<1> USE PostsAssumption DEF IInv, dbVars, requestVars, answerVars, PostUnkeyed,
                            InsertsTask, Answer, OpenTasks, PairFree, HoldsPair
<1>1. TypeOK'
  <2>1. PICK t \in Tasks :
          /\ InsertsTask(pair[r], t, "open")
          /\ task' = [task EXCEPT ![r] = t]
          /\ Answer(r, "task", t, now) \/ Answer(r, "error", None, now)
    OBVIOUS
  <2>2. /\ \A u \in Tasks : status'[u] = "uncommitted" => status[u] = "uncommitted"
        /\ \A q \in Requests : pc[q] \in InTransaction =>
             pc'[q] = pc[q] /\ task'[q] = task[q]
    BY <2>1 DEF TypeOK, InTransaction
  <2>3. \A u \in Tasks : status'[u] = "uncommitted" =>
          \E q \in Requests : task'[q] = u /\ pc'[q] \in InTransaction
    BY <2>2 DEF TypeOK
  <2>4. pair[r] \in Pairs /\ now \in Nat
    BY DEF TypeOK, Asked
  <2> QED BY <2>1, <2>3, <2>4 DEF TypeOK, InTransaction
<1>2. PairHeld' BY DEF TypeOK, PairHeld, Writing, InTransaction
<1>3. KeyHeld'
  <2>1. /\ pc[r] = "posting" /\ pc'[r] = "ended" /\ UNCHANGED <<binding, key, began>>
        /\ \A q \in Requests : q # r => pc'[q] = pc[q]
    BY DEF TypeOK
  <2>2. \A q \in Requests : MayBind(q)' <=> MayBind(q)
    BY <2>1 DEF MayBind
  <2>3. \A k : \A q \in Requests : HoldsKey(q, k)' <=> HoldsKey(q, k)
    BY <2>1 DEF HoldsKey
  <2>4. \A q \in Requests : pc'[q] \in {"committing", "refused", "replaying"} => pc'[q] = pc[q]
    BY <2>1
  <2>5. \A t \in Tasks : status[t] \in {"open", "closed"} => status'[t] \in {"open", "closed"}
    BY DEF TypeOK
  <2>6. \A k \in Keys : binding[k] # None => binding[k].task \in Tasks
    BY DEF TypeOK
  <2>7. UNCHANGED now
    OBVIOUS
  <2>8. \A q, p \in Requests :
          HoldsKey(q, key[q])' /\ HoldsKey(p, key[q])' => q = p
    BY <2>1, <2>3 DEF KeyHeld
  <2> QED BY <2>1, <2>2, <2>4, <2>5, <2>6, <2>7, <2>8 DEF KeyHeld
<1>4. \A q \in Requests : Asked(q)' BY DEF TypeOK, Asked, InTransaction
<1>5. AnswerStands' BY DEF TypeOK, AnswerStands, Asked, InTransaction, KeyHeld,
                           MayBind
<1>6. AnswerFresh'
  <2>1. now < now + TTL /\ now \in Nat
    BY DEF TypeOK
  <2>2. started[r] <= now /\ started[r] \in Nat
    BY DEF TypeOK, Asked
  <2>3. since'[r] = now /\ started' = started
    BY DEF TypeOK
  <2>4. since'[r] + TTL > started'[r]
    BY <2>1, <2>2, <2>3
  <2>5. \A q \in Requests \ {r} : outcome'[q] = outcome[q] /\ since'[q] = since[q]
    BY DEF TypeOK
  <2> QED BY <2>3, <2>4, <2>5 DEF AnswerFresh
<1>7. AnswerFits' BY DEF TypeOK, AnswerFits, Asked, InTransaction, KeyHeld,
                         PairHeld, Writing
<1>8. OneOpenPerPair' BY DEF TypeOK, OneOpenPerPair, PairHeld, Writing
<1> QED BY <1>1, <1>2, <1>3, <1>4, <1>5, <1>6, <1>7, <1>8

(* The fast path answers with what the key says, or answers nothing.       *)
LEMMA LookUpIInv ==
  ASSUME IInv, NEW r \in Requests, LookUp(r)
  PROVE  IInv'
<1> USE PostsAssumption DEF IInv, dbVars, requestVars, answerVars, LookUp,
                            ReplayTask, Found, Answer, GoTo
<1>1. TypeOK'
  <2>1. key[r] \in Keys
    BY DEF TypeOK, Asked
  <2>2. Found(key[r]) =>
          binding[key[r]].task \in Tasks /\ binding[key[r]].at \in Nat
    BY <2>1 DEF TypeOK
  <2>3. /\ outcome' \in [Requests -> {"none", "task", "conflict", "unbound", "error"}]
        /\ told' \in [Requests -> Tasks \cup {None}]
        /\ since' \in [Requests -> Nat]
        /\ pc' = [pc EXCEPT ![r] = "ended"] \/ pc' = [pc EXCEPT ![r] = "opening"]
    BY <2>2 DEF TypeOK
  <2>4. /\ pc' \in [Requests -> InTransaction \cup
                {"new", "posting", "looking", "opening", "replaying", "ended"}]
        /\ \A q \in Requests : pc[q] \in InTransaction => pc'[q] = pc[q]
    BY <2>3 DEF TypeOK, InTransaction
  <2> QED BY <2>3, <2>4 DEF TypeOK
<1>2. PairHeld' BY DEF TypeOK, PairHeld, Writing, InTransaction
<1>3. KeyHeld' BY DEF TypeOK, KeyHeld, HoldsKey, MayBind, Asked, InTransaction,
                      PairHeld, Writing
<1>4. \A q \in Requests : Asked(q)' BY DEF TypeOK, Asked, InTransaction
<1>5. AnswerStands' BY DEF TypeOK, AnswerStands, Asked, InTransaction, KeyHeld,
                           MayBind
<1>6. AnswerFresh' BY DEF TypeOK, AnswerFresh, Asked, InTransaction
<1>7. AnswerFits' BY DEF TypeOK, AnswerFits, Asked, InTransaction, KeyHeld,
                         PairHeld, Writing
<1>8. OneOpenPerPair' BY DEF TypeOK, OneOpenPerPair, PairHeld, Writing
<1> QED BY <1>1, <1>2, <1>3, <1>4, <1>5, <1>6, <1>7, <1>8

(* The replay after a refusal.                                             *)
LEMMA ReplayByKeyIInv ==
  ASSUME IInv, NEW r \in Requests, ReplayByKey(r)
  PROVE  IInv'
<1> USE PostsAssumption DEF IInv, dbVars, requestVars, answerVars, ReplayByKey,
                            ReplayTask, Found, Answer
<1>1. TypeOK'
  <2>1. PICK o \in {"task", "conflict", "unbound"}, t \in Tasks \cup {None}, at \in Nat :
          Answer(r, o, t, at)
    <3>1. now \in Nat /\ key[r] \in Keys
      BY DEF TypeOK, Asked
    <3>2. CASE Found(key[r])
      <4>1. binding[key[r]] \in [task : Tasks, at : Nat]
        BY <3>1, <3>2 DEF TypeOK
      <4> QED BY <3>2, <4>1
    <3> QED BY <3>1, <3>2
  <2>2. \A u \in Tasks : status[u] = "uncommitted" =>
          \E q \in Requests \ {r} : task[q] = u /\ pc[q] \in InTransaction
    BY DEF TypeOK, InTransaction
  <2> QED BY <2>1, <2>2 DEF TypeOK, InTransaction
<1>2. PairHeld'
  <2>1. pc[r] = "replaying" /\ pc'[r] = "ended" /\ \A q \in Requests \ {r} : pc'[q] = pc[q]
    BY DEF TypeOK
  <2>2. \A q \in Requests : Writing(q)' <=> Writing(q)
    BY <2>1 DEF Writing
  <2>3. UNCHANGED <<status, pairOf, pair, task>>
    OBVIOUS
  <2> QED BY <2>1, <2>2, <2>3 DEF PairHeld
<1>3. KeyHeld' BY DEF TypeOK, KeyHeld, HoldsKey, MayBind, Asked, InTransaction,
                      PairHeld, Writing
<1>4. \A q \in Requests : Asked(q)' BY DEF TypeOK, Asked, InTransaction
<1>5. AnswerStands' BY DEF TypeOK, AnswerStands, Asked, InTransaction, KeyHeld,
                           MayBind
<1>6. AnswerFresh' BY DEF TypeOK, AnswerFresh, Asked, InTransaction
<1>7. AnswerFits' BY DEF TypeOK, AnswerFits, Asked, InTransaction, KeyHeld,
                         PairHeld, Writing
<1>8. OneOpenPerPair' BY DEF TypeOK, OneOpenPerPair, PairHeld, Writing
<1> QED BY <1>1, <1>2, <1>3, <1>4, <1>5, <1>6, <1>7, <1>8

(* The clock of the transaction is the clock of its beginning.             *)
LEMMA BeginIInv ==
  ASSUME IInv, NEW r \in Requests, Begin(r)
  PROVE  IInv'
<1> USE PostsAssumption DEF IInv, dbVars, requestVars, answerVars, Begin, GoTo
<1>1. TypeOK' BY DEF TypeOK, InTransaction, Asked, PairHeld, KeyHeld, Writing
<1>2. PairHeld' BY DEF TypeOK, PairHeld, Writing, InTransaction
<1>3. KeyHeld' BY DEF TypeOK, KeyHeld, HoldsKey, MayBind, Asked, InTransaction,
                      PairHeld, Writing
<1>4. \A q \in Requests : Asked(q)' BY DEF TypeOK, Asked, InTransaction
<1>5. AnswerStands' BY DEF TypeOK, AnswerStands, Asked, InTransaction, KeyHeld,
                           MayBind
<1>6. AnswerFresh' BY DEF TypeOK, AnswerFresh, Asked, InTransaction
<1>7. AnswerFits' BY DEF TypeOK, AnswerFits, Asked, InTransaction, KeyHeld,
                         PairHeld, Writing
<1>8. OneOpenPerPair' BY DEF TypeOK, OneOpenPerPair, PairHeld, Writing
<1> QED BY <1>1, <1>2, <1>3, <1>4, <1>5, <1>6, <1>7, <1>8

(* From here on the transaction holds its pair.                            *)
LEMMA InsertTaskIInv ==
  ASSUME IInv, NEW r \in Requests, InsertTask(r)
  PROVE  IInv'
<1> USE PostsAssumption DEF IInv, dbVars, requestVars, answerVars, InsertTask,
                            InsertsTask, GoTo, OpenTasks, PairFree, HoldsPair
<1>1. TypeOK'
  <2>1. PICK t \in Tasks : /\ InsertsTask(pair[r], t, "uncommitted")
                          /\ task' = [task EXCEPT ![r] = t]
    OBVIOUS
  <2>2. /\ \A u \in Tasks : status'[u] = "uncommitted" =>
             u = t \/ status[u] = "uncommitted"
        /\ task'[r] = t /\ pc'[r] = "binding"
        /\ \A q \in Requests \ {r} : task'[q] = task[q] /\ pc'[q] = pc[q]
    BY <2>1 DEF TypeOK
  <2>3. \A u \in Tasks : status[u] = "uncommitted" => \E q \in Requests \ {r} :
          task[q] = u /\ pc[q] \in InTransaction
    BY DEF TypeOK, Asked, InTransaction, PairHeld, Writing
  <2>4. \A u \in Tasks : status'[u] = "uncommitted" =>
          \E q \in Requests : task'[q] = u /\ pc'[q] \in InTransaction
    BY <2>2, <2>3 DEF InTransaction
  <2> QED BY <2>1, <2>4 DEF TypeOK, InTransaction
<1>2. PairHeld' BY DEF TypeOK, PairHeld, Writing, InTransaction
<1>3. KeyHeld' BY DEF TypeOK, KeyHeld, HoldsKey, MayBind, Asked, InTransaction,
                      PairHeld, Writing
<1>4. \A q \in Requests : Asked(q)' BY DEF TypeOK, Asked, InTransaction
<1>5. AnswerStands' BY DEF TypeOK, AnswerStands, Asked, InTransaction, KeyHeld,
                           MayBind
<1>6. AnswerFresh' BY DEF TypeOK, AnswerFresh, Asked, InTransaction
<1>7. AnswerFits' BY DEF TypeOK, AnswerFits, Asked, InTransaction, KeyHeld,
                         PairHeld, Writing
<1>8. OneOpenPerPair' BY DEF TypeOK, OneOpenPerPair, PairHeld, Writing
<1> QED BY <1>1, <1>2, <1>3, <1>4, <1>5, <1>6, <1>7, <1>8

(* From here on it holds its key, or was refused by a live binding.        *)
LEMMA BindKeyIInv ==
  ASSUME IInv, NEW r \in Requests, BindKey(r)
  PROVE  IInv'
<1> USE PostsAssumption DEF IInv, dbVars, requestVars, answerVars, BindKey,
                            KeyFree, GoTo
<1>1. TypeOK' BY DEF TypeOK, InTransaction, Asked, PairHeld, KeyHeld, Writing
<1>2. PairHeld' BY DEF TypeOK, PairHeld, Writing, InTransaction
<1>3. KeyHeld' BY DEF TypeOK, KeyHeld, HoldsKey, MayBind, Asked, InTransaction,
                      PairHeld, Writing
<1>4. \A q \in Requests : Asked(q)' BY DEF TypeOK, Asked, InTransaction
<1>5. AnswerStands' BY DEF TypeOK, AnswerStands, Asked, InTransaction, KeyHeld,
                           MayBind
<1>6. AnswerFresh' BY DEF TypeOK, AnswerFresh, Asked, InTransaction
<1>7. AnswerFits' BY DEF TypeOK, AnswerFits, Asked, InTransaction, KeyHeld,
                         PairHeld, Writing
<1>8. OneOpenPerPair' BY DEF TypeOK, OneOpenPerPair, PairHeld, Writing
<1> QED BY <1>1, <1>2, <1>3, <1>4, <1>5, <1>6, <1>7, <1>8

(* The task shows, and the key is taken over from what had expired.        *)
LEMMA CommitIInv ==
  ASSUME IInv, NEW r \in Requests, Commit(r)
  PROVE  IInv'
<1> USE PostsAssumption DEF IInv, dbVars, requestVars, answerVars, Commit,
                            Answer
<1>0. /\ task[r] \in Tasks /\ key[r] \in Keys /\ status[task[r]] # "closed"
      /\ began[r] \in Nat /\ now \in Nat /\ started[r] \in Nat
      /\ started[r] <= began[r] /\ began[r] <= now /\ MayBind(r)
      /\ pc' = [pc EXCEPT ![r] = "ended"]
      /\ \/ /\ outcome' = [outcome EXCEPT ![r] = "task"]
            /\ told' = [told EXCEPT ![r] = task[r]]
            /\ since' = [since EXCEPT ![r] = began[r]]
         \/ /\ outcome' = [outcome EXCEPT ![r] = "error"]
            /\ told' = [told EXCEPT ![r] = None]
            /\ since' = [since EXCEPT ![r] = now]
  BY DEF TypeOK, Asked, InTransaction, PairHeld, KeyHeld, Writing
<1>1. TypeOK'
  <2>1. /\ binding' \in [Keys -> [task : Tasks, at : Nat] \cup {None}]
        /\ status' \in [Tasks -> {"absent", "uncommitted", "open", "closed"}]
    BY <1>0 DEF TypeOK
  <2>2. /\ pc' \in [Requests -> InTransaction \cup
                {"new", "posting", "looking", "opening", "replaying", "ended"}]
        /\ outcome' \in [Requests -> {"none", "task", "conflict", "unbound", "error"}]
    BY <1>0 DEF TypeOK
  <2>3. /\ told' \in [Requests -> Tasks \cup {None}]
        /\ since' \in [Requests -> Nat]
    BY <1>0 DEF TypeOK
  <2>4. \A t \in Tasks : status'[t] = "uncommitted" =>
          \E q \in Requests : task[q] = t /\ pc'[q] \in InTransaction
    <3> SUFFICES ASSUME NEW t \in Tasks, status'[t] = "uncommitted"
                 PROVE  \E q \in Requests : task[q] = t /\ pc'[q] \in InTransaction
      OBVIOUS
    <3>1. t # task[r] /\ status[t] = "uncommitted"
      BY <1>0 DEF TypeOK
    <3>2. PICK q \in Requests : task[q] = t /\ pc[q] \in InTransaction
      BY <3>1 DEF TypeOK
    <3> QED BY <1>0, <3>1, <3>2 DEF TypeOK
  <2> QED BY <2>1, <2>2, <2>3, <2>4 DEF TypeOK
<1>2. PairHeld'
  <2>1. /\ \A q \in Requests : q # r => pc'[q] = pc[q]
        /\ pc'[r] = "ended" /\ UNCHANGED <<task, pair, pairOf>>
    BY <1>0 DEF TypeOK
  <2>2. /\ status'[task[r]] = "open"
        /\ \A t \in Tasks : t # task[r] => status'[t] = status[t]
    BY <1>0 DEF TypeOK
  <2>3. \A q \in Requests : Writing(q)' => Writing(q) /\ task[q] \in Tasks
    BY <2>1 DEF TypeOK, PairHeld, Writing
  <2>4. \A q \in Requests : Writing(q) /\ q # r => Writing(q)'
    BY <2>1 DEF Writing
  <2>5. \A t \in Tasks : status'[t] = "uncommitted" =>
          \E q \in Requests : Writing(q)' /\ task'[q] = t
    BY <2>1, <2>2, <2>4 DEF PairHeld
  <2>6. \A q \in Requests : Writing(q)' =>
          /\ task'[q] # None /\ pairOf'[task'[q]] = pair'[q]
          /\ status'[task'[q]] \in {"open", "uncommitted"}
    BY <2>1, <2>2, <2>3 DEF PairHeld
  <2>7. \A q \in Requests :
          pc'[q] \in {"new", "posting", "looking", "opening", "inserting"} => task'[q] = None
    BY <2>1 DEF PairHeld
  <2>8. \A p, q \in Requests : Writing(p)' /\ Writing(q)' /\ pair'[p] = pair'[q] => p = q
    BY <2>1, <2>3 DEF PairHeld
  <2> QED BY <2>5, <2>6, <2>7, <2>8 DEF PairHeld
<1>3. KeyHeld'
  <2>1. /\ \A q \in Requests \ {r} : pc'[q] = pc[q]
        /\ pc'[r] = "ended" /\ UNCHANGED <<key, began, now>>
    BY <1>0 DEF TypeOK
  <2>2. /\ binding'[key[r]] = [task |-> task[r], at |-> began[r]]
        /\ binding'[key[r]] # None
        /\ \A k \in Keys \ {key[r]} : binding'[k] = binding[k]
    BY <1>0 DEF TypeOK
  <2>3. ASSUME NEW q \in Requests, pc'[q] = "committing"
        PROVE  MayBind(q)'
    <3>1. pc[q] = "committing" /\ key[q] \in Keys /\ key[q] # key[r]
      BY <2>1, <2>3 DEF KeyHeld, HoldsKey, Asked, InTransaction
    <3> QED BY <2>1, <2>2, <3>1 DEF KeyHeld, MayBind
  <2>4. ASSUME NEW q \in Requests, pc'[q] \in {"refused", "replaying"}
        PROVE  ~MayBind(q)'
    <3>1. key[q] \in Keys /\ ~MayBind(q) /\ began[q] \in Nat
      BY <2>1, <2>4 DEF KeyHeld, Asked, InTransaction, TypeOK
    <3>2. CASE key[q] # key[r]
      BY <2>1, <2>2, <3>1, <3>2 DEF MayBind
    <3>3. CASE key[q] = key[r]
      <4>1. binding[key[r]] # None /\ binding[key[r]].at \in Nat
        BY <1>0, <3>1, <3>3 DEF MayBind, TypeOK
      <4> QED BY <1>0, <2>1, <2>2, <3>1, <3>3, <4>1 DEF MayBind
    <3> QED BY <3>2, <3>3
  <2>5. \A p, q \in Requests : HoldsKey(p, key[p])' /\ HoldsKey(q, key[p])' => p = q
    BY <2>1 DEF KeyHeld, HoldsKey
  <2>6. ASSUME NEW k \in Keys, binding'[k] # None
        PROVE  binding'[k].at <= now' /\ status'[binding'[k].task] \in {"open", "closed"}
    <3>1. CASE k = key[r]
      BY <1>0, <2>1, <2>2, <3>1 DEF TypeOK
    <3>2. CASE k # key[r]
      <4>1. binding'[k] = binding[k] /\ binding[k].task \in Tasks
        BY <2>2, <2>6, <3>2 DEF TypeOK
      <4> QED BY <2>1, <2>6, <4>1 DEF KeyHeld, TypeOK
    <3> QED BY <3>1, <3>2
  <2> QED BY <2>3, <2>4, <2>5, <2>6 DEF KeyHeld
<1>4. \A q \in Requests : Asked(q)'
  <2>1. Asked(r)'
    BY <1>0 DEF TypeOK, Asked, InTransaction
  <2>2. \A q \in Requests \ {r} :
          outcome'[q] = outcome[q] /\ told'[q] = told[q] /\ pc'[q] = pc[q]
    BY <1>0 DEF TypeOK
  <2> QED BY <2>1, <2>2 DEF Asked
<1>5. AnswerStands'
  <2> SUFFICES ASSUME NEW q \in Requests, outcome'[q] = "task", key[q] # None
               PROVE  LET b == binding'[key[q]] IN
                        /\ b # None
                        /\ \/ b.task = told'[q] /\ b.at = since'[q]
                           \/ b.at >= since'[q] + TTL
    BY DEF AnswerStands
  <2>1. key[q] \in Keys
    BY DEF TypeOK
  <2>2. binding'[key[r]] = [task |-> task[r], at |-> began[r]]
        /\ binding'[key[r]] # None
    BY <1>0 DEF TypeOK
  <2>3. CASE q = r
    <3>1. told'[r] = task[r] /\ since'[r] = began[r]
      BY <1>0, <2>3 DEF TypeOK
    <3> QED BY <2>2, <2>3, <3>1
  <2>4. CASE q # r
    <3>1. outcome[q] = "task" /\ told'[q] = told[q] /\ since'[q] = since[q]
      BY <1>0, <2>4 DEF TypeOK
    <3>2. CASE key[q] # key[r]
      <4>1. binding'[key[q]] = binding[key[q]]
        BY <2>1, <3>2 DEF TypeOK
      <4> QED BY <3>1, <4>1 DEF AnswerStands
    <3>3. CASE key[q] = key[r]
      <4>1. binding[key[r]] # None /\ binding[key[r]].at >= since[q]
        BY <2>1, <3>1, <3>3 DEF AnswerStands, TypeOK
      <4>2. binding[key[r]].at + TTL <= began[r]
        BY <1>0, <4>1 DEF MayBind
      <4>3. since[q] \in Nat /\ binding[key[r]].at \in Nat
        BY <1>0, <4>1 DEF TypeOK
      <4>4. began[r] >= since[q] + TTL
        BY <1>0, <4>1, <4>2, <4>3
      <4> QED BY <2>2, <3>1, <3>3, <4>4
    <3> QED BY <3>2, <3>3
  <2> QED BY <2>3, <2>4
<1>6. AnswerFresh'
  <2>1. outcome'[r] = "task" => since'[r] = began[r]
    BY <1>0 DEF TypeOK
  <2>2. \A q \in Requests \ {r} : outcome'[q] = outcome[q] /\ since'[q] = since[q]
    BY <1>0 DEF TypeOK
  <2>3. began[r] + TTL > started[r]
    BY <1>0
  <2> QED BY <2>1, <2>2, <2>3 DEF AnswerFresh
<1>7. AnswerFits' BY DEF TypeOK, AnswerFits, Asked, InTransaction, KeyHeld,
                         PairHeld, Writing
<1>8. OneOpenPerPair' BY DEF TypeOK, OneOpenPerPair, PairHeld, Writing
<1> QED BY <1>1, <1>2, <1>3, <1>4, <1>5, <1>6, <1>7, <1>8

(* What a refused transaction wrote reached nobody.                        *)
LEMMA RollbackIInv ==
  ASSUME IInv, NEW r \in Requests, Rollback(r)
  PROVE  IInv'
<1> USE PostsAssumption DEF IInv, dbVars, requestVars, answerVars, Rollback,
                            AfterRollback, Undo, GoTo
<1>1. TypeOK' BY DEF TypeOK, InTransaction, Asked, PairHeld, KeyHeld, Writing
<1>2. PairHeld' BY DEF TypeOK, PairHeld, Writing, InTransaction
<1>3. KeyHeld' BY DEF TypeOK, KeyHeld, HoldsKey, MayBind, Asked, InTransaction,
                      PairHeld, Writing
<1>4. \A q \in Requests : Asked(q)' BY DEF TypeOK, Asked, InTransaction
<1>5. AnswerStands' BY DEF TypeOK, AnswerStands, Asked, InTransaction, KeyHeld,
                           MayBind
<1>6. AnswerFresh' BY DEF TypeOK, AnswerFresh, Asked, InTransaction
<1>7. AnswerFits' BY DEF TypeOK, AnswerFits, Asked, InTransaction, KeyHeld,
                         PairHeld, Writing
<1>8. OneOpenPerPair' BY DEF TypeOK, OneOpenPerPair, PairHeld, Writing
<1> QED BY <1>1, <1>2, <1>3, <1>4, <1>5, <1>6, <1>7, <1>8

(* The same of one that failed.                                            *)
LEMMA AbortIInv ==
  ASSUME IInv, NEW r \in Requests, Abort(r)
  PROVE  IInv'
<1> USE PostsAssumption DEF IInv, dbVars, requestVars, answerVars, Abort, Undo,
                            Answer
<1>1. TypeOK' BY DEF TypeOK, InTransaction, Asked, PairHeld, KeyHeld, Writing
<1>2. PairHeld' BY DEF TypeOK, PairHeld, Writing, InTransaction
<1>3. KeyHeld' BY DEF TypeOK, KeyHeld, HoldsKey, MayBind, Asked, InTransaction,
                      PairHeld, Writing
<1>4. \A q \in Requests : Asked(q)' BY DEF TypeOK, Asked, InTransaction
<1>5. AnswerStands' BY DEF TypeOK, AnswerStands, Asked, InTransaction, KeyHeld,
                           MayBind
<1>6. AnswerFresh' BY DEF TypeOK, AnswerFresh, Asked, InTransaction
<1>7. AnswerFits' BY DEF TypeOK, AnswerFits, Asked, InTransaction, KeyHeld,
                         PairHeld, Writing
<1>8. OneOpenPerPair' BY DEF TypeOK, OneOpenPerPair, PairHeld, Writing
<1> QED BY <1>1, <1>2, <1>3, <1>4, <1>5, <1>6, <1>7, <1>8

(* A task a post holds is not closed under it.                             *)
LEMMA CloseTasksIInv ==
  ASSUME IInv, NEW S \in SUBSET Tasks, CloseTasks(S)
  PROVE  IInv'
<1> USE PostsAssumption DEF IInv, dbVars, requestVars, answerVars, CloseTasks
<1>1. TypeOK' BY DEF TypeOK, PairFree, HoldsPair
<1>2. PairHeld' BY DEF TypeOK, PairHeld, Writing, PairFree, HoldsPair
<1>3. KeyHeld' BY DEF TypeOK, KeyHeld, HoldsKey, MayBind
<1>4. \A q \in Requests : Asked(q)' BY DEF TypeOK, Asked, InTransaction
<1>5. AnswerStands' BY DEF TypeOK, AnswerStands
<1>6. AnswerFresh' BY DEF TypeOK, AnswerFresh
<1>7. AnswerFits' BY DEF TypeOK, AnswerFits, Asked
<1>8. OneOpenPerPair' BY DEF TypeOK, OneOpenPerPair
<1> QED BY <1>1, <1>2, <1>3, <1>4, <1>5, <1>6, <1>7, <1>8

(* Time passes.                                                            *)
LEMMA TickIInv ==
  ASSUME IInv, Tick
  PROVE  IInv'
<1> USE PostsAssumption DEF IInv, dbVars, requestVars, answerVars, Tick
<1>1. TypeOK' BY DEF TypeOK, PairFree, HoldsPair
<1>2. PairHeld' BY DEF TypeOK, PairHeld, Writing, PairFree, HoldsPair
<1>3. KeyHeld' BY DEF TypeOK, KeyHeld, HoldsKey, MayBind
<1>4. \A q \in Requests : Asked(q)' BY DEF TypeOK, Asked, InTransaction
<1>5. AnswerStands' BY DEF TypeOK, AnswerStands
<1>6. AnswerFresh' BY DEF TypeOK, AnswerFresh
<1>7. AnswerFits' BY DEF TypeOK, AnswerFits, Asked
<1>8. OneOpenPerPair' BY DEF TypeOK, OneOpenPerPair
<1> QED BY <1>1, <1>2, <1>3, <1>4, <1>5, <1>6, <1>7, <1>8

(* The invariant is inductive.                                             *)
LEMMA NextIInv == IInv /\ [Next]_vars => IInv'
<1> SUFFICES ASSUME IInv, [Next]_vars PROVE IInv'
  OBVIOUS
<1>1. CASE UNCHANGED vars
  <2> USE <1>1 DEF vars, dbVars, requestVars, answerVars, IInv
  <2>1. TypeOK' BY DEF TypeOK
  <2>2. PairHeld' BY DEF PairHeld, Writing
  <2>3. KeyHeld' BY DEF KeyHeld, HoldsKey, MayBind
  <2>4. \A q \in Requests : Asked(q)' BY DEF Asked
  <2>5. AnswerStands' /\ AnswerFresh' BY DEF AnswerStands, AnswerFresh
  <2>6. AnswerFits' /\ OneOpenPerPair' BY DEF AnswerFits, OneOpenPerPair
  <2> QED BY <2>1, <2>2, <2>3, <2>4, <2>5, <2>6
<1>2. ASSUME NEW r \in Requests, Arrive(r) \/ Advance(r) \/ Abort(r)
      PROVE  IInv'
  BY <1>2, ArriveIInv, PostUnkeyedIInv, LookUpIInv, BeginIInv, InsertTaskIInv,
     BindKeyIInv, CommitIInv, RollbackIInv, ReplayByKeyIInv, AbortIInv DEF Advance
<1> QED BY <1>1, <1>2, CloseTasksIInv, TickIInv DEF Next

(* The inductive invariant: a transaction owns its pair from its insert    *)
(* and its key from its bind, and what it may take over cannot change.     *)
THEOREM Invariance == Spec => []IInv
BY InitIInv, NextIInv, PTL DEF Spec

(* The variables keep their types.                                         *)
THEOREM Typing == Spec => []TypeOK
<1>1. IInv => TypeOK BY DEF IInv
<1> QED BY Invariance, <1>1, PTL

(* A retry gets the same update_id back for as long as the key lives.      *)
THEOREM AnswersStand == Spec => []AnswerStands
<1>1. IInv => AnswerStands BY DEF IInv
<1> QED BY Invariance, <1>1, PTL

(* Nobody is answered from an expired binding.                             *)
THEOREM AnswersFresh == Spec => []AnswerFresh
<1>1. IInv => AnswerFresh BY DEF IInv
<1> QED BY Invariance, <1>1, PTL

(* An identifier names a row that is there, of the pair asked for.         *)
THEOREM AnswersFit == Spec => []AnswerFits
<1>1. IInv => AnswerFits BY DEF IInv
<1> QED BY Invariance, <1>1, PTL

(* Racing, refused and failed posts leave one open task of a pair.         *)
THEOREM OneOpen == Spec => []OneOpenPerPair
<1>1. IInv => OneOpenPerPair BY DEF IInv
<1> QED BY Invariance, <1>1, PTL

(* Only Commit writes a binding or makes a keyed task show.                *)
LEMMA OnlyCommit ==
  ASSUME IInv, [Next]_vars
  PROVE  UNCHANGED binding \/ \E r \in Requests : Commit(r)
BY DEF Next, Advance, vars, Arrive, PostUnkeyed, InsertsTask, LookUp, Begin,
       InsertTask, BindKey, Rollback, ReplayByKey, Abort, CloseTasks, Tick, Undo,
       dbVars

(* No post ever changes a binding that is alive.                           *)
THEOREM BindingsLive == Spec => LiveBindingKept
<1> DEFINE Kept == \A k \in Keys :
       binding'[k] # binding[k] =>
         \/ binding[k] = None
         \/ binding[k].at + TTL <= now
<1>1. IInv /\ [Next]_vars => Kept
  <2> SUFFICES ASSUME IInv, [Next]_vars, NEW k \in Keys, binding'[k] # binding[k]
               PROVE  binding[k] = None \/ binding[k].at + TTL <= now
    OBVIOUS
  <2>1. PICK r \in Requests : Commit(r)
    BY OnlyCommit
  <2>2. k = key[r] /\ pc[r] = "committing"
    BY <2>1 DEF Commit, IInv, TypeOK
  <2>3. MayBind(r) /\ began[r] <= now
    BY <2>2 DEF IInv, KeyHeld, Asked, InTransaction
  <2>4. binding[k] # None => binding[k].at \in Nat
    BY DEF IInv, TypeOK
  <2>5. began[r] \in Nat /\ now \in Nat /\ TTL \in Nat
    BY PostsAssumption DEF IInv, TypeOK
  <2> QED BY <2>2, <2>3, <2>4, <2>5 DEF MayBind
<1>2. IInv /\ [Next]_vars => [Kept]_vars
  BY <1>1
<1> QED BY Invariance, <1>2, PTL DEF Spec, LiveBindingKept

(* Only ReplayByKey answers that a key is bound to nothing.                *)
LEMMA OnlyReplay ==
  ASSUME IInv, [Next]_vars, NEW r \in Requests, outcome[r] = "none",
         outcome'[r] = "unbound"
  PROVE  ReplayByKey(r) /\ ~Found(key[r])
<1>1. ASSUME NEW q \in Requests, q # r, Arrive(q) \/ Advance(q) \/ Abort(q)
      PROVE  outcome'[r] = outcome[r]
  BY <1>1 DEF Advance, Arrive, PostUnkeyed, LookUp, ReplayTask, Begin, InsertTask,
              BindKey, Commit, Rollback, AfterRollback, ReplayByKey, Abort, Answer,
              GoTo, answerVars, IInv, TypeOK
<1>2. CASE Arrive(r) \/ Advance(r) \/ Abort(r)
  <2>1. outcome' = outcome \/ \E o \in {"task", "conflict", "error"} :
          outcome' = [outcome EXCEPT ![r] = o] \/ (ReplayByKey(r) /\ ~Found(key[r]))
    BY <1>2 DEF Advance, Arrive, PostUnkeyed, LookUp, ReplayTask, Begin, InsertTask,
                BindKey, Commit, Rollback, AfterRollback, ReplayByKey, Abort, Answer,
                GoTo, answerVars
  <2> QED BY <2>1 DEF IInv, TypeOK
<1>3. CASE UNCHANGED vars \/ Tick \/ \E S \in SUBSET Tasks : CloseTasks(S)
  BY <1>3 DEF vars, Tick, CloseTasks, answerVars
<1> QED BY <1>1, <1>2, <1>3 DEF Next

(* A refusal that finds no binding to replay was overtaken by a lifetime.  *)
THEOREM UnboundByAge == Spec => UnboundOnlyByAge
<1> DEFINE ByAge == \A r \in Requests :
       outcome[r] = "none" /\ outcome'[r] = "unbound" =>
         LET b == binding[key[r]] IN
           b # None /\ b.at + TTL > began[r] /\ b.at + TTL <= now
<1>1. IInv /\ [Next]_vars => ByAge
  <2> SUFFICES ASSUME IInv, [Next]_vars, NEW r \in Requests, outcome[r] = "none",
                      outcome'[r] = "unbound"
               PROVE  /\ binding[key[r]] # None
                      /\ binding[key[r]].at + TTL > began[r]
                      /\ binding[key[r]].at + TTL <= now
    OBVIOUS
  <2>1. pc[r] = "replaying" /\ ~Found(key[r])
    BY OnlyReplay DEF ReplayByKey
  <2>2. key[r] \in Keys /\ ~MayBind(r)
    BY <2>1 DEF IInv, KeyHeld, Asked
  <2>3. binding[key[r]] # None
    BY <2>2 DEF MayBind
  <2>4. binding[key[r]].at \in Nat /\ began[r] \in Nat /\ now \in Nat /\ TTL \in Nat
    BY <2>2, <2>3, PostsAssumption DEF IInv, TypeOK
  <2> QED BY <2>1, <2>2, <2>3, <2>4 DEF MayBind, Found
<1>2. IInv /\ [Next]_vars => [ByAge]_vars
  BY <1>1
<1> QED BY Invariance, <1>2, PTL DEF Spec, UnboundOnlyByAge

(* The row of a keyed post appears with its key bound to it; one without a *)
(* key names the row in its answer, unless the answer is lost.             *)
THEOREM TasksReported == Spec => NobodysTask
<1> DEFINE
      Reports(r, t) ==
        /\ pc[r] # "ended" /\ task'[r] = t
        /\ IF key[r] = None
           THEN told'[r] = t \/ outcome'[r] = "error"
           ELSE binding'[key[r]] # binding[key[r]] /\ binding'[key[r]].task = t
      Reported == \A t \in Tasks : status[t] # "open" /\ status'[t] = "open" =>
        \E r \in Requests : Reports(r, t)
<1>1. IInv /\ [Next]_vars => Reported
  <2> SUFFICES ASSUME IInv, [Next]_vars, NEW t \in Tasks, status[t] # "open",
                      status'[t] = "open"
               PROVE  \E r \in Requests : Reports(r, t)
    OBVIOUS
  <2>1. ASSUME NEW r \in Requests, PostUnkeyed(r)
        PROVE  Reports(r, t)
    BY <2>1 DEF PostUnkeyed, InsertsTask, Answer, IInv, TypeOK, Asked
  <2>2. ASSUME NEW r \in Requests, Commit(r)
        PROVE  Reports(r, t)
    <3>1. t = task[r] /\ key[r] \in Keys /\ status[t] = "uncommitted"
      BY <2>2 DEF Commit, IInv, TypeOK, PairHeld, Writing, Asked, InTransaction
    <3>2. binding'[key[r]] = [task |-> t, at |-> began[r]] /\ binding'[key[r]] # None
      BY <2>2, <3>1, PostsAssumption DEF Commit, IInv, TypeOK
    <3>3. binding[key[r]] # None => binding[key[r]].task # t
      BY <3>1 DEF IInv, KeyHeld
    <3>4. pc[r] # "ended" /\ task'[r] = t /\ key[r] # None
      BY <2>2, <3>1, PostsAssumption DEF Commit
    <3> QED BY <3>2, <3>3, <3>4
  <2>3. CASE UNCHANGED vars \/ Tick \/ \E S \in SUBSET Tasks : CloseTasks(S)
    BY <2>3 DEF vars, dbVars, Tick, CloseTasks, IInv, TypeOK
  <2>4. ASSUME NEW r \in Requests,
               \/ Arrive(r) \/ LookUp(r) \/ ReplayByKey(r) \/ Begin(r) \/ BindKey(r)
               \/ InsertTask(r) \/ Rollback(r) \/ Abort(r)
        PROVE  FALSE
    <3>1. CASE Arrive(r) \/ LookUp(r) \/ ReplayByKey(r) \/ Begin(r) \/ BindKey(r)
      BY <3>1 DEF Arrive, LookUp, ReplayByKey, Begin, BindKey, dbVars
    <3>2. CASE InsertTask(r)
      BY <3>2 DEF InsertTask, InsertsTask, IInv, TypeOK
    <3>3. CASE Rollback(r) \/ Abort(r)
      BY <3>3 DEF Rollback, Abort, Undo, dbVars
    <3> QED BY <2>4, <3>1, <3>2, <3>3
  <2> HIDE DEF Reports
  <2> QED BY <2>1, <2>2, <2>3, <2>4 DEF Next, Advance
<1>2. IInv /\ [Next]_vars => [Reported]_vars
  BY <1>1
<1> QED BY Invariance, <1>2, PTL DEF Spec, NobodysTask
-----------------------------------------------------------------------------
(***************************************************************************)
(* Nobody waits for ever.                                                  *)
(***************************************************************************)
LEMMA MakersInit == Init => Makers
BY DEF Init, Makers

(* A statement that writes a row records it with the request, which had    *)
(* none.                                                                   *)
LEMMA InsertMakers ==
  ASSUME IInv, Makers, NEW r \in Requests, PostUnkeyed(r) \/ InsertTask(r)
  PROVE  Makers'
<1>1. PICK t \in Tasks :
        /\ \E s \in {"open", "uncommitted"} : InsertsTask(pair[r], t, s)
        /\ task' = [task EXCEPT ![r] = t]
  BY DEF PostUnkeyed, InsertTask
<1>2. task[r] = None /\ task \in [Requests -> Tasks \cup {None}]
  BY DEF PostUnkeyed, InsertTask, IInv, TypeOK, PairHeld
<1>3. task'[r] = t /\ \A q \in Requests \ {r} : task'[q] = task[q]
  BY <1>1, <1>2
<1>4. \A u \in Tasks : status'[u] # "absent" => u = t \/ status[u] # "absent"
  BY <1>1 DEF InsertsTask, IInv, TypeOK
<1>5. \A u \in Tasks : u # None
  BY PostsAssumption
<1> QED
  BY <1>2, <1>3, <1>4, <1>5 DEF Makers

(* Every other step leaves the makers what they were, and makes no row.    *)
LEMMA KeepsMakers ==
  ASSUME IInv,
         \/ Tick \/ UNCHANGED vars \/ \E S \in SUBSET Tasks : CloseTasks(S)
         \/ \E r \in Requests :
              \/ Arrive(r) \/ LookUp(r) \/ Begin(r) \/ BindKey(r) \/ ReplayByKey(r)
              \/ Commit(r) \/ Rollback(r) \/ Abort(r)
  PROVE  task' = task /\ \A t \in Tasks : status'[t] # "absent" => status[t] # "absent"
<1> USE DEF dbVars
<1>1. CASE Tick \/ UNCHANGED vars
  BY <1>1 DEF Tick, vars
<1>2. ASSUME NEW S \in SUBSET Tasks, CloseTasks(S)
      PROVE  task' = task /\ \A t \in Tasks : status'[t] # "absent" => status[t] # "absent"
  BY <1>2 DEF CloseTasks, IInv, TypeOK
<1>3. ASSUME NEW r \in Requests,
             Arrive(r) \/ LookUp(r) \/ Begin(r) \/ BindKey(r) \/ ReplayByKey(r)
      PROVE  task' = task /\ status' = status
  BY <1>3 DEF Arrive, LookUp, Begin, BindKey, ReplayByKey
<1>4. ASSUME NEW r \in Requests, Commit(r)
      PROVE  task' = task /\ \A t \in Tasks : status'[t] # "absent" => status[t] # "absent"
  BY <1>4 DEF Commit, IInv, TypeOK, PairHeld, Writing
<1>5. ASSUME NEW r \in Requests, Rollback(r) \/ Abort(r)
      PROVE  task' = task /\ \A t \in Tasks : status'[t] # "absent" => status[t] # "absent"
  BY <1>5 DEF Rollback, Abort, Undo
<1> QED
  BY <1>1, <1>2, <1>3, <1>4, <1>5

LEMMA MakersStep == IInv /\ Makers /\ [Next]_vars => Makers'
<1> SUFFICES ASSUME IInv, Makers, [Next]_vars PROVE Makers'
  OBVIOUS
<1>1. CASE \E r \in Requests : PostUnkeyed(r) \/ InsertTask(r)
  BY <1>1, InsertMakers
<1>2. CASE \/ Tick \/ UNCHANGED vars \/ \E S \in SUBSET Tasks : CloseTasks(S)
           \/ \E r \in Requests :
                \/ Arrive(r) \/ LookUp(r) \/ Begin(r) \/ BindKey(r) \/ ReplayByKey(r)
                \/ Commit(r) \/ Rollback(r) \/ Abort(r)
  BY <1>2, KeepsMakers DEF Makers
<1> QED
  BY <1>1, <1>2 DEF Next, Advance

(* A request that has yet to make its row finds an identifier for it.      *)
LEMMA IdentifierLeft ==
  ASSUME IsFiniteSet(Requests), IsFiniteSet(Tasks),
         Cardinality(Requests) <= Cardinality(Tasks),
         IInv, Makers, NEW r \in Requests, pc[r] \in {"posting", "inserting"}
  PROVE  \E t \in Tasks : status[t] = "absent"
<1> SUFFICES ASSUME \A t \in Tasks : status[t] # "absent" PROVE FALSE
  OBVIOUS
<1>1. task[r] \notin Tasks
  BY PostsAssumption DEF IInv, PairHeld
<1>2. \A t \in Tasks : \E q \in Requests \ {r} : task[q] = t
  BY <1>1 DEF Makers
<1> DEFINE maker == [t \in Tasks |-> CHOOSE q \in Requests \ {r} : task[q] = t]
<1>3. \A t \in Tasks : maker[t] \in Requests \ {r} /\ task[maker[t]] = t
  BY <1>2
<1>4. maker \in [Tasks -> Requests \ {r}]
  BY <1>3
<1>5. /\ IsFiniteSet(Requests \ {r})
      /\ Cardinality(Requests \ {r}) = Cardinality(Requests) - 1
  BY FS_RemoveElement
<1>6. Cardinality(Requests) \in Nat /\ Cardinality(Tasks) \in Nat
  BY FS_CardinalityType
<1>7. Cardinality(Requests \ {r}) < Cardinality(Tasks)
  BY <1>5, <1>6
<1> HIDE DEF maker
<1>8. \E t, u \in Tasks : t # u /\ maker[t] = maker[u]
  BY <1>4, <1>5, <1>7, FS_PigeonHole
<1> QED
  BY <1>3, <1>8

(* Posts, their locks and their refusals never end up all waiting: whoever *)
(* holds a key does not wait; without one of these whoever holds a pair    *)
(* does not wait; and without one of these nobody does.  The database has  *)
(* an identifier for every request, as gen_random_uuid has.                *)
THEOREM SomebodyReady ==
  ASSUME IsFiniteSet(Requests), IsFiniteSet(Tasks),
         Cardinality(Requests) <= Cardinality(Tasks)
  PROVE  Spec => []SomeoneReady
<1>1. ASSUME IInv, Makers, NEW r \in Requests, Unanswered(r)
      PROVE  \E q \in Requests : Ready(q)
  <2>1. CASE \E q \in Requests : pc[q] \in {"committing", "refused"}
    BY <2>1 DEF Ready
  <2>2. CASE /\ \A q \in Requests : pc[q] \notin {"committing", "refused"}
             /\ \E q \in Requests : pc[q] = "binding"
    BY <2>2 DEF Ready, KeyFree, HoldsKey
  <2>3. CASE \A q \in Requests : pc[q] \notin {"binding", "committing", "refused"}
    <3>1. PairFree(pair[r])
      BY <2>3 DEF PairFree, HoldsPair
    <3>2. pc[r] \in {"posting", "inserting"} => CanInsert(pair[r])
      BY <1>1, <3>1, IdentifierLeft DEF CanInsert
    <3>3. Ready(r)
      BY <1>1, <2>3, <3>2 DEF Ready, Unanswered, IInv, TypeOK, InTransaction
    <3> QED
      BY <3>3
  <2> QED
    BY <2>1, <2>2, <2>3
<1>2. IInv /\ Makers => SomeoneReady
  BY <1>1 DEF SomeoneReady
<1> QED
  BY <1>2, Invariance, MakersInit, MakersStep, PTL DEF Spec

(* The stations of CreateTask, from the last to the first.                 *)
Left ==
  [ended |-> 0, replaying |-> 1, refused |-> 2, committing |-> 2, binding |-> 3,
   inserting |-> 4, opening |-> 5, looking |-> 6, posting |-> 6, new |-> 7]

(* CreateTask has no loop: a refused post replays and does not bind again, *)
(* so every step a request takes brings it nearer to its answer.           *)
THEOREM NoStepTwice ==
  Spec => [][\A r \in Requests : (Arrive(r) \/ Advance(r) \/ Abort(r)) =>
               Left[pc'[r]] < Left[pc[r]]]_vars
<1> DEFINE Nearer(r) == Left[pc'[r]] < Left[pc[r]]
<1>1. ASSUME TypeOK, NEW r \in Requests, Arrive(r) \/ Advance(r) \/ Abort(r)
      PROVE  Nearer(r)
  <2>1. /\ Left["ended"] = 0 /\ Left["replaying"] = 1 /\ Left["refused"] = 2
        /\ Left["committing"] = 2 /\ Left["binding"] = 3 /\ Left["inserting"] = 4
        /\ Left["opening"] = 5 /\ Left["looking"] = 6 /\ Left["posting"] = 6
        /\ Left["new"] = 7
    BY DEF Left
  <2> USE <1>1 DEF TypeOK, GoTo, Answer, InTransaction
  <2>2. CASE Arrive(r)
    BY <2>1, <2>2 DEF Arrive
  <2>3. CASE PostUnkeyed(r)
    BY <2>1, <2>3 DEF PostUnkeyed
  <2>4. CASE LookUp(r) \/ ReplayByKey(r)
    BY <2>1, <2>4 DEF LookUp, ReplayByKey, ReplayTask
  <2>5. CASE Begin(r) \/ InsertTask(r) \/ BindKey(r)
    BY <2>1, <2>5 DEF Begin, InsertTask, BindKey
  <2>6. CASE Commit(r) \/ Rollback(r)
    BY <2>1, <2>6 DEF Commit, Rollback, AfterRollback
  <2>7. CASE Abort(r)
    BY <2>1, <2>7 DEF Abort
  <2> QED
    BY <1>1, <2>2, <2>3, <2>4, <2>5, <2>6, <2>7 DEF Advance
<1>2. TypeOK =>
        [\A r \in Requests : (Arrive(r) \/ Advance(r) \/ Abort(r)) => Nearer(r)]_vars
  BY <1>1
<1> QED
  BY <1>2, Typing, PTL
-----------------------------------------------------------------------------
(***************************************************************************)
(* A post is one step of AtomicPosts: its commit, or the statement it is   *)
(* answered from.  What a transaction writes before its commit is not      *)
(* shown, and what its rollback takes back was not.                        *)
(***************************************************************************)
ShownStatus == [t \in Tasks |-> IF Shown(t) THEN status[t] ELSE "absent"]
ShownPair == [t \in Tasks |-> IF Shown(t) THEN pairOf[t] ELSE None]
Phases == [r \in Requests |-> Phase(r)]

LEMMA InitRefines == Init => Atomic!Init
BY DEF Init, Atomic!Init, Atomic!RowsInit, Shown, Phase

(* A request between its arrival and its answer.                           *)
LEMMA GoesOn ==
  ASSUME NEW r \in Requests, NEW l, GoTo(r, l),
         pc \in [Requests -> InTransaction \cup
                  {"new", "posting", "looking", "opening", "replaying", "ended"}],
         pc[r] \notin {"new", "ended"}, l \notin {"new", "ended"}
  PROVE  UNCHANGED <<Phases, outcome, told>>
BY DEF GoTo, Phases, Phase, answerVars

LEMMA IsAnswered ==
  ASSUME TypeOK, NEW r \in Requests, NEW o, NEW t, NEW at, Answer(r, o, t, at),
         pc[r] \notin {"new", "ended"}, UNCHANGED <<now, requestVars>>
  PROVE  Atomic!Answer(r, o, t)
<1>1. Phases[r] = "waiting" /\ Phases' = [Phases EXCEPT ![r] = "ended"]
  BY DEF TypeOK, Answer, Phases, Phase
<1>2. outcome' = [outcome EXCEPT ![r] = o] /\ told' = [told EXCEPT ![r] = t]
  BY DEF Answer
<1> QED
  BY <1>1, <1>2 DEF Atomic!Answer, Atomic!asked, requestVars, Phases

(* What becomes of the rows shown.                                         *)
LEMMA RowsStay ==
  ASSUME UNCHANGED <<status, pairOf>>
  PROVE  UNCHANGED Atomic!tasks
BY DEF Atomic!tasks, Shown

LEMMA Unshown ==
  ASSUME \A t \in Tasks : \/ status'[t] = status[t] /\ pairOf'[t] = pairOf[t]
                          \/ ~Shown(t) /\ ~Shown(t)'
  PROVE  UNCHANGED Atomic!tasks
<1>1. UNCHANGED <<ShownStatus, ShownPair>>
  BY DEF ShownStatus, ShownPair, Shown
<1> QED
  BY <1>1 DEF Atomic!tasks, ShownStatus, ShownPair

LEMMA RowOpens ==
  ASSUME TypeOK, NEW t \in Tasks, NEW p \in Pairs, ~Shown(t),
         \A u \in Tasks : status[u] = "open" => pairOf[u] # p,
         status' = [status EXCEPT ![t] = "open"],
         pairOf' = [pairOf EXCEPT ![t] = p]
  PROVE  Atomic!Asks(p, t)
<1>1. /\ \A u \in Tasks : ShownStatus[u] = "open" => ShownPair[u] # p
      /\ ShownStatus[t] = "absent"
  BY DEF ShownStatus, ShownPair, Shown
<1>2. /\ ShownStatus' = [ShownStatus EXCEPT ![t] = "open"]
      /\ ShownPair' = [ShownPair EXCEPT ![t] = p]
  BY DEF TypeOK, ShownStatus, ShownPair, Shown
<1> QED
  BY <1>1, <1>2 DEF Atomic!Asks, Atomic!OpenTask, ShownStatus, ShownPair

LEMMA RowMet ==
  ASSUME NEW t \in Tasks, NEW p, status[t] = "open", pairOf[t] = p,
         UNCHANGED <<status, pairOf>>
  PROVE  Atomic!Asks(p, t)
BY RowsStay DEF Atomic!Asks, Shown
-----------------------------------------------------------------------------
LEMMA ArriveRefines ==
  ASSUME IInv, NEW r \in Requests, Arrive(r)
  PROVE  Atomic!Arrive(r)
<1>1. Phases[r] = "new" /\ Phases' = [Phases EXCEPT ![r] = "waiting"]
  BY DEF IInv, TypeOK, Arrive, GoTo, Phases, Phase
<1>2. UNCHANGED Atomic!tasks
  BY RowsStay DEF Arrive, dbVars
<1> QED
  BY <1>1, <1>2 DEF Arrive, GoTo, dbVars, answerVars, Atomic!Arrive, Phases

LEMMA PostUnkeyedRefines ==
  ASSUME IInv, NEW r \in Requests, PostUnkeyed(r)
  PROVE  Atomic!PostUnkeyed(r)
<1> USE DEF IInv
<1>1. PICK t \in Tasks :
        /\ InsertsTask(pair[r], t, "open")
        /\ Answer(r, "task", t, now) \/ Answer(r, "error", None, now)
  BY DEF PostUnkeyed
<1>2. key[r] = None /\ pair[r] \in Pairs /\ pc[r] = "posting"
  BY DEF PostUnkeyed, Asked
<1>3. Atomic!Answer(r, "task", t) \/ Atomic!Answer(r, "error", None)
  BY <1>1, <1>2, IsAnswered DEF PostUnkeyed
<1>4. Atomic!Asks(pair[r], t)
  <2>1. CASE t \in OpenTasks(pair[r]) /\ UNCHANGED <<status, pairOf>>
    BY <2>1, RowMet DEF OpenTasks
  <2>2. CASE /\ OpenTasks(pair[r]) = {} /\ status[t] = "absent"
             /\ status' = [status EXCEPT ![t] = "open"]
             /\ pairOf' = [pairOf EXCEPT ![t] = pair[r]]
    BY <1>2, <2>2, RowOpens DEF OpenTasks, Shown
  <2> QED
    BY <1>1, <2>1, <2>2 DEF InsertsTask
<1>5. UNCHANGED binding
  BY <1>1 DEF InsertsTask
<1> QED
  BY <1>2, <1>3, <1>4, <1>5 DEF Atomic!PostUnkeyed

(* The row met has stayed open since the insert, and the row written is    *)
(* the only one of its pair: the lock on the pair saw to both.             *)
LEMMA CommitRefines ==
  ASSUME IInv, NEW r \in Requests, Commit(r)
  PROVE  Atomic!PostKeyed(r)
<1> USE DEF IInv
<1>1. PICK t \in Tasks, p \in Pairs :
        /\ t = task[r] /\ p = pair[r] /\ pairOf[t] = p
        /\ status[t] \in {"open", "uncommitted"}
  BY DEF Commit, Asked, InTransaction, PairHeld, Writing, TypeOK
<1>2. PICK at \in started[r]..now : at = began[r]
  BY DEF Commit, Asked, InTransaction, TypeOK
<1>3. key[r] \in Keys /\ key[r] # None
  BY PostsAssumption DEF Commit, Asked, InTransaction
<1>4. Atomic!FreeAt(key[r], at)
  BY <1>2 DEF Commit, KeyHeld, MayBind, Atomic!FreeAt
<1>5. Atomic!Asks(p, t)
  <2>1. CASE status[t] = "open"
    <3>1. UNCHANGED <<status, pairOf>>
      BY <1>1, <2>1 DEF Commit, TypeOK
    <3> QED
      BY <1>1, <2>1, <3>1, RowMet
  <2>2. CASE status[t] = "uncommitted"
    <3>1. \A u \in Tasks : status[u] = "open" => pairOf[u] # p
      BY <1>1, <2>2 DEF OneOpenPerPair
    <3>2. /\ status' = [status EXCEPT ![t] = "open"]
          /\ pairOf' = [pairOf EXCEPT ![t] = p]
      BY <1>1 DEF Commit, TypeOK
    <3>3. ~Shown(t)
      BY <2>2 DEF Shown
    <3> QED
      BY <3>1, <3>2, <3>3, RowOpens
  <2> QED
    BY <1>1, <2>1, <2>2
<1>6. Atomic!Answer(r, "task", t) \/ Atomic!Answer(r, "error", None)
  BY <1>1, IsAnswered DEF Commit
<1>7. binding' = [binding EXCEPT ![key[r]] = [task |-> t, at |-> at]]
  BY <1>1, <1>2 DEF Commit
<1> HIDE DEF IInv
<1> QED
  BY <1>1, <1>3, <1>4, <1>5, <1>6, <1>7 DEF Atomic!PostKeyed

(* What a key is bound to is a row that is shown.                          *)
LEMMA ReplayRefines ==
  ASSUME IInv, NEW r \in Requests, Found(key[r]), ReplayTask(r),
         key[r] \in Keys, pc[r] \in {"looking", "replaying"},
         UNCHANGED <<dbVars, now, requestVars>>
  PROVE  Atomic!Replay(r)
<1> USE PostsAssumption DEF IInv
<1>1. PICK b \in [task : Tasks, at : Nat] : b = binding[key[r]]
  BY DEF Found, TypeOK
<1>2. ~Atomic!FreeAt(key[r], now)
  BY <1>1 DEF Found, Atomic!FreeAt, TypeOK
<1>3. ShownPair[b.task] = pairOf[b.task]
  BY <1>1 DEF Found, KeyHeld, ShownPair, Shown
<1>4. IF pairOf[b.task] = pair[r] THEN Atomic!Answer(r, "task", b.task)
      ELSE Atomic!Answer(r, "conflict", None)
  BY <1>1, IsAnswered DEF ReplayTask
<1>5. UNCHANGED Atomic!tasks /\ UNCHANGED binding
  BY RowsStay DEF dbVars
<1> HIDE DEF IInv
<1> QED
  BY <1>1, <1>2, <1>3, <1>4, <1>5 DEF Atomic!Replay, ShownPair

LEMMA LookUpRefines ==
  ASSUME IInv, NEW r \in Requests, LookUp(r)
  PROVE  Atomic!Replay(r) \/ UNCHANGED Atomic!vars
<1>1. key[r] \in Keys
  BY DEF LookUp, IInv, Asked
<1>2. CASE Found(key[r]) /\ ReplayTask(r)
  BY <1>1, <1>2, ReplayRefines DEF LookUp
<1>3. CASE GoTo(r, "opening")
  <2>1. UNCHANGED <<Phases, outcome, told>>
    BY <1>3, GoesOn DEF LookUp, IInv, TypeOK
  <2>2. UNCHANGED Atomic!tasks
    BY RowsStay DEF LookUp, dbVars
  <2> QED
    BY <2>1, <2>2 DEF LookUp, dbVars, requestVars, Phases, Atomic!vars, Atomic!asked
<1> QED
  BY <1>2, <1>3 DEF LookUp

(* The binding that refused the post was good when its transaction began.  *)
LEMMA ReplayByKeyRefines ==
  ASSUME IInv, NEW r \in Requests, ReplayByKey(r)
  PROVE  Atomic!Replay(r) \/ Atomic!LosesKey(r)
<1> USE PostsAssumption
<1>1. key[r] \in Keys /\ key[r] # None
  BY DEF ReplayByKey, IInv, Asked
<1>2. CASE Found(key[r]) /\ ReplayTask(r)
  BY <1>1, <1>2, ReplayRefines DEF ReplayByKey
<1>3. CASE ~Found(key[r]) /\ Answer(r, "unbound", None, now)
  <2>1. ~MayBind(r) /\ started[r] <= began[r]
    BY DEF ReplayByKey, IInv, KeyHeld, Asked
  <2>2. /\ binding[key[r]] # None /\ binding[key[r]].at \in Nat
        /\ started[r] \in Nat /\ began[r] \in Nat /\ now \in Nat
    BY <1>1, <2>1 DEF MayBind, IInv, TypeOK
  <2>3. Atomic!FreeAt(key[r], now) /\ ~Atomic!FreeAt(key[r], started[r])
    BY <1>3, <2>1, <2>2 DEF Found, MayBind, Atomic!FreeAt
  <2>4. Atomic!Answer(r, "unbound", None)
    BY <1>3, IsAnswered DEF ReplayByKey, IInv
  <2>5. UNCHANGED Atomic!tasks /\ UNCHANGED binding
    BY RowsStay DEF ReplayByKey, dbVars
  <2> QED
    BY <1>1, <2>3, <2>4, <2>5 DEF Atomic!LosesKey
<1> QED
  BY <1>2, <1>3 DEF ReplayByKey
-----------------------------------------------------------------------------
LEMMA UndoUnseen ==
  ASSUME IInv, NEW r \in Requests, Undo(r)
  PROVE  UNCHANGED Atomic!tasks /\ UNCHANGED binding
<1>1. \A t \in Tasks : \/ status'[t] = status[t] /\ pairOf'[t] = pairOf[t]
                       \/ ~Shown(t) /\ ~Shown(t)'
  BY DEF Undo, Shown, IInv, TypeOK
<1> QED
  BY <1>1, Unshown DEF Undo

LEMMA AbortRefines ==
  ASSUME IInv, NEW r \in Requests, Abort(r)
  PROVE  Atomic!Fail(r)
<1>1. UNCHANGED Atomic!tasks /\ UNCHANGED binding
  BY UndoUnseen, RowsStay DEF Abort, dbVars
<1>2. Atomic!Answer(r, "error", None)
  BY IsAnswered DEF Abort, IInv
<1> QED
  BY <1>1, <1>2 DEF Atomic!Fail

(* The statements of a transaction before its end, and its rollback.       *)
LEMMA StatementsUnseen ==
  ASSUME IInv, NEW r \in Requests,
         Begin(r) \/ InsertTask(r) \/ BindKey(r) \/ Rollback(r)
  PROVE  UNCHANGED Atomic!vars
<1>1. UNCHANGED <<Phases, outcome, told>>
  <2>1. PICK l \in {"inserting", "binding", "committing", "refused", "replaying"} :
          GoTo(r, l)
    BY DEF Begin, InsertTask, BindKey, Rollback, AfterRollback
  <2> QED
    BY <2>1, GoesOn DEF Begin, InsertTask, BindKey, Rollback, IInv, TypeOK
<1>2. UNCHANGED Atomic!tasks /\ UNCHANGED binding
  <2>1. CASE Begin(r) \/ BindKey(r)
    BY <2>1, RowsStay DEF Begin, BindKey, dbVars
  <2>2. CASE InsertTask(r)
    <3>1. PICK t \in Tasks : InsertsTask(pair[r], t, "uncommitted")
      BY <2>2 DEF InsertTask
    <3>2. \A u \in Tasks : \/ status'[u] = status[u] /\ pairOf'[u] = pairOf[u]
                           \/ ~Shown(u) /\ ~Shown(u)'
      BY <3>1 DEF InsertsTask, Shown, IInv, TypeOK
    <3> QED
      BY <3>1, <3>2, Unshown DEF InsertsTask
  <2>3. CASE Rollback(r)
    BY <2>3, UndoUnseen DEF Rollback
  <2> QED
    BY <2>1, <2>2, <2>3
<1>3. UNCHANGED <<now, requestVars>>
  BY DEF Begin, InsertTask, BindKey, Rollback
<1> QED
  BY <1>1, <1>2, <1>3 DEF requestVars, Phases, Atomic!vars, Atomic!asked

LEMMA CloseTasksRefines ==
  ASSUME IInv, NEW S \in SUBSET Tasks, CloseTasks(S)
  PROVE  Atomic!Close(S)
<1>1. /\ \A t \in S : ShownStatus[t] = "open"
      /\ ShownStatus' = [t \in Tasks |-> IF t \in S THEN "closed" ELSE ShownStatus[t]]
      /\ UNCHANGED ShownPair
  <2>1. /\ \A u \in Tasks : Shown(u)' <=> Shown(u)
        /\ \A t \in S : Shown(t) /\ status[t] = "open" /\ status'[t] = "closed"
        /\ \A t \in Tasks \ S : status'[t] = status[t]
    BY DEF CloseTasks, Shown, IInv, TypeOK
  <2>2. UNCHANGED ShownPair
    BY <2>1 DEF CloseTasks, ShownPair
  <2>3. /\ \A t \in S : ShownStatus[t] = "open"
        /\ ShownStatus' = [t \in Tasks |-> IF t \in S THEN "closed" ELSE ShownStatus[t]]
    BY <2>1 DEF ShownStatus
  <2> QED
    BY <2>2, <2>3
<1>2. UNCHANGED Phases
  BY DEF CloseTasks, Phases, Phase
<1>3. Atomic!CloseTasks(S)
  BY <1>1 DEF Atomic!CloseTasks, ShownStatus, ShownPair
<1> QED
  BY <1>2, <1>3 DEF CloseTasks, requestVars, answerVars, Atomic!Close, Atomic!asked, Phases

LEMMA StepRefines == IInv /\ [Next]_vars => [Atomic!Next]_(Atomic!vars)
<1> SUFFICES ASSUME IInv, [Next]_vars PROVE [Atomic!Next]_(Atomic!vars)
  OBVIOUS
<1>1. ASSUME NEW r \in Requests, Arrive(r) \/ Abort(r)
      PROVE  Atomic!Next
  BY <1>1, ArriveRefines, AbortRefines DEF Atomic!Next
<1>2. ASSUME NEW r \in Requests, Advance(r)
      PROVE  Atomic!Next \/ UNCHANGED Atomic!vars
  <2>1. CASE PostUnkeyed(r) \/ Commit(r)
    BY <2>1, PostUnkeyedRefines, CommitRefines DEF Atomic!Next
  <2>2. CASE LookUp(r) \/ ReplayByKey(r)
    BY <2>2, LookUpRefines, ReplayByKeyRefines DEF Atomic!Next
  <2>3. CASE Begin(r) \/ InsertTask(r) \/ BindKey(r) \/ Rollback(r)
    BY <2>3, StatementsUnseen
  <2> QED
    BY <1>2, <2>1, <2>2, <2>3 DEF Advance
<1>3. ASSUME NEW S \in SUBSET Tasks, CloseTasks(S)
      PROVE  Atomic!Next
  BY <1>3, CloseTasksRefines DEF Atomic!Next
<1>4. CASE Tick
  <2>1. UNCHANGED Atomic!tasks /\ UNCHANGED Phases
    BY <1>4, RowsStay DEF Tick, dbVars, Phases, Phase
  <2>2. Atomic!Tick
    BY <1>4, <2>1 DEF Tick, dbVars, requestVars, answerVars, Atomic!Tick, Atomic!asked, Phases
  <2> QED
    BY <2>2 DEF Atomic!Next
<1>5. CASE UNCHANGED vars
  <2>1. UNCHANGED Atomic!tasks /\ UNCHANGED Phases
    BY <1>5, RowsStay DEF vars, dbVars, Phases, Phase
  <2> QED
    BY <1>5, <2>1 DEF vars, dbVars, requestVars, answerVars, Atomic!vars, Atomic!asked, Phases
<1> QED
  BY <1>1, <1>2, <1>3, <1>4, <1>5 DEF Next

(* CreateTask, with a key or without, is one step to everybody else.       *)
THEOREM Implementation == Spec => PostsAreAtomic
BY InitRefines, StepRefines, Invariance, PTL DEF Spec, PostsAreAtomic, Atomic!Spec

(* A waiting request has asked for a pair that ParsePair accepted.         *)
LEMMA RowsOnly ==
  ASSUME IInv, [Atomic!Next]_(Atomic!vars)
  PROVE  [Atomic!RowsNext]_(Atomic!tasks)
<1>1. ASSUME NEW r \in Requests, Phases[r] = "waiting"
      PROVE  pair[r] \in Pairs
  BY <1>1 DEF Phases, Phase, IInv, Asked
<1>2. ASSUME NEW r \in Requests, Atomic!PostUnkeyed(r) \/ Atomic!PostKeyed(r)
      PROVE  [Atomic!RowsNext]_(Atomic!tasks)
  <2>1. PICK t \in Tasks : Atomic!Asks(pair[r], t) /\ Phases[r] = "waiting"
    BY <1>2 DEF Atomic!PostUnkeyed, Atomic!PostKeyed, Atomic!Answer, Phases
  <2>2. PICK p \in Pairs : p = pair[r]
    BY <1>1, <2>1
  <2>3. Atomic!OpenTask(t, p) \/ UNCHANGED Atomic!tasks
    BY <2>1, <2>2 DEF Atomic!Asks, Atomic!OpenTask
  <2> QED
    BY <2>3 DEF Atomic!RowsNext
<1>3. ASSUME NEW r \in Requests,
             \/ Atomic!Arrive(r) \/ Atomic!Replay(r)
             \/ Atomic!LosesKey(r) \/ Atomic!Fail(r)
      PROVE  UNCHANGED Atomic!tasks
  BY <1>3 DEF Atomic!Arrive, Atomic!Replay, Atomic!LosesKey, Atomic!Fail
<1>4. ASSUME NEW S \in SUBSET Tasks, Atomic!Close(S)
      PROVE  Atomic!RowsNext
  BY <1>4 DEF Atomic!Close, Atomic!RowsNext
<1>5. CASE Atomic!Tick \/ UNCHANGED Atomic!vars
  BY <1>5 DEF Atomic!Tick, Atomic!vars
<1> QED
  BY <1>2, <1>3, <1>4, <1>5 DEF Atomic!Next

(* The rows of CreateTask's requests are the rows UpdateQueue works on:    *)
(* both keep to PairTasks.                                                 *)
THEOREM RowsAgree == Spec => Atomic!RowsSpec
<1>1. Init => Atomic!RowsInit
  BY InitRefines DEF Atomic!Init
<1>2. IInv /\ [Next]_vars => [Atomic!RowsNext]_(Atomic!tasks)
  BY StepRefines, RowsOnly
<1> QED
  BY <1>1, <1>2, Invariance, PTL DEF Spec, Atomic!RowsSpec
=============================================================================
