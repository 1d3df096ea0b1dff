------------------------------ MODULE ApiProofs ------------------------------
(***************************************************************************)
(* What TLAPS proves of Api, for any clients, requests, keys and values:   *)
(* the open transactions, the branch a transaction takes, the types, and   *)
(* that a batch or a transaction nobody disturbs runs as if it were alone. *)
(***************************************************************************)
EXTENDS Api, FoldLemmas, FiniteSetTheorems, TLAPS

Steps == {"done", "check", "execute", "rollback", "put", "delete"}

\* The functions that handlers update in place
Shape ==
    /\ at \in [Client -> Steps]
    /\ request \in [Client -> Request \cup {None}]
    /\ position \in [Client -> Nat \ {0}]
    /\ met \in [Client -> BOOLEAN]
    /\ status \in [Client -> {0, OK, BadRequest, NotFound, InternalError}]

-----------------------------------------------------------------------------
(* Shape *)

LEMMA StartShape ==
    ASSUME Shape, NEW c \in Client, NEW r \in Request, NEW d, Start(c, r, d)
    PROVE  /\ request' \in [Client -> Request \cup {None}]
           /\ position' \in [Client -> Nat \ {0}]
           /\ met' \in [Client -> BOOLEAN]
BY DEF Shape, Start

LEMMA AnswerShape ==
    ASSUME Shape, NEW c \in Client, NEW code \in {OK, BadRequest, NotFound, InternalError},
           Answer(c, code)
    PROVE  /\ at' = [at EXCEPT ![c] = "done"]
           /\ at' \in [Client -> Steps]
           /\ status' \in [Client -> {0, OK, BadRequest, NotFound, InternalError}]
BY DEF Shape, Answer, Steps

LEMMA GoOnShape ==
    ASSUME Shape, NEW c \in Client, NEW step \in Steps, GoOn(c, step)
    PROVE  /\ at' = [at EXCEPT ![c] = step]
           /\ at' \in [Client -> Steps]
           /\ status' \in [Client -> {0, OK, BadRequest, NotFound, InternalError}]
BY DEF Shape, GoOn

LEMMA ConditionShape ==
    ASSUME Shape, NEW c \in Client, CheckCondition(c)
    PROVE  Shape'
<1> DEFINE compare == request[c].compare
           holds == compare = <<>> \/ Holds(IF closed THEN None ELSE data[compare[position[c]].key],
                                            compare[position[c]])
<1>1. NextCondition(c, holds) /\ UNCHANGED <<request, status>>
  BY DEF CheckCondition
<1>2. holds \in BOOLEAN
  BY DEF Holds
<1> HIDE DEF holds
<1>3. position[c] \in Nat \ {0} /\ position[c] + 1 \in Nat \ {0} /\ "execute" \in Steps
  BY DEF Shape, Steps
<1>4. /\ at' = at \/ at' = [at EXCEPT ![c] = "execute"]
      /\ met' = met \/ met' = [met EXCEPT ![c] = holds]
      /\ position' = [position EXCEPT ![c] = position[c] + 1] \/ position' = [position EXCEPT ![c] = 1]
  BY <1>1 DEF NextCondition
<1>5. at' \in [Client -> Steps]
  BY <1>3, <1>4 DEF Shape
<1>6. met' \in [Client -> BOOLEAN]
  BY <1>2, <1>4 DEF Shape
<1>7. position' \in [Client -> Nat \ {0}]
  BY <1>3, <1>4 DEF Shape
<1> QED
  BY <1>1, <1>5, <1>6, <1>7 DEF Shape

LEMMA HandleShape ==
    ASSUME Shape, NEW c \in Client, Handle(c)
    PROVE  Shape'
<1>1. ASSUME NEW r \in Request, HandleKey(c, r)
      PROVE  Shape'
  <2>1. \E d : Start(c, r, d)
    BY <1>1 DEF HandleKey
  <2>2. \E code \in {OK, NotFound, InternalError} : Answer(c, code)
    BY <1>1 DEF HandleKey
  <2> QED
    BY <2>1, <2>2, StartShape, AnswerShape DEF Shape
<1>2. ASSUME NEW r \in Request, HandleRange(c, r)
      PROVE  Shape'
  <2>1. Start(c, r, data)
    BY <1>2 DEF HandleRange
  <2>2. \E code \in {OK, InternalError} : Answer(c, code)
    BY <1>2 DEF HandleRange
  <2> QED
    BY <2>1, <2>2, StartShape, AnswerShape DEF Shape
<1>3. ASSUME NEW r \in Request, StartBatch(c, r)
      PROVE  Shape'
  <2>1. Start(c, r, data)
    BY <1>3 DEF StartBatch
  <2>2. GoOn(c, "put") \/ Answer(c, BadRequest)
    BY <1>3 DEF StartBatch
  <2> QED
    BY <2>1, <2>2, StartShape, AnswerShape, GoOnShape DEF Shape, Steps
<1>4. ASSUME NEW r \in Request, BeginTransaction(c, r)
      PROVE  Shape'
  <2>1. Start(c, r, data)
    BY <1>4 DEF BeginTransaction
  <2>2. GoOn(c, "check") \/ Answer(c, InternalError)
    BY <1>4 DEF BeginTransaction
  <2> QED
    BY <2>1, <2>2, StartShape, AnswerShape, GoOnShape DEF Shape, Steps
<1>5. CASE BatchPut(c) \/ BatchDelete(c)
  <2>1. UNCHANGED <<request, position, met>>
    BY <1>5 DEF BatchPut, BatchDelete
  <2>2. GoOn(c, "delete") \/ \E code \in {OK, InternalError} : Answer(c, code)
    BY <1>5 DEF BatchPut, BatchDelete
  <2> QED
    BY <2>1, <2>2, AnswerShape, GoOnShape DEF Shape, Steps
<1>6. CASE CheckCondition(c)
  BY <1>6, ConditionShape
<1>7. CASE ExecuteOperation(c)
  BY <1>7 DEF ExecuteOperation, Shape, Steps
<1>8. CASE Rollback(c) \/ Commit(c)
  <2>1. UNCHANGED <<request, position, met>>
    BY <1>8 DEF Rollback, Commit
  <2>2. \E code \in {OK, InternalError} : Answer(c, code)
    BY <1>8 DEF Rollback, Commit
  <2> QED
    BY <2>1, <2>2, AnswerShape DEF Shape
<1> QED
  BY <1>1, <1>2, <1>3, <1>4, <1>5, <1>6, <1>7, <1>8 DEF Handle

-----------------------------------------------------------------------------
(* The open transactions *)

Serving(c) == at[c] \in {"check", "execute", "rollback"}

\* A step of handler c moves no other handler, and while the engine is open it opens and ends c's
\* transaction only
LEMMA HandleTransactions ==
    ASSUME Shape, NEW c \in Client, Handle(c)
    PROVE  /\ closed' = closed
           /\ \A x \in Client : x # c => at'[x] = at[x]
           /\ ~closed =>
                \/ transactions' = transactions /\ (Serving(c)' <=> Serving(c))
                \/ transactions' = transactions \cup {c} /\ Serving(c)'
                \/ transactions' = transactions \ {c} /\ ~Serving(c)'
<1>1. ASSUME NEW r \in Request, HandleKey(c, r) \/ HandleRange(c, r) \/ StartBatch(c, r)
      PROVE  /\ at[c] = "done" /\ UNCHANGED <<closed, transactions>>
             /\ \/ at' = [at EXCEPT ![c] = "done"]
                \/ at' = [at EXCEPT ![c] = "put"]
  <2>1. CASE HandleKey(c, r)
    BY <2>1 DEF HandleKey, Start, Answer
  <2>2. CASE HandleRange(c, r)
    BY <2>2 DEF HandleRange, Start, Answer
  <2>3. CASE StartBatch(c, r)
    BY <2>3 DEF StartBatch, Start, Answer, GoOn
  <2> QED
    BY <1>1, <2>1, <2>2, <2>3
<1>2. ASSUME NEW r \in Request, BeginTransaction(c, r)
      PROVE  /\ at[c] = "done" /\ closed' = closed
             /\ \/ closed /\ at' = [at EXCEPT ![c] = "done"]
                \/ ~closed /\ at' = [at EXCEPT ![c] = "check"] /\ transactions' = transactions \cup {c}
  BY <1>2 DEF BeginTransaction, Start, Answer, GoOn
<1>3. ASSUME BatchPut(c) \/ BatchDelete(c)
      PROVE  /\ at[c] \in {"put", "delete"} /\ UNCHANGED <<closed, transactions>>
             /\ \/ at' = [at EXCEPT ![c] = "done"]
                \/ at' = [at EXCEPT ![c] = "delete"]
  BY <1>3 DEF BatchPut, BatchDelete, Answer, GoOn
<1>4. ASSUME CheckCondition(c) \/ ExecuteOperation(c)
      PROVE  /\ at[c] \in {"check", "execute"} /\ UNCHANGED <<closed, transactions>>
             /\ \/ at' = at
                \/ at' = [at EXCEPT ![c] = "execute"]
                \/ at' = [at EXCEPT ![c] = "rollback"]
  BY <1>4 DEF CheckCondition, NextCondition, ExecuteOperation, engineVars
<1>5. ASSUME Rollback(c) \/ Commit(c)
      PROVE  /\ closed' = closed
             /\ at' = [at EXCEPT ![c] = "done"]
             /\ ~closed => transactions' = transactions \ {c}
  BY <1>5 DEF Rollback, Commit, Answer
<1>6. CASE \E r \in Request : HandleKey(c, r) \/ HandleRange(c, r) \/ StartBatch(c, r)
  BY <1>1, <1>6 DEF Shape, Serving
<1>7. CASE \E r \in Request : BeginTransaction(c, r)
  BY <1>2, <1>7 DEF Shape, Serving
<1>8. CASE BatchPut(c) \/ BatchDelete(c)
  BY <1>3, <1>8 DEF Shape, Serving
<1>9. CASE CheckCondition(c) \/ ExecuteOperation(c)
  BY <1>4, <1>9 DEF Shape, Serving
<1>10. CASE Rollback(c) \/ Commit(c)
  BY <1>5, <1>10 DEF Shape, Serving
<1> QED
  BY <1>6, <1>7, <1>8, <1>9, <1>10 DEF Handle

LEMMA InitShape == Init => Shape
BY DEF Init, Shape, Steps

LEMMA NextShape == Shape /\ [Next]_vars => Shape'
<1> SUFFICES ASSUME Shape, [Next]_vars
             PROVE  Shape'
  OBVIOUS
<1>1. CASE CloseEngine \/ UNCHANGED vars
  BY <1>1 DEF CloseEngine, vars, handlerVars, Shape
<1> QED
  BY <1>1, HandleShape DEF Next

\* As long as the engine is open, its open transactions are those of the handlers under way: none is
\* left behind by a handler that failed, none is ended by another's (server.go:997-1027).
THEOREM OpenTransactionsServed == Spec => []OpenTransactionsAreServed
<1>1. Init => OpenTransactionsAreServed
  BY DEF Init, OpenTransactionsAreServed
<1>2. Shape /\ Shape' /\ OpenTransactionsAreServed /\ [Next]_vars => OpenTransactionsAreServed'
  <2> SUFFICES ASSUME Shape, OpenTransactionsAreServed, [Next]_vars
               PROVE  OpenTransactionsAreServed'
    OBVIOUS
  <2>1. CASE CloseEngine \/ UNCHANGED vars
    BY <2>1 DEF CloseEngine, vars, engineVars, handlerVars, OpenTransactionsAreServed
  <2>2. ASSUME NEW c \in Client, Handle(c)
        PROVE  OpenTransactionsAreServed'
    <3> SUFFICES ASSUME ~closed
                 PROVE  transactions' = {x \in Client : Serving(x)'}
      BY <2>2, HandleTransactions DEF OpenTransactionsAreServed, Serving
    <3>1. transactions = {x \in Client : Serving(x)}
      BY DEF OpenTransactionsAreServed, Serving
    <3>2. \A x \in Client : x # c => (Serving(x)' <=> Serving(x))
      BY <2>2, HandleTransactions DEF Serving
    <3>3. /\ \/ transactions' = transactions /\ (Serving(c)' <=> Serving(c))
             \/ transactions' = transactions \cup {c} /\ Serving(c)'
             \/ transactions' = transactions \ {c} /\ ~Serving(c)'
      BY <2>2, HandleTransactions
    <3> HIDE DEF Serving
    <3> QED
      BY <3>1, <3>2, <3>3
  <2> QED
    BY <2>1, <2>2 DEF Next
<1> QED
  BY <1>1, <1>2, InitShape, NextShape, PTL DEF Spec

-----------------------------------------------------------------------------
(* The branch of a transaction *)

CalledFor(c) ==
    /\ met[c] => \A i \in DOMAIN request[c].compare : <<i, TRUE>> \in seen[c]
    /\ ~met[c] => \E i \in DOMAIN request[c].compare : <<i, FALSE>> \in seen[c]

\* What has been seen of the conditions so far: what holds of them now is noted, and those before the
\* next one have been true
Checking(c) ==
    at[c] = "check" =>
        /\ request[c] \in Request /\ request[c].type = "txn"
        /\ Truths(data, request[c]) \subseteq seen[c]
        /\ request[c].compare = <<>> \/ position[c] <= Len(request[c].compare)
        /\ ~closed => \A i \in 1 .. position[c] - 1 : <<i, TRUE>> \in seen[c]
Executing(c) == at[c] = "execute" /\ ~closed => CalledFor(c)
Answered(c) ==
    at[c] = "done" /\ request[c] # None /\ request[c].type = "txn" /\ status[c] = OK => CalledFor(c)
Batching(c) == at[c] \in {"put", "delete"} => request[c].type = "batch"
Branch(c) == Checking(c) /\ Executing(c) /\ Answered(c) /\ Batching(c)
BranchInv == \A c \in Client : Branch(c)

\* Engine calls note down what they make of other requests' conditions
LEMMA SeenGrows ==
    ASSUME NEW c \in Client, Handle(c), NEW x \in Client, x # c
    PROVE  /\ seen[x] \subseteq seen'[x]
           /\ at[x] = "check" /\ Truths(data, request[x]) \subseteq seen[x] =>
                 Truths(data', request[x]) \subseteq seen'[x]
<1>1. ASSUME NEW d, data' = d, seen'[x] = SeenAfter(c, d, x)
      PROVE  /\ seen[x] \subseteq seen'[x]
             /\ at[x] = "check" => Truths(data', request[x]) \subseteq seen'[x]
  BY <1>1 DEF SeenAfter
<1>2. ASSUME NEW d, Write(c, d)
      PROVE  data' = d /\ seen'[x] = SeenAfter(c, d, x)
  BY <1>2 DEF Write
<1>3. ASSUME NEW r, NEW d, Start(c, r, d)
      PROVE  data' = d /\ seen'[x] = SeenAfter(c, d, x)
  BY <1>3 DEF Start
<1>4. \/ \E r, d : Start(c, r, d)
      \/ \E d : Write(c, d)
      \/ UNCHANGED <<data, seen>>
  <2>1. CASE \E r \in Request : HandleKey(c, r) \/ HandleRange(c, r)
                                \/ StartBatch(c, r) \/ BeginTransaction(c, r)
    BY <2>1 DEF HandleKey, HandleRange, StartBatch, BeginTransaction
  <2>2. CASE BatchPut(c) \/ BatchDelete(c)
    BY <2>2 DEF BatchPut, BatchDelete
  <2>3. CASE CheckCondition(c) \/ ExecuteOperation(c)
    BY <2>3 DEF CheckCondition, ExecuteOperation, engineVars, historyVars
  <2>4. CASE Rollback(c) \/ Commit(c)
    BY <2>4 DEF Rollback, Commit, historyVars
  <2> QED
    BY <2>1, <2>2, <2>3, <2>4 DEF Handle
<1> QED
  BY <1>1, <1>2, <1>3, <1>4

LEMMA HandlerAlone ==
    ASSUME Shape, NEW c \in Client, Handle(c), NEW x \in Client, x # c
    PROVE  /\ at'[x] = at[x] /\ request'[x] = request[x] /\ position'[x] = position[x]
           /\ met'[x] = met[x] /\ status'[x] = status[x]
<1>1. ASSUME NEW code, Answer(c, code)
      PROVE  status'[x] = status[x]
  BY <1>1 DEF Answer, Shape
<1>2. ASSUME NEW step, GoOn(c, step)
      PROVE  status'[x] = status[x]
  BY <1>2 DEF GoOn, Shape
<1>3. ASSUME NEW r, NEW d, Start(c, r, d)
      PROVE  request'[x] = request[x] /\ position'[x] = position[x] /\ met'[x] = met[x]
  BY <1>3 DEF Start, Shape
<1>4. CASE \E r \in Request : HandleKey(c, r) \/ HandleRange(c, r)
                              \/ StartBatch(c, r) \/ BeginTransaction(c, r)
  <2>1. \E r, d : Start(c, r, d)
    BY <1>4 DEF HandleKey, HandleRange, StartBatch, BeginTransaction
  <2>2. (\E code : Answer(c, code)) \/ (\E step : GoOn(c, step))
    BY <1>4 DEF HandleKey, HandleRange, StartBatch, BeginTransaction
  <2> QED
    BY <1>1, <1>2, <1>3, <2>1, <2>2, HandleTransactions
<1>5. CASE BatchPut(c) \/ BatchDelete(c) \/ Rollback(c) \/ Commit(c)
  <2>1. UNCHANGED <<request, position, met>>
    BY <1>5 DEF BatchPut, BatchDelete, Rollback, Commit
  <2>2. (\E code : Answer(c, code)) \/ (\E step : GoOn(c, step))
    BY <1>5 DEF BatchPut, BatchDelete, Rollback, Commit
  <2> QED
    BY <1>1, <1>2, <2>1, <2>2, HandleTransactions
<1>6. CASE CheckCondition(c) \/ ExecuteOperation(c)
  BY <1>6, HandleTransactions DEF CheckCondition, NextCondition, ExecuteOperation, Shape
<1> QED
  BY <1>4, <1>5, <1>6 DEF Handle

LEMMA OthersBranch ==
    ASSUME Shape, BranchInv, NEW c \in Client, Handle(c), NEW x \in Client, x # c
    PROVE  Branch(x)'
<1>1. closed' = closed
  BY HandleTransactions
<1>2. Checking(x) /\ Executing(x) /\ Answered(x) /\ Batching(x)
  BY DEF BranchInv, Branch, Branch
<1>3. CalledFor(x) => CalledFor(x)'
  BY HandlerAlone, SeenGrows DEF CalledFor
<1>4. Checking(x)'
  BY <1>1, <1>2, HandlerAlone, SeenGrows DEF Checking
<1>5. Executing(x)' /\ Answered(x)'
  BY <1>1, <1>2, <1>3, HandlerAlone DEF Executing, Answered
<1>6. Batching(x)'
  BY <1>2, HandlerAlone DEF Batching
<1> QED
  BY <1>4, <1>5, <1>6 DEF Branch

\* checkConditions and the conditions' truth agree while the engine is open
LEMMA HoldsIsTruth ==
    ASSUME NEW d, NEW cond \in Compare
    PROVE  Holds(d[cond.key], cond) <=> Satisfied(d, cond)
BY ApiAssumption DEF Holds, Satisfied, Compare

LEMMA ConditionBranch ==
    ASSUME Shape, BranchInv, NEW c \in Client, CheckCondition(c)
    PROVE  Branch(c)'
<1> DEFINE compare == request[c].compare
           i == position[c]
           holds == compare = <<>> \/ Holds(IF closed THEN None ELSE data[compare[i].key], compare[i])
<1>1. /\ at[c] = "check" /\ NextCondition(c, holds)
      /\ UNCHANGED <<closed, data, request, seen>>
  BY DEF CheckCondition, engineVars, historyVars
<1>2. /\ request[c] \in Request /\ request[c].type = "txn"
      /\ Truths(data, request[c]) \subseteq seen[c]
      /\ compare = <<>> \/ i <= Len(compare)
      /\ ~closed => \A j \in 1 .. i - 1 : <<j, TRUE>> \in seen[c]
  BY <1>1 DEF BranchInv, Branch, Checking
<1>3. compare \in Seq(Compare) /\ i \in Nat \ {0}
  BY <1>2, ApiAssumption DEF Shape
<1>4. ASSUME NEW j \in DOMAIN compare
      PROVE  <<j, Satisfied(data, compare[j])>> \in seen[c]
  BY <1>2 DEF Truths
<1>5. CASE holds /\ i < Len(compare)
  <2>1. /\ position' = [position EXCEPT ![c] = i + 1]
        /\ UNCHANGED <<at, met>>
    BY <1>1, <1>5 DEF NextCondition
  <2>2. ASSUME ~closed
        PROVE  <<i, TRUE>> \in seen[c]
    <3>1. i \in DOMAIN compare /\ compare # <<>> /\ compare[i] \in Compare
      BY <1>2, <1>3, <1>5
    <3>2. Satisfied(data, compare[i])
      BY <1>5, <2>2, <3>1, HoldsIsTruth
    <3> QED
      BY <1>4, <3>1, <3>2 DEF Satisfied
  <2>3. position'[c] = i + 1
    BY <2>1 DEF Shape
  <2>4. ASSUME ~closed, NEW j \in 1 .. position'[c] - 1
        PROVE  <<j, TRUE>> \in seen[c]
    <3>1. j = i \/ j \in 1 .. i - 1
      BY <1>3, <2>3
    <3> QED
      BY <1>2, <2>2, <2>4, <3>1
  <2>5. position'[c] <= Len(compare)
    BY <1>3, <1>5, <2>3
  <2>6. Checking(c)'
    <3> HIDE DEF holds
    <3> QED
      BY <1>1, <1>2, <2>1, <2>4, <2>5 DEF Checking
  <2> QED
    BY <1>1, <2>1, <2>6 DEF Branch, Executing, Answered, Batching
<1>6. CASE ~(holds /\ i < Len(compare))
  <2>1. at' = [at EXCEPT ![c] = "execute"] /\ met' = [met EXCEPT ![c] = holds]
    BY <1>1, <1>6 DEF NextCondition
  <2>2. at'[c] = "execute"
    BY <2>1 DEF Shape
  <2>3. met'[c] <=> holds
    <3>1. holds \in BOOLEAN
      BY DEF Holds
    <3> HIDE DEF holds
    <3> QED
      BY <2>1, <3>1 DEF Shape
  <2>4. ASSUME ~closed, holds
        PROVE  \A j \in DOMAIN compare : <<j, TRUE>> \in seen[c]
    <3> SUFFICES ASSUME NEW j \in DOMAIN compare
                 PROVE  <<j, TRUE>> \in seen[c]
      OBVIOUS
    <3>1. /\ j \in 1..Len(compare) /\ compare # <<>> /\ Len(compare) \in Nat
          /\ compare[j] \in Compare
      BY <1>3
    <3>2. j < i \/ j = i
      <4> HIDE DEF holds
      <4> QED
        BY <1>3, <1>6, <2>4, <3>1
    <3>3. CASE j < i
      <4>1. j \in 1 .. i - 1
        BY <1>3, <3>1, <3>3
      <4> QED
        BY <1>2, <2>4, <4>1
    <3>4. CASE j = i
      <4>1. Satisfied(data, compare[i])
        BY <2>4, <3>1, <3>4, HoldsIsTruth
      <4> QED
        BY <1>4, <3>4, <4>1 DEF Satisfied
    <3> QED
      BY <3>2, <3>3, <3>4
  <2>5. ASSUME ~closed, ~holds
        PROVE  \E j \in DOMAIN compare : <<j, FALSE>> \in seen[c]
    <3>1. i \in DOMAIN compare /\ compare[i] \in Compare
      BY <1>2, <1>3, <2>5
    <3>2. ~Satisfied(data, compare[i])
      BY <2>5, <3>1, HoldsIsTruth
    <3> QED
      BY <1>4, <3>1, <3>2 DEF Satisfied
  <2>6. ASSUME ~closed
        PROVE  CalledFor(c)'
    <3> HIDE DEF holds
    <3> QED
      BY <1>1, <2>3, <2>4, <2>5, <2>6 DEF CalledFor
  <2> QED
    BY <1>1, <2>2, <2>6 DEF Branch, Checking, Executing, Answered, Batching
<1> QED
  BY <1>5, <1>6

LEMMA BeginBranch ==
    ASSUME Shape, NEW c \in Client, NEW r \in Request, BeginTransaction(c, r)
    PROVE  Branch(c)'
<1>1. /\ r.type = "txn" /\ r.compare \in Seq(Compare)
      /\ Start(c, r, data)
      /\ Answer(c, InternalError) \/ GoOn(c, "check")
  BY ApiAssumption DEF BeginTransaction
<1>2. /\ request'[c] = r /\ position'[c] = 1 /\ data' = data /\ seen'[c] = Truths(data, r)
  BY <1>1 DEF Start, Shape
<1>3. CASE Answer(c, InternalError)
  <2>1. at'[c] = "done" /\ status'[c] = InternalError
    BY <1>3 DEF Answer, Shape
  <2> QED
    BY <2>1 DEF Branch, Checking, Executing, Answered, Batching, InternalError, OK
<1>4. CASE GoOn(c, "check")
  <2>1. at'[c] = "check"
    BY <1>4 DEF GoOn, Shape
  <2>2. r.compare = <<>> \/ 1 <= Len(r.compare)
    BY <1>1
  <2>3. 1 .. position'[c] - 1 = {}
    BY <1>2
  <2> QED
    BY <1>1, <1>2, <2>1, <2>2, <2>3 DEF Branch, Checking, Executing, Answered, Batching
<1> QED
  BY <1>1, <1>3, <1>4

LEMMA ExecuteBranch ==
    ASSUME Shape, BranchInv, NEW c \in Client, ExecuteOperation(c)
    PROVE  Branch(c)'
<1>1. /\ at[c] = "execute" /\ UNCHANGED <<closed, request, met, status>>
      /\ at' = at \/ at' = [at EXCEPT ![c] = "rollback"]
  BY DEF ExecuteOperation
<1>2. at'[c] \in {"execute", "rollback"}
  BY <1>1 DEF Shape
<1>3. seen'[c] = seen[c]
  BY DEF ExecuteOperation, Write, SeenAfter, historyVars
<1>4. ~closed => CalledFor(c)
  BY <1>1 DEF BranchInv, Branch, Executing
<1>5. ~closed => CalledFor(c)'
  BY <1>1, <1>3, <1>4 DEF CalledFor
<1> QED
  BY <1>1, <1>2, <1>5 DEF Branch, Checking, Executing, Answered, Batching

LEMMA EndBranch ==
    ASSUME Shape, BranchInv, NEW c \in Client, Rollback(c) \/ Commit(c)
    PROVE  Branch(c)'
<1>1. /\ UNCHANGED <<closed, request, met, seen>>
      /\ \/ Answer(c, InternalError)
         \/ at[c] = "execute" /\ ~closed /\ Answer(c, OK)
  BY DEF Rollback, Commit, historyVars
<1>2. at'[c] = "done"
  BY <1>1 DEF Answer, Shape
<1>3. status'[c] = OK => at[c] = "execute" /\ ~closed
  BY <1>1 DEF Answer, Shape, OK, InternalError
<1>4. status'[c] = OK => CalledFor(c)'
  BY <1>1, <1>3 DEF BranchInv, Branch, Executing, CalledFor
<1> QED
  BY <1>2, <1>4 DEF Branch, Checking, Executing, Answered, Batching

LEMMA KeyBranch ==
    ASSUME Shape, NEW c \in Client, NEW r \in Request,
           HandleKey(c, r) \/ HandleRange(c, r) \/ StartBatch(c, r)
    PROVE  Branch(c)'
<1>1. /\ r.type # "txn"
      /\ \E d : Start(c, r, d)
      /\ \/ \E code : Answer(c, code)
         \/ r.type = "batch" /\ GoOn(c, "put")
  BY DEF HandleKey, HandleRange, StartBatch
<1>2. request'[c] = r
  BY <1>1 DEF Start, Shape
<1>3. at'[c] = "done" \/ (r.type = "batch" /\ at'[c] = "put")
  BY <1>1 DEF Answer, GoOn, Shape
<1> QED
  BY <1>1, <1>2, <1>3 DEF Branch, Checking, Executing, Answered, Batching

LEMMA BatchBranch ==
    ASSUME Shape, BranchInv, NEW c \in Client, BatchPut(c) \/ BatchDelete(c)
    PROVE  Branch(c)'
<1>1. /\ at[c] \in {"put", "delete"} /\ request' = request
      /\ (\E code : Answer(c, code)) \/ GoOn(c, "delete")
  BY DEF BatchPut, BatchDelete
<1>2. request[c].type = "batch"
  BY <1>1 DEF BranchInv, Branch, Batching
<1>3. at'[c] \in {"done", "delete"}
  BY <1>1 DEF Answer, GoOn, Shape
<1> QED
  BY <1>1, <1>2, <1>3 DEF Branch, Checking, Executing, Answered, Batching

LEMMA NextBranch == Shape /\ BranchInv /\ [Next]_vars => BranchInv'
<1> SUFFICES ASSUME Shape, BranchInv, [Next]_vars
             PROVE  BranchInv'
  OBVIOUS
<1>1. ASSUME NEW c \in Client, Handle(c)
      PROVE  BranchInv'
  <2>1. Branch(c)'
    BY <1>1, KeyBranch, BatchBranch, BeginBranch, ConditionBranch, ExecuteBranch, EndBranch DEF Handle
  <2> QED
    BY <1>1, <2>1, OthersBranch DEF BranchInv
<1>2. CASE CloseEngine \/ UNCHANGED vars
  <2>1. UNCHANGED <<data, at, request, position, met, status, seen>> /\ (~closed' => ~closed)
    BY <1>2 DEF CloseEngine, vars, engineVars, handlerVars, historyVars
  <2>2. ASSUME NEW c \in Client, Branch(c)
        PROVE  Branch(c)'
    <3>1. CalledFor(c) => CalledFor(c)'
      BY <2>1 DEF CalledFor
    <3>2. Executing(c)' /\ Answered(c)' /\ Batching(c)'
      BY <2>1, <2>2, <3>1 DEF Branch, Executing, Answered, Batching
    <3>3. Checking(c)'
      BY <2>1, <2>2 DEF Branch, Checking
    <3> QED
      BY <3>2, <3>3 DEF Branch
  <2> QED
    BY <2>2 DEF BranchInv
<1> QED
  BY <1>1, <1>2 DEF Next

\* The branch a transaction says it took is one its conditions called for, whatever requests come in and
\* however many clients change the keys while the conditions are checked one by one (server.go:1043).
THEOREM BranchCalledFor == Spec => []BranchWasCalledFor
<1>1. Init => BranchInv
  BY DEF Init, BranchInv, Branch, Checking, Executing, Answered, Batching
<1>2. Shape /\ BranchInv => BranchWasCalledFor
  BY DEF BranchInv, Branch, Answered, CalledFor, BranchWasCalledFor
<1> QED
  BY <1>1, <1>2, InitShape, NextShape, NextBranch, PTL DEF Spec
-----------------------------------------------------------------------------
(* Types *)

Data == [Key -> Value \cup {None}]

DataTypes == data \in Data /\ before \in [Client -> Data] /\ closed \in BOOLEAN
HistoryTypes ==
    /\ transactions \subseteq Client /\ disturbed \subseteq Client
    /\ seen \in [Client -> SUBSET (Nat \X BOOLEAN)]

LEMMA OperationTyped ==
    ASSUME NEW o \in Operation
    PROVE  o.op \in {"PUT", "GET", "DELETE", "OTHER"} /\ o.key \in Key /\ o.value \in Value
BY DEF Operation

LEMMA AfterTyped ==
    ASSUME NEW d \in Data, NEW o \in Operation
    PROVE  After(d, o) \in Data
BY OperationTyped DEF After, Data

LEMMA ResultTyped ==
    ASSUME NEW d \in Data, NEW o \in Operation
    PROVE  Result(d, o) \in Value \cup {None}
BY OperationTyped DEF Result, Data

\* A result of None is that of a DELETE.
LEMMA NoneIsDelete ==
    ASSUME NEW d \in Data, NEW o \in Operation, ~Fails(d, o), Result(d, o) = None
    PROVE  o.op = "DELETE"
BY OperationTyped, ApiAssumption DEF Result, Fails

LEMMA OperationsTyped ==
    ASSUME NEW s \in Seq(Operation)
    PROVE  /\ DOMAIN s = 1..Len(s) /\ Len(s) \in Nat
           /\ \A i \in DOMAIN s : s[i] \in Operation /\ s[i] \in ToSet(s)
           /\ \A o \in ToSet(s) : o \in Operation
BY DEF ToSet

LEMMA RequestTyped ==
    ASSUME NEW r \in Request
    PROVE  /\ r # None
           /\ r.type \in {"key", "range", "batch", "txn"}
           /\ r.type = "key" => r.operation \in Operation
           /\ r.type = "range" => r.key \in Nat /\ r.rangeEnd \in Nat /\ r.limit \in Nat
           /\ r.type = "batch" => r.operations \in Seq(Operation)
           /\ r.type = "txn" => /\ r.compare \in Seq(Compare)
                                /\ r.success \in Seq(Operation) /\ r.failure \in Seq(Operation)
<1>1. r # None
  BY ApiAssumption
<1>2. CASE r.type = "key" /\ r.operation \in [op : {"PUT", "GET", "DELETE"}, key : Key, value : Value]
  BY <1>1, <1>2 DEF Operation
<1>3. CASE r.type = "range" /\ {r.key, r.rangeEnd} \subseteq Nat /\ r.limit \in Nat
  BY <1>1, <1>3
<1>4. CASE r.type = "batch" /\ r.operations \in Seq(Operation)
  BY <1>1, <1>4
<1>5. CASE r.type = "txn" /\ r.compare \in Seq(Compare)
                          /\ {r.success, r.failure} \subseteq Seq(Operation)
  BY <1>1, <1>5
<1> QED
  BY <1>2, <1>3, <1>4, <1>5, ApiAssumption

\* The last PUT of a key gives it its value.
LEMMA LastPut ==
    ASSUME NEW s \in Seq(Operation), NEW k \in KeysWith(s, "PUT")
    PROVE  \E i \in DOMAIN s :
              /\ s[i].op = "PUT" /\ s[i].key = k /\ s[i].value \in Value
              /\ LastValue(s, k) = s[i].value
              /\ \A j \in DOMAIN s : s[j].op = "PUT" /\ s[j].key = k => j <= i
<1> DEFINE I == {i \in 1..Len(s) : s[i].op = "PUT" /\ s[i].key = k}
<1>1. I # {} /\ I \subseteq Nat /\ DOMAIN s = 1..Len(s) /\ Len(s) \in Nat
  <2>1. DOMAIN s = 1..Len(s) /\ Len(s) \in Nat
    BY OperationsTyped
  <2>2. PICK o \in ToSet(s) : o.op = "PUT" /\ o.key = k
    BY DEF KeysWith
  <2>3. PICK i \in DOMAIN s : s[i] = o
    BY DEF ToSet
  <2> QED
    BY <2>1, <2>2, <2>3
<1>2. Max(I) \in I /\ \A j \in I : j <= Max(I)
  <2>1. \A i \in I : i <= Len(s)
    BY <1>1
  <2> HIDE DEF I
  <2> QED
    BY <1>1, <2>1, GreatestMember
<1>3. LastValue(s, k) = s[Max(I)].value
  <2>1. SelectLastInSeq(s, LAMBDA o : o.op = "PUT" /\ o.key = k) = IF I # {} THEN Max(I) ELSE 0
    BY DEF SelectLastInSeq
  <2> HIDE DEF I
  <2> QED
    BY <1>1, <2>1 DEF LastValue
<1>4. s[Max(I)] \in Operation
  BY <1>1, <1>2, OperationsTyped
<1>5. s[Max(I)].value \in Value
  BY <1>4, OperationTyped
<1> QED
  BY <1>1, <1>2, <1>3, <1>5

LEMMA BatchTyped ==
    ASSUME NEW d \in Data, NEW s \in Seq(Operation)
    PROVE  AfterPuts(d, s) \in Data /\ AfterDeletes(d, s) \in Data
<1>1. \A k \in KeysWith(s, "PUT") : LastValue(s, k) \in Value
  BY LastPut
<1> QED
  BY <1>1 DEF AfterPuts, AfterDeletes, Data

\* Of a set of keys, the one with i - 1 keys below it
LEMMA NthExists ==
    ASSUME NEW n \in Nat, NEW S \in SUBSET (0..n), NEW i \in 1..Cardinality(S)
    PROVE  \E k \in S : Cardinality({j \in S : j < k}) = i - 1
<1> DEFINE Below(m) == {j \in S : j < m}
           Reach == {m \in Nat : i <= Cardinality(Below(m))}
<1>1. S \subseteq Nat /\ IsFiniteSet(S) /\ Cardinality(S) \in Nat
  <2>1. IsFiniteSet(0..n)
    BY FS_Interval
  <2>2. IsFiniteSet(S)
    BY <2>1, FS_Subset
  <2> QED
    BY <2>2, FS_CardinalityType
<1>2. ASSUME NEW m \in Nat
      PROVE  IsFiniteSet(Below(m)) /\ Cardinality(Below(m)) \in Nat
  BY <1>1, FS_Subset, FS_CardinalityType
<1>3. Below(n + 1) = S
  <2>1. \A j \in 0..n : j < n + 1
    OBVIOUS
  <2> QED
    BY <2>1
<1>4. Below(0) = {} /\ Cardinality({}) = 0
  <2>1. \A j \in Nat : ~(j < 0)
    OBVIOUS
  <2> QED
    BY <1>1, <2>1, FS_EmptySet
<1>5. n + 1 \in Reach
  <2>1. i <= Cardinality(S)
    BY <1>1
  <2> HIDE DEF Below
  <2> QED
    BY <1>3, <2>1
<1>6. PICK m \in Reach : \A y \in Reach : m <= y
  <2>1. Reach \subseteq Nat /\ Reach # {}
    BY <1>5
  <2> HIDE DEF Reach
  <2> QED
    BY <2>1, LeastMember
<1>7. m \in Nat \ {0} /\ m - 1 \in Nat
  BY <1>4, <1>6
<1>8. ~(i <= Cardinality(Below(m - 1)))
  <2>1. m - 1 \notin Reach
    BY <1>6, <1>7
  <2> QED
    BY <1>7, <2>1
<1> DEFINE k == m - 1
<1>9. Below(m) = IF k \in S THEN Below(k) \cup {k} ELSE Below(k)
  <2>1. \A j \in Nat : j < m <=> j < k \/ j = k
    BY <1>7
  <2> HIDE DEF k
  <2> QED
    BY <1>1, <2>1
<1>10. k \notin Below(k) /\ i <= Cardinality(Below(m)) /\ ~(i <= Cardinality(Below(k)))
  BY <1>6, <1>7, <1>8
<1>11. IsFiniteSet(Below(k)) /\ Cardinality(Below(k)) \in Nat
  BY <1>2, <1>7
<1>12. k \in S
  BY <1>9, <1>10
<1>13. Cardinality(Below(m)) = Cardinality(Below(k)) + 1
  <2>1. Below(m) = Below(k) \cup {k}
    BY <1>9, <1>12
  <2> HIDE DEF Below, k
  <2> QED
    BY <1>10, <1>11, <2>1, FS_AddElement
<1>14. Cardinality(Below(k)) = i - 1
  <2> HIDE DEF Below
  <2> QED
    BY <1>1, <1>10, <1>11, <1>13
<1> QED
  BY <1>12, <1>14

LEMMA RangeTyped ==
    ASSUME NEW d \in Data, NEW r \in Request, r.type = "range"
    PROVE  RangeResult(d, r) \in Seq(Value \cup {None})
<1> DEFINE found == InRange(d, r)
           n == Cardinality(found)
           most == IF r.rangeEnd # 0 /\ r.limit > 0 /\ n > r.limit THEN r.limit ELSE n
           Nth(i) == CHOOSE k \in found : Cardinality({j \in found : j < k}) = i - 1
<1>1. r.key \in Nat /\ r.rangeEnd \in Nat /\ r.limit \in Nat /\ Key \subseteq Nat
  BY RequestTyped, ApiAssumption
<1>2. found \in SUBSET (0..(r.key + r.rangeEnd)) /\ found \subseteq Key
  <2>1. ASSUME NEW k \in found
        PROVE  k \in Key /\ (k = r.key \/ k < r.rangeEnd)
    BY DEF InRange
  <2>2. \A k \in Nat : k = r.key \/ k < r.rangeEnd => k \in 0..(r.key + r.rangeEnd)
    BY <1>1
  <2> HIDE DEF found
  <2> QED
    BY <1>1, <2>1, <2>2
<1>3. n \in Nat
  <2>1. IsFiniteSet(0..(r.key + r.rangeEnd))
    <3>1. 0 \in Int /\ r.key + r.rangeEnd \in Int
      BY <1>1
    <3> QED
      BY <3>1, FS_Interval
  <2> HIDE DEF found
  <2>2. IsFiniteSet(found)
    BY <1>2, <2>1, FS_Subset
  <2> QED
    BY <2>2, FS_CardinalityType
<1>4. most \in Nat /\ \A i \in 1..most : i \in 1..n
  <2> HIDE DEF n
  <2> QED
    BY <1>1, <1>3
<1>5. ASSUME NEW i \in 1..most
      PROVE  d[Nth(i)] \in Value \cup {None}
  <2>1. \E k \in found : Cardinality({j \in found : j < k}) = i - 1
    <3>1. i \in 1..Cardinality(found) /\ r.key + r.rangeEnd \in Nat
      BY <1>1, <1>4
    <3> HIDE DEF found, n, most
    <3> QED
      BY <1>2, <3>1, NthExists
  <2>2. Nth(i) \in found
    <3> HIDE DEF found
    <3> QED
      BY <2>1
  <2> QED
    BY <1>2, <2>2 DEF Data
<1>6. RangeResult(d, r) = [i \in 1..most |-> d[Nth(i)]]
  BY DEF RangeResult
<1> HIDE DEF found, n, most, Nth
<1> QED
  BY <1>4, <1>5, <1>6, SeqDef

-----------------------------------------------------------------------------
(* Handlers and what they handle *)

ResponseTypes == responses \in [Client -> Seq(Value \cup {None})]
Types == DataTypes /\ HistoryTypes /\ ResponseTypes

KindInv ==
    \A c \in Client :
        /\ Serving(c) => request[c] \in Request /\ request[c].type = "txn"
        /\ at[c] \in {"put", "delete"} => request[c] \in Request /\ request[c].type = "batch"

Starts(c, r) == HandleKey(c, r) \/ HandleRange(c, r) \/ StartBatch(c, r) \/ BeginTransaction(c, r)

LEMMA Started ==
    ASSUME Shape, Types, NEW c \in Client, NEW r \in Request, Starts(c, r)
    PROVE  \E d \in Data :
              /\ Start(c, r, d)
              /\ r.type # "key" => d = data
              /\ request'[c] = r /\ position'[c] = 1 /\ met'[c] = TRUE /\ before'[c] = data
              /\ data' = d
<1>1. data \in Data
  BY DEF Types, DataTypes
<1>2. ASSUME NEW d, Start(c, r, d)
      PROVE  request'[c] = r /\ position'[c] = 1 /\ met'[c] = TRUE /\ before'[c] = data /\ data' = d
  BY <1>2 DEF Start, Shape, Types, DataTypes
<1>3. CASE HandleKey(c, r)
  <2> DEFINE d == IF Fails(data, r.operation) THEN data ELSE After(data, r.operation)
  <2>1. r.type = "key" /\ Start(c, r, d)
    BY <1>3 DEF HandleKey
  <2>2. d \in Data
    BY <1>1, <2>1, RequestTyped, AfterTyped
  <2> HIDE DEF d
  <2> QED
    BY <1>2, <2>1, <2>2
<1>4. CASE HandleRange(c, r) \/ StartBatch(c, r) \/ BeginTransaction(c, r)
  <2>1. Start(c, r, data)
    BY <1>4 DEF HandleRange, StartBatch, BeginTransaction
  <2> QED
    BY <1>1, <1>2, <2>1
<1> QED
  BY <1>3, <1>4 DEF Starts

LEMMA ServingRequest ==
    ASSUME Shape, KindInv, NEW c \in Client, Serving(c)
    PROVE  /\ request[c] \in Request /\ request[c].type = "txn"
           /\ Operations(c) \in Seq(Operation)
           /\ position[c] \in Nat \ {0}
           /\ position[c] <= Len(Operations(c)) => position[c] \in DOMAIN Operations(c)
<1>1. request[c] \in Request /\ request[c].type = "txn" /\ position[c] \in Nat \ {0}
  BY DEF KindInv, Shape
<1>2. Operations(c) \in Seq(Operation)
  BY <1>1, RequestTyped DEF Operations
<1>3. position[c] <= Len(Operations(c)) => position[c] \in DOMAIN Operations(c)
  BY <1>1, <1>2, OperationsTyped
<1> QED
  BY <1>1, <1>2, <1>3

LEMMA BatchRequest ==
    ASSUME KindInv, NEW c \in Client, at[c] \in {"put", "delete"}
    PROVE  /\ request[c] \in Request /\ request[c].type = "batch"
           /\ request[c].operations \in Seq(Operation)
<1>1. request[c] \in Request /\ request[c].type = "batch"
  BY DEF KindInv
<1> QED
  BY <1>1, RequestTyped

\* An engine call of handler c leaves data d of the right type.
LEMMA EngineCall ==
    ASSUME Shape, Types, KindInv, NEW c \in Client, Handle(c)
    PROVE  \E d \in Data :
              /\ data' = d
              /\ \/ \E r \in Request : Start(c, r, d)
                 \/ Write(c, d)
                 \/ d = data /\ UNCHANGED historyVars
<1>1. data \in Data
  BY DEF Types, DataTypes
<1>2. CASE \E r \in Request : Starts(c, r)
  BY <1>2, Started
<1>3. CASE BatchPut(c) \/ BatchDelete(c)
  <2> DEFINE operations == request[c].operations
  <2>1. operations \in Seq(Operation)
    BY <1>3, BatchRequest DEF BatchPut, BatchDelete
  <2>2. AfterPuts(data, operations) \in Data /\ AfterDeletes(data, operations) \in Data
    BY <1>1, <2>1, BatchTyped
  <2>3. PICK d \in {data, AfterPuts(data, operations), AfterDeletes(data, operations)} : Write(c, d)
    BY <1>3 DEF BatchPut, BatchDelete
  <2>4. d \in Data /\ data' = d
    BY <1>1, <2>2, <2>3 DEF Write
  <2> QED
    BY <2>3, <2>4
<1>4. CASE ExecuteOperation(c)
  <2> DEFINE o == Operations(c)[position[c]]
  <2>1. o \in Operation
    <3>1. Serving(c) /\ position[c] <= Len(Operations(c))
      BY <1>4 DEF ExecuteOperation, Serving
    <3> QED
      BY <3>1, ServingRequest, OperationsTyped
  <2>2. \/ Write(c, After(data, o))
        \/ UNCHANGED <<data, historyVars>>
    BY <1>4 DEF ExecuteOperation
  <2>3. After(data, o) \in Data
    BY <1>1, <2>1, AfterTyped
  <2> HIDE DEF o
  <2>4. CASE Write(c, After(data, o))
    BY <2>3, <2>4 DEF Write
  <2> QED
    BY <1>1, <2>2, <2>4
<1>5. CASE CheckCondition(c) \/ Rollback(c) \/ Commit(c)
  BY <1>1, <1>5 DEF CheckCondition, Rollback, Commit, engineVars
<1> QED
  BY <1>2, <1>3, <1>4, <1>5 DEF Handle, Starts

\* The history of the others: what an undisturbed request asks about is as it was.
LEMMA CallTypes ==
    ASSUME Shape, Types, KindInv, NEW c \in Client, Handle(c)
    PROVE  /\ data' \in Data /\ before' \in [Client -> Data]
           /\ disturbed' \subseteq Client /\ seen' \in [Client -> SUBSET (Nat \X BOOLEAN)]
<1>1. PICK d \in Data : /\ data' = d
                        /\ \/ \E r \in Request : Start(c, r, d)
                           \/ Write(c, d)
                           \/ d = data /\ UNCHANGED historyVars
  BY EngineCall
<1>2. /\ data \in Data /\ before \in [Client -> Data] /\ disturbed \subseteq Client
      /\ seen \in [Client -> SUBSET (Nat \X BOOLEAN)]
  BY DEF Types, DataTypes, HistoryTypes
<1>3. ASSUME NEW e \in Data, NEW r \in Request
      PROVE  Truths(e, r) \in SUBSET (Nat \X BOOLEAN)
  <2>1. CASE r.type = "txn"
    <3>1. r.compare \in Seq(Compare)
      BY <2>1, RequestTyped
    <3>2. \A i \in DOMAIN r.compare : i \in Nat
      BY <3>1
    <3>3. \A i \in DOMAIN r.compare : Satisfied(e, r.compare[i]) \in BOOLEAN
      BY DEF Satisfied
    <3>4. \A i \in DOMAIN r.compare : <<i, Satisfied(e, r.compare[i])>> \in Nat \X BOOLEAN
      BY <3>2, <3>3
    <3>5. Truths(e, r) = {<<i, Satisfied(e, r.compare[i])>> : i \in DOMAIN r.compare}
      BY <2>1 DEF Truths
    <3> QED
      BY <3>4, <3>5
  <2>2. CASE r.type # "txn"
    BY <2>2 DEF Truths
  <2> QED
    BY <2>1, <2>2
<1>4. ASSUME NEW x \in Client
      PROVE  SeenAfter(c, d, x) \in SUBSET (Nat \X BOOLEAN)
  <2>1. CASE x = c \/ at[x] = "done"
    BY <1>2, <2>1 DEF SeenAfter
  <2>2. CASE x # c /\ at[x] # "done"
    <3>1. request[x] \in Request
      BY <2>2 DEF KindInv, Serving, Shape, Steps
    <3>2. Truths(d, request[x]) \in SUBSET (Nat \X BOOLEAN)
      BY <1>3, <3>1
    <3>3. SeenAfter(c, d, x) = seen[x] \cup Truths(d, request[x])
      BY <2>2 DEF SeenAfter
    <3> QED
      BY <1>2, <3>2, <3>3
  <2> QED
    BY <2>1, <2>2
<1>5. Disturbed(c, d) \subseteq Client
  BY DEF Disturbed
<1>6. ASSUME NEW r \in Request, Start(c, r, d)
      PROVE  /\ before' \in [Client -> Data] /\ disturbed' \subseteq Client
             /\ seen' \in [Client -> SUBSET (Nat \X BOOLEAN)]
  <2>1. before' = [before EXCEPT ![c] = data] /\ disturbed' = (disturbed \ {c}) \cup Disturbed(c, d)
    BY <1>6 DEF Start
  <2>2. before' \in [Client -> Data] /\ disturbed' \subseteq Client
    BY <1>2, <1>5, <2>1
  <2>3. seen' = [x \in Client |-> IF x = c THEN Truths(data, r) ELSE SeenAfter(c, d, x)]
    BY <1>6 DEF Start
  <2>4. seen' \in [Client -> SUBSET (Nat \X BOOLEAN)]
    <3>1. Truths(data, r) \in SUBSET (Nat \X BOOLEAN)
      BY <1>2, <1>3
    <3> QED
      BY <1>4, <2>3, <3>1
  <2> QED
    BY <2>2, <2>4
<1>7. ASSUME Write(c, d)
      PROVE  /\ before' \in [Client -> Data] /\ disturbed' \subseteq Client
             /\ seen' \in [Client -> SUBSET (Nat \X BOOLEAN)]
  BY <1>2, <1>4, <1>5, <1>7 DEF Write
<1> QED
  BY <1>1, <1>2, <1>6, <1>7 DEF historyVars

LEMMA Undisturbed ==
    ASSUME Shape, Types, KindInv, NEW c \in Client, Handle(c), NEW x \in Client, x # c,
           x \notin disturbed', request[x] # None
    PROVE  /\ x \notin disturbed /\ before'[x] = before[x]
           /\ \A k \in Keys(request[x]) : data'[k] = data[k]
<1>1. PICK d \in Data : /\ data' = d
                        /\ \/ \E r \in Request : Start(c, r, d)
                           \/ Write(c, d)
                           \/ d = data /\ UNCHANGED historyVars
  BY EngineCall
<1>2. before \in [Client -> Data]
  BY DEF Types, DataTypes
<1>3. ASSUME NEW r \in Request, Start(c, r, d)
      PROVE  x \notin disturbed /\ x \notin Disturbed(c, d) /\ before'[x] = before[x]
  BY <1>2, <1>3 DEF Start
<1>4. ASSUME Write(c, d)
      PROVE  x \notin disturbed /\ x \notin Disturbed(c, d) /\ before'[x] = before[x]
  BY <1>4 DEF Write
<1>5. x \notin Disturbed(c, d) => \A k \in Keys(request[x]) : d[k] = data[k]
  BY DEF Disturbed
<1> QED
  BY <1>1, <1>3, <1>4, <1>5 DEF historyVars

-----------------------------------------------------------------------------
(* Responses *)

\* During a transaction the responses are those of the operations before the next one.
Responding(c) ==
    /\ at[c] = "check" => responses[c] = <<>>
    /\ at[c] = "execute" => Len(responses[c]) = position[c] - 1
    /\ Serving(c) => \A i \in DOMAIN responses[c] :
                         responses[c][i] = None => Operations(c)[i].op = "DELETE"
RespondingInv == \A c \in Client : Responding(c)

Responds(c, response) ==
    response \in Seq(Value \cup {None}) /\ responses' = [responses EXCEPT ![c] = response]

LEMMA RespondsOwn ==
    ASSUME Types, NEW c \in Client, NEW response, Responds(c, response)
    PROVE  /\ responses' \in [Client -> Seq(Value \cup {None})]
           /\ responses'[c] = response
           /\ \A x \in Client : x # c => responses'[x] = responses[x]
BY DEF Responds, Types, ResponseTypes

LEMMA StartResponds ==
    ASSUME Shape, Types, NEW c \in Client, NEW r \in Request, Starts(c, r)
    PROVE  \E response : /\ Responds(c, response)
                         /\ r.type \in {"batch", "txn"} => response = <<>>
<1>1. data \in Data /\ <<>> \in Seq(Value \cup {None})
  BY DEF Types, DataTypes
<1>2. CASE HandleKey(c, r)
  <2> DEFINE o == r.operation
             response == IF Fails(data, o) THEN <<>> ELSE <<Result(data, o)>>
  <2>1. r.type = "key" /\ responses' = [responses EXCEPT ![c] = response]
    BY <1>2 DEF HandleKey
  <2>2. Result(data, o) \in Value \cup {None}
    BY <1>1, <2>1, RequestTyped, ResultTyped
  <2>3. response = <<>> \/ response = <<Result(data, o)>>
    OBVIOUS
  <2>4. response \in Seq(Value \cup {None})
    <3>1. ASSUME NEW v \in Value \cup {None}
          PROVE  <<v>> \in Seq(Value \cup {None})
      OBVIOUS
    <3>2. <<Result(data, o)>> \in Seq(Value \cup {None})
      BY <2>2, <3>1
    <3> HIDE DEF response
    <3> QED
      BY <1>1, <2>3, <3>2
  <2> HIDE DEF response
  <2> QED
    BY <2>1, <2>4 DEF Responds
<1>3. CASE HandleRange(c, r)
  <2> DEFINE response == IF closed THEN <<>> ELSE RangeResult(data, r)
  <2>1. r.type = "range" /\ responses' = [responses EXCEPT ![c] = response]
    BY <1>3 DEF HandleRange
  <2>2. response \in Seq(Value \cup {None})
    BY <1>1, <2>1, RangeTyped
  <2> HIDE DEF response
  <2> QED
    BY <2>1, <2>2 DEF Responds
<1>4. CASE StartBatch(c, r) \/ BeginTransaction(c, r)
  BY <1>1, <1>4 DEF StartBatch, BeginTransaction, Responds
<1> QED
  BY <1>2, <1>3, <1>4 DEF Starts

\* The operation of the handler that is next
LEMMA NextOperation ==
    ASSUME Shape, Types, KindInv, NEW c \in Client, ExecuteOperation(c)
    PROVE  /\ at[c] = "execute" /\ Operations(c) \in Seq(Operation)
           /\ position[c] \in DOMAIN Operations(c) /\ position[c] \in Nat \ {0}
           /\ position[c] <= Len(Operations(c))
           /\ Operations(c)[position[c]] \in Operation
           /\ Operations(c)[position[c]] \in ToSet(Operations(c))
<1>1. Serving(c) /\ position[c] <= Len(Operations(c)) /\ at[c] = "execute"
  BY DEF ExecuteOperation, Serving
<1> QED
  BY <1>1, ServingRequest, OperationsTyped

LEMMA ExecuteEffect ==
    ASSUME Shape, Types, KindInv, NEW c \in Client, ExecuteOperation(c)
    PROVE  LET o == Operations(c)[position[c]]
               result == Result(data, o)
           IN  /\ UNCHANGED <<closed, transactions, request, met, status>>
               /\ \/ /\ Fails(data, o) /\ at'[c] = "rollback"
                     /\ UNCHANGED <<data, position, responses, historyVars>>
                  \/ /\ ~Fails(data, o) /\ at' = at
                     /\ Write(c, After(data, o)) /\ position'[c] = position[c] + 1
                     /\ Responds(c, Append(responses[c], result)) /\ result \in Value \cup {None}
<1> DEFINE o == Operations(c)[position[c]]
           result == Result(data, o)
<1>1. result \in Value \cup {None} /\ responses[c] \in Seq(Value \cup {None})
  BY NextOperation, ResultTyped DEF Types, DataTypes, ResponseTypes
<1>2. CASE Fails(data, o)
  BY <1>2 DEF ExecuteOperation, Shape
<1>3. CASE ~Fails(data, o)
  <2>1. /\ Write(c, After(data, o)) /\ at' = at
        /\ position' = [position EXCEPT ![c] = position[c] + 1]
        /\ responses' = [responses EXCEPT ![c] = Append(responses[c], result)]
        /\ UNCHANGED <<closed, transactions, request, met, status>>
    BY <1>3 DEF ExecuteOperation
  <2>2. Append(responses[c], result) \in Seq(Value \cup {None})
    <3> HIDE DEF result
    <3> QED
      BY <1>1
  <2>3. position'[c] = position[c] + 1
    BY <2>1 DEF Shape
  <2> HIDE DEF o, result
  <2> QED
    BY <1>1, <1>3, <2>1, <2>2, <2>3 DEF Responds, o, result
<1> QED
  BY <1>2, <1>3

LEMMA CallResponses ==
    ASSUME Shape, Types, KindInv, NEW c \in Client, Handle(c)
    PROVE  /\ responses' \in [Client -> Seq(Value \cup {None})]
           /\ \A x \in Client : x # c => responses'[x] = responses[x]
<1>1. responses \in [Client -> Seq(Value \cup {None})]
  BY DEF Types, ResponseTypes
<1>2. CASE \E r \in Request : Starts(c, r)
  BY <1>2, StartResponds, RespondsOwn
<1>3. CASE ExecuteOperation(c)
  BY <1>1, <1>3, ExecuteEffect, RespondsOwn
<1>4. CASE BatchPut(c) \/ BatchDelete(c) \/ CheckCondition(c) \/ Rollback(c) \/ Commit(c)
  <2>1. responses' = responses
    BY <1>4 DEF BatchPut, BatchDelete, CheckCondition, Rollback, Commit
  <2> QED
    BY <1>1, <2>1
<1> QED
  BY <1>2, <1>3, <1>4 DEF Handle, Starts

\* Where a handler goes
LEMMA HandlerStarts ==
    ASSUME Shape, NEW c \in Client, NEW r \in Request, Starts(c, r)
    PROVE  /\ at[c] = "done" /\ request'[c] = r
           /\ \/ at'[c] = "done"
              \/ at'[c] = "check" /\ r.type = "txn"
              \/ at'[c] = "put" /\ r.type = "batch"
<1>1. ASSUME NEW code, Answer(c, code)
      PROVE  at'[c] = "done"
  BY <1>1 DEF Answer, Shape
<1>2. ASSUME NEW step, GoOn(c, step)
      PROVE  at'[c] = step
  BY <1>2 DEF GoOn, Shape
<1>3. ASSUME NEW d, Start(c, r, d)
      PROVE  at[c] = "done" /\ request'[c] = r
  BY <1>3 DEF Start, Shape
<1>4. \E d : Start(c, r, d)
  BY DEF Starts, HandleKey, HandleRange, StartBatch, BeginTransaction
<1>5. \/ \E code : Answer(c, code)
      \/ GoOn(c, "check") /\ r.type = "txn"
      \/ GoOn(c, "put") /\ r.type = "batch"
  BY DEF Starts, HandleKey, HandleRange, StartBatch, BeginTransaction
<1> QED
  BY <1>1, <1>2, <1>3, <1>4, <1>5

LEMMA HandlerGoes ==
    ASSUME Shape, NEW c \in Client, Handle(c)
    PROVE  \/ \E r \in Request :
                /\ Starts(c, r) /\ at[c] = "done" /\ request'[c] = r
                /\ \/ at'[c] = "done"
                   \/ at'[c] = "check" /\ r.type = "txn"
                   \/ at'[c] = "put" /\ r.type = "batch"
           \/ /\ BatchPut(c) \/ BatchDelete(c)
              /\ at[c] \in {"put", "delete"} /\ at'[c] \in {"delete", "done"} /\ request' = request
           \/ /\ CheckCondition(c)
              /\ at[c] = "check" /\ at'[c] \in {"check", "execute"} /\ request' = request
           \/ /\ ExecuteOperation(c)
              /\ at[c] = "execute" /\ at'[c] \in {"execute", "rollback"} /\ request' = request
           \/ /\ Rollback(c) \/ Commit(c)
              /\ at[c] \in {"execute", "rollback"} /\ at'[c] = "done" /\ request' = request
<1>1. ASSUME NEW code, Answer(c, code)
      PROVE  at'[c] = "done"
  BY <1>1 DEF Answer, Shape
<1>2. ASSUME NEW step, GoOn(c, step)
      PROVE  at'[c] = step
  BY <1>2 DEF GoOn, Shape
<1>3. CASE \E r \in Request : Starts(c, r)
  BY <1>3, HandlerStarts
<1>4. CASE BatchPut(c) \/ BatchDelete(c)
  <2>1. at[c] \in {"put", "delete"} /\ request' = request
    BY <1>4 DEF BatchPut, BatchDelete
  <2>2. (\E code : Answer(c, code)) \/ GoOn(c, "delete")
    BY <1>4 DEF BatchPut, BatchDelete
  <2> QED
    BY <1>1, <1>2, <1>4, <2>1, <2>2
<1>5. CASE CheckCondition(c)
  BY <1>5 DEF CheckCondition, NextCondition, Shape
<1>6. CASE ExecuteOperation(c)
  BY <1>6 DEF ExecuteOperation, Shape
<1>7. CASE Rollback(c) \/ Commit(c)
  <2>1. at[c] \in {"execute", "rollback"} /\ request' = request
    BY <1>7 DEF Rollback, Commit
  <2>2. \E code : Answer(c, code)
    BY <1>7 DEF Rollback, Commit
  <2> QED
    BY <1>1, <1>7, <2>1, <2>2
<1> QED
  BY <1>3, <1>4, <1>5, <1>6, <1>7 DEF Handle, Starts

LEMMA CallKind ==
    ASSUME Shape, KindInv, NEW c \in Client, Handle(c)
    PROVE  KindInv'
<1>1. /\ Serving(c)' => request'[c] \in Request /\ request'[c].type = "txn"
      /\ at'[c] \in {"put", "delete"} => request'[c] \in Request /\ request'[c].type = "batch"
  BY HandlerGoes DEF KindInv, Serving
<1>2. ASSUME NEW x \in Client, x # c
      PROVE  at'[x] = at[x] /\ request'[x] = request[x]
  BY <1>2, HandlerAlone
<1> QED
  BY <1>1, <1>2 DEF KindInv, Serving

LEMMA CallResponding ==
    ASSUME Shape, Types, KindInv, RespondingInv, NEW c \in Client, Handle(c)
    PROVE  RespondingInv'
<1>1. ASSUME NEW x \in Client, x # c
      PROVE  Responding(x)'
  <2>1. /\ at'[x] = at[x] /\ request'[x] = request[x] /\ position'[x] = position[x]
        /\ met'[x] = met[x] /\ responses'[x] = responses[x]
    BY <1>1, HandlerAlone, CallResponses
  <2>2. Operations(x)' = Operations(x) /\ (Serving(x)' <=> Serving(x))
    BY <2>1 DEF Operations, Serving
  <2> QED
    BY <2>1, <2>2 DEF RespondingInv, Responding
<1>2. ASSUME NEW r \in Request, Starts(c, r)
      PROVE  Responding(c)'
  <2>1. at'[c] = "done" \/ at'[c] = "put" \/ (at'[c] = "check" /\ r.type = "txn")
    BY <1>2, HandlerStarts
  <2>2. r.type = "txn" => responses'[c] = <<>>
    BY <1>2, StartResponds, RespondsOwn
  <2> QED
    BY <2>1, <2>2 DEF Responding, Serving
<1>3. ASSUME BatchPut(c) \/ BatchDelete(c) \/ Rollback(c) \/ Commit(c)
      PROVE  Responding(c)'
  <2>1. at'[c] \in {"delete", "done"}
    <3>1. \/ \E code : Answer(c, code)
          \/ GoOn(c, "delete")
      BY <1>3 DEF BatchPut, BatchDelete, Rollback, Commit
    <3> QED
      BY <3>1 DEF Answer, GoOn, Shape
  <2> QED
    BY <2>1 DEF Responding, Serving
<1>4. ASSUME CheckCondition(c)
      PROVE  Responding(c)'
  <2>1. /\ at[c] = "check" /\ UNCHANGED <<request, responses>> /\ at'[c] \in {"check", "execute"}
        /\ at'[c] = "execute" => position'[c] = 1
    BY <1>4 DEF CheckCondition, NextCondition, Shape
  <2>2. responses'[c] = <<>> /\ Len(<<>>) = 0 /\ DOMAIN <<>> = {}
    BY <2>1 DEF RespondingInv, Responding
  <2> QED
    BY <2>1, <2>2 DEF Responding
<1>5. ASSUME ExecuteOperation(c)
      PROVE  Responding(c)'
  <2> DEFINE o == Operations(c)[position[c]]
             result == Result(data, o)
  <2>1. at[c] = "execute" /\ Serving(c) /\ o \in Operation /\ position[c] \in Nat \ {0}
    BY <1>5, NextOperation DEF Serving
  <2>2. /\ responses[c] \in Seq(Value \cup {None}) /\ Len(responses[c]) = position[c] - 1
        /\ \A i \in DOMAIN responses[c] : responses[c][i] = None => Operations(c)[i].op = "DELETE"
    BY <2>1 DEF RespondingInv, Responding, Types, ResponseTypes
  <2>3. Operations(c)' = Operations(c)
    BY <1>5, ExecuteEffect DEF Operations
  <2>4. CASE Fails(data, o)
    <3>1. at'[c] = "rollback" /\ responses' = responses
      BY <1>5, <2>4, ExecuteEffect
    <3> QED
      BY <2>2, <2>3, <3>1 DEF Responding, Serving
  <2>5. CASE ~Fails(data, o)
    <3>1. /\ at' = at /\ position'[c] = position[c] + 1
          /\ Responds(c, Append(responses[c], result)) /\ result \in Value \cup {None}
      BY <1>5, <2>5, ExecuteEffect
    <3>2. responses'[c] = Append(responses[c], result)
      BY <3>1, RespondsOwn
    <3>3. result = None => o.op = "DELETE"
      BY <2>1, <2>5, NoneIsDelete DEF Types, DataTypes
    <3> HIDE DEF o, result
    <3>4. /\ Len(responses'[c]) = position'[c] - 1
          /\ \A i \in DOMAIN responses'[c] :
                \/ i \in DOMAIN responses[c] /\ responses'[c][i] = responses[c][i]
                \/ i = position[c] /\ responses'[c][i] = result
      BY <2>1, <2>2, <3>1, <3>2
    <3>5. \A i \in DOMAIN responses'[c] : responses'[c][i] = None => Operations(c)[i].op = "DELETE"
      BY <2>2, <3>3, <3>4 DEF o
    <3> QED
      BY <2>1, <2>3, <3>1, <3>4, <3>5 DEF Responding
  <2> QED
    BY <2>4, <2>5
<1> QED
  BY <1>1, <1>2, <1>3, <1>4, <1>5 DEF RespondingInv, Handle, Starts

TypesInv == Types /\ KindInv /\ RespondingInv

LEMMA NextTypes == Shape /\ TypesInv /\ [Next]_vars => TypesInv'
<1> SUFFICES ASSUME Shape, TypesInv, [Next]_vars
             PROVE  TypesInv'
  OBVIOUS
<1>1. ASSUME NEW c \in Client, Handle(c)
      PROVE  TypesInv'
  <2>1. data' \in Data /\ before' \in [Client -> Data] /\ disturbed' \subseteq Client
    BY <1>1, CallTypes DEF TypesInv
  <2>2. seen' \in [Client -> SUBSET (Nat \X BOOLEAN)]
    BY <1>1, CallTypes DEF TypesInv
  <2>3. closed' = closed
    BY <1>1, HandleTransactions
  <2>4. transactions' \subseteq Client
    <3>1. transactions \subseteq Client
      BY DEF TypesInv, Types, HistoryTypes
    <3>2. CASE \E r \in Request : Starts(c, r)
      BY <3>1, <3>2 DEF Starts, HandleKey, HandleRange, StartBatch, BeginTransaction
    <3>3. CASE BatchPut(c) \/ BatchDelete(c) \/ Rollback(c) \/ Commit(c)
      BY <3>1, <3>3 DEF BatchPut, BatchDelete, Rollback, Commit
    <3>4. CASE CheckCondition(c) \/ ExecuteOperation(c)
      BY <3>1, <3>4 DEF CheckCondition, ExecuteOperation, engineVars
    <3> QED
      BY <1>1, <3>2, <3>3, <3>4 DEF Handle, Starts
  <2>5. responses' \in [Client -> Seq(Value \cup {None})]
    BY <1>1, CallResponses DEF TypesInv
  <2>6. KindInv' /\ RespondingInv'
    BY <1>1, CallKind, CallResponding DEF TypesInv
  <2>7. Types'
    BY <2>1, <2>2, <2>3, <2>4, <2>5 DEF TypesInv, Types, DataTypes, HistoryTypes, ResponseTypes
  <2> QED
    BY <2>6, <2>7 DEF TypesInv
<1>2. CASE CloseEngine \/ UNCHANGED vars
  <2>1. /\ UNCHANGED <<data, transactions, handlerVars, historyVars>>
        /\ closed' = TRUE \/ closed' = closed
    BY <1>2 DEF CloseEngine, vars, engineVars
  <2>2. Types'
    BY <2>1 DEF TypesInv, Types, DataTypes, HistoryTypes, ResponseTypes, handlerVars, historyVars
  <2>3. KindInv' /\ RespondingInv'
    BY <2>1 DEF TypesInv, KindInv, RespondingInv, Responding, Serving, Operations, handlerVars
  <2> QED
    BY <2>2, <2>3 DEF TypesInv
<1> QED
  BY <1>1, <1>2 DEF Next

LEMMA InitTypes == Init => TypesInv
<1> SUFFICES ASSUME Init
             PROVE  TypesInv
  OBVIOUS
<1>1. Types
  <2>1. data \in Data
    BY DEF Init, Data
  <2>2. before \in [Client -> Data] /\ closed \in BOOLEAN
    BY <2>1 DEF Init
  <2>3. HistoryTypes
    BY DEF Init, HistoryTypes
  <2>4. ResponseTypes
    <3>1. <<>> \in Seq(Value \cup {None})
      OBVIOUS
    <3> QED
      BY <3>1 DEF Init, ResponseTypes
  <2> QED
    BY <2>1, <2>2, <2>3, <2>4 DEF Types, DataTypes
<1>2. KindInv /\ RespondingInv
  BY DEF Init, KindInv, RespondingInv, Responding, Serving
<1> QED
  BY <1>1, <1>2 DEF TypesInv

\* The types hold for any clients and requests; what a transaction under way has nothing to answer of
\* is a DELETE, as a GET of a missing key fails (server.go:1066-1092).
THEOREM ApiTypesAlways == Spec => []TypeOK
<1>1. ASSUME Shape, TypesInv
      PROVE  TypeOK
  <2>1. /\ data \in [Key -> Value \cup {None}] /\ closed \in BOOLEAN /\ transactions \subseteq Client
        /\ at \in [Client -> {"done", "check", "execute", "rollback", "put", "delete"}]
        /\ request \in [Client -> Request \cup {None}] /\ position \in [Client -> Nat \ {0}]
        /\ met \in [Client -> BOOLEAN]
        /\ status \in [Client -> {0, OK, BadRequest, NotFound, InternalError}]
    BY <1>1 DEF Shape, Steps, TypesInv, Types, DataTypes, HistoryTypes, Data
  <2>2. ASSUME NEW c \in Client
        PROVE  /\ responses[c] \in Seq(Value \cup {None})
               /\ at[c] # "done" /\ request[c].type = "txn" =>
                     \A i \in DOMAIN responses[c] :
                         responses[c][i] = None => Operations(c)[i].op = "DELETE"
    <3>1. responses[c] \in Seq(Value \cup {None})
      BY <1>1 DEF TypesInv, Types, ResponseTypes
    <3>2. at[c] # "done" /\ request[c].type = "txn" => Serving(c)
      BY <1>1 DEF Shape, Steps, TypesInv, KindInv, Serving
    <3> QED
      BY <1>1, <3>1, <3>2 DEF TypesInv, RespondingInv, Responding
  <2>3. /\ before \in [Client -> [Key -> Value \cup {None}]] /\ disturbed \subseteq Client
        /\ \A c \in Client : seen[c] \subseteq (Nat \X BOOLEAN)
    BY <1>1 DEF TypesInv, Types, DataTypes, HistoryTypes, Data
  <2> QED
    BY <2>1, <2>2, <2>3 DEF TypeOK
<1>2. Shape /\ TypesInv => TypeOK
  BY <1>1
<1>3. Spec => []Shape
  BY InitShape, NextShape, PTL DEF Spec
<1>4. Spec => [](Shape /\ TypesInv)
  BY InitShape, NextShape, InitTypes, NextTypes, PTL DEF Spec
<1> QED
  BY <1>2, <1>4, PTL

-----------------------------------------------------------------------------
(* A batch *)

\* The operations op of a batch, one after the other: what BatchAlone does twice
Only(op, m, o) == IF o.op = op THEN After(m, o) ELSE m
DoOnly(op, d, s) == FoldLeft(LAMBDA m, o : Only(op, m, o), d, s)
OnlyStep(op) == [m \in Data |-> [o \in Operation |-> Only(op, m, o)]]

LEMMA OnlyIsFold ==
    ASSUME NEW op, NEW d \in Data, NEW s \in Seq(Operation)
    PROVE  /\ FoldTyped(Data, Operation, OnlyStep(op), d, s)
           /\ DoOnly(op, d, s) = FoldBy(OnlyStep(op), d, s)
<1>1. OnlyStep(op) \in [Data -> [Operation -> Data]]
  <2>1. \A m \in Data : \A o \in Operation : Only(op, m, o) \in Data
    BY AfterTyped DEF Only
  <2> QED
    BY <2>1, Zenon DEF OnlyStep
<1>2. FoldTyped(Data, Operation, OnlyStep(op), d, s)
  BY <1>1 DEF FoldTyped
<1>3. \A m \in Data, o \in Operation : OnlyStep(op)[m][o] = Only(op, m, o)
  BY DEF OnlyStep
<1> DEFINE iter[t \in SUBSET DOMAIN s] ==
               IF t = {} THEN d ELSE Only(op, iter[t \ {Max(t)}], s[Max(t)])
<1>4. DoOnly(op, d, s) = iter[DOMAIN s]
  BY Zenon DEF DoOnly, FoldLeft, MapThenFoldSet
<1>5. PICK F : IsWitness(F, Data, Operation, OnlyStep(op), d, s)
  BY <1>2, FoldWitness
<1>6. F = [t \in SUBSET DOMAIN s |->
               IF t = {} THEN d ELSE Only(op, F[t \ {Max(t)}], s[Max(t)])]
  BY <1>3, <1>5 DEF IsWitness
<1>7. iter = [t \in SUBSET DOMAIN s |->
                  IF t = {} THEN d ELSE Only(op, iter[t \ {Max(t)}], s[Max(t)])]
  BY <1>6, Zenon
<1> HIDE DEF iter
<1>8. FoldsInside(iter, Data, Operation, OnlyStep(op), d, s)
  BY <1>3, <1>7 DEF FoldsInside
<1>9. iter[DOMAIN s] = FoldBy(OnlyStep(op), d, s)
  BY <1>2, <1>8, FoldIs
<1> QED
  BY <1>2, <1>4, <1>9

\* What an operation PUT or DELETE leaves of its key
Leaves(o) == IF o.op = "PUT" THEN o.value ELSE None
Is(o, op, k) == o.op = op /\ o.key = k

LEMMA AfterIs ==
    ASSUME NEW d \in Data, NEW o \in Operation, o.op \in {"PUT", "DELETE"}
    PROVE  After(d, o) \in Data /\ \A k \in Key : After(d, o)[k] = IF k = o.key THEN Leaves(o) ELSE d[k]
BY OperationTyped, AfterTyped DEF After, Data, Leaves

\* A key is left as by the last operation on it, or as it was.
LEMMA OnlyIs ==
    ASSUME NEW op \in {"PUT", "DELETE"}, NEW d \in Data, NEW s \in Seq(Operation)
    PROVE  LET n == Len(s)
           IN  /\ DoOnly(op, d, s) \in Data
               /\ \A k \in Key :
                     /\ (\A i \in 1..n : ~Is(s[i], op, k)) => DoOnly(op, d, s)[k] = d[k]
                     /\ \A i \in 1..n :
                            Is(s[i], op, k) /\ (\A j \in 1..n : Is(s[j], op, k) => j <= i) =>
                                DoOnly(op, d, s)[k] = Leaves(s[i])
<1> DEFINE Right(m, n) ==
               \A k \in Key :
                   /\ (\A i \in 1..n : ~Is(s[i], op, k)) => m[k] = d[k]
                   /\ \A i \in 1..n :
                          Is(s[i], op, k) /\ (\A j \in 1..n : Is(s[j], op, k) => j <= i) =>
                              m[k] = Leaves(s[i])
           I == [n \in 0..Len(s) |-> {m \in Data : Right(m, n)}]
<1>1. FoldTyped(Data, Operation, OnlyStep(op), d, s) /\ DoOnly(op, d, s) = FoldBy(OnlyStep(op), d, s)
  BY OnlyIsFold
<1>2. Len(s) \in Nat /\ DOMAIN s = 1..Len(s) /\ \A i \in 1..Len(s) : s[i] \in Operation
  BY OperationsTyped
<1>3. d \in I[0]
  <2>1. \A i \in 1..0 : FALSE
    OBVIOUS
  <2>2. Right(d, 0)
    BY <2>1
  <2> HIDE DEF Right
  <2> QED
    BY <1>2, <2>2
<1>4. ASSUME NEW n \in 1..Len(s), NEW m \in Data, m \in I[n - 1]
      PROVE  OnlyStep(op)[m][s[n]] \in I[n]
  <2> DEFINE o == s[n]
             after == Only(op, m, o)
  <2>1. n \in Nat \ {0} /\ n - 1 \in 0..Len(s) /\ n \in 0..Len(s) /\ o \in Operation
    BY <1>2
  <2>2. Right(m, n - 1)
    <3> HIDE DEF Right
    <3> QED
      BY <1>4, <2>1
  <2>3. OnlyStep(op)[m][o] = after
    BY <2>1 DEF OnlyStep
  <2>4. after \in Data
    BY <2>1, AfterTyped DEF Only
  <2>5. \A k \in Key : after[k] = IF Is(o, op, k) THEN Leaves(o) ELSE m[k]
    BY <2>1, AfterIs DEF Is, Only
  <2>6. \A i : i \in 1..n <=> i \in 1..(n - 1) \/ i = n
    BY <2>1
  <2>7. \A i \in 1..(n - 1) : i <= n /\ ~(n <= i)
    BY <2>1
  <2>8. ASSUME NEW k \in Key
        PROVE  /\ (\A i \in 1..n : ~Is(s[i], op, k)) => after[k] = d[k]
               /\ \A i \in 1..n :
                      Is(s[i], op, k) /\ (\A j \in 1..n : Is(s[j], op, k) => j <= i) =>
                          after[k] = Leaves(s[i])
    <3>1. /\ (\A i \in 1..(n - 1) : ~Is(s[i], op, k)) => m[k] = d[k]
          /\ \A i \in 1..(n - 1) :
                 Is(s[i], op, k) /\ (\A j \in 1..(n - 1) : Is(s[j], op, k) => j <= i) =>
                     m[k] = Leaves(s[i])
      BY <2>2
    <3>2. after[k] = IF Is(s[n], op, k) THEN Leaves(s[n]) ELSE m[k]
      BY <2>5
    <3> HIDE DEF Is, Leaves, after
    <3>3. CASE Is(s[n], op, k)
      BY <2>6, <2>7, <3>2, <3>3
    <3>4. CASE ~Is(s[n], op, k)
      BY <2>6, <2>7, <3>1, <3>2, <3>4
    <3> QED
      BY <3>3, <3>4
  <2>9. Right(after, n)
    <3> HIDE DEF after
    <3> QED
      BY <2>8
  <2> HIDE DEF Right, after
  <2> QED
    BY <2>1, <2>3, <2>4, <2>9
<1>5. FoldBy(OnlyStep(op), d, s) \in I[Len(s)]
  <2>1. FoldKeeps(I, Data, OnlyStep(op), d, s)
    <3> HIDE DEF I
    <3> QED
      BY <1>3, <1>4 DEF FoldKeeps
  <2> HIDE DEF I
  <2> QED
    BY <1>1, <2>1, FoldByKeeps
<1>6. DoOnly(op, d, s) \in Data /\ Right(DoOnly(op, d, s), Len(s))
  <2> HIDE DEF Right
  <2> QED
    BY <1>1, <1>2, <1>5
<1> QED
  BY <1>6

\* The PUTs and the DELETEs of a batch, sorted out and done at once, leave what they leave one by one.
LEMMA BatchIsAlone ==
    ASSUME NEW d \in Data, NEW r \in Request, r.type = "batch"
    PROVE  AfterDeletes(AfterPuts(d, r.operations), r.operations) = BatchAlone(d, r)
<1> DEFINE s == r.operations
           puts == DoOnly("PUT", d, s)
           both == DoOnly("DELETE", puts, s)
<1>1. s \in Seq(Operation)
  BY RequestTyped
<1>2. BatchAlone(d, r) = both
  BY Zenon DEF BatchAlone, DoOnly, Only
<1> HIDE DEF s
<1>3. DOMAIN s = 1..Len(s) /\ Len(s) \in Nat
  BY <1>1, OperationsTyped
<1>4. ASSUME NEW op, NEW k
      PROVE  k \in KeysWith(s, op) <=> \E i \in 1..Len(s) : Is(s[i], op, k)
  BY <1>3 DEF KeysWith, ToSet, Is
<1>5. puts \in Data /\ \A k \in Key : puts[k] = AfterPuts(d, s)[k]
  <2>1. puts \in Data
    BY <1>1, OnlyIs
  <2>2. ASSUME NEW k \in Key, k \notin KeysWith(s, "PUT")
        PROVE  puts[k] = AfterPuts(d, s)[k]
    BY <1>1, <1>4, <2>2, OnlyIs DEF AfterPuts
  <2>3. ASSUME NEW k \in Key, k \in KeysWith(s, "PUT")
        PROVE  puts[k] = AfterPuts(d, s)[k]
    <3>1. PICK i \in 1..Len(s) :
              /\ Is(s[i], "PUT", k) /\ LastValue(s, k) = s[i].value
              /\ \A j \in 1..Len(s) : Is(s[j], "PUT", k) => j <= i
      BY <1>1, <1>3, <2>3, LastPut DEF Is
    <3>2. puts[k] = Leaves(s[i])
      BY <1>1, <3>1, OnlyIs
    <3>3. Leaves(s[i]) = LastValue(s, k)
      BY <3>1 DEF Leaves, Is
    <3> QED
      BY <2>3, <3>2, <3>3 DEF AfterPuts
  <2> QED
    BY <2>1, <2>2, <2>3
<1> HIDE DEF puts
<1>6. both \in Data /\ \A k \in Key : both[k] = AfterDeletes(puts, s)[k]
  <2>1. both \in Data
    BY <1>1, <1>5, OnlyIs
  <2>2. ASSUME NEW k \in Key, k \notin KeysWith(s, "DELETE")
        PROVE  both[k] = AfterDeletes(puts, s)[k]
    BY <1>1, <1>4, <1>5, <2>2, OnlyIs DEF AfterDeletes
  <2>3. ASSUME NEW k \in Key, k \in KeysWith(s, "DELETE")
        PROVE  both[k] = AfterDeletes(puts, s)[k]
    <3> DEFINE J == {i \in 1..Len(s) : Is(s[i], "DELETE", k)}
    <3>1. J # {} /\ J \subseteq Nat /\ \A j \in J : j <= Len(s)
      BY <1>3, <1>4, <2>3
    <3>2. Max(J) \in J /\ \A j \in J : j <= Max(J)
      <4> HIDE DEF J
      <4> QED
        BY <1>3, <3>1, GreatestMember
    <3>3. PICK i \in 1..Len(s) :
              /\ Is(s[i], "DELETE", k)
              /\ \A j \in 1..Len(s) : Is(s[j], "DELETE", k) => j <= i
      BY <3>2
    <3>4. both[k] = Leaves(s[i])
      BY <1>1, <1>5, <3>3, OnlyIs
    <3>5. Leaves(s[i]) = None
      BY <3>3 DEF Leaves, Is
    <3> QED
      BY <2>3, <3>4, <3>5 DEF AfterDeletes
  <2> QED
    BY <2>1, <2>2, <2>3
<1> HIDE DEF both
<1>7. AfterPuts(d, s) = puts
  <2>1. AfterPuts(d, s) \in Data
    BY <1>1, BatchTyped
  <2> QED
    BY <1>5, <2>1 DEF Data
<1>8. AfterDeletes(puts, s) = both
  <2>1. AfterDeletes(puts, s) \in Data
    BY <1>1, <1>5, BatchTyped
  <2> QED
    BY <1>6, <2>1 DEF Data
<1> QED
  BY <1>2, <1>7, <1>8 DEF s

\* The keys of a request of client c hold what they hold in d.
Left(c, d) == \A k \in Keys(request[c]) : data[k] = d[k]
Of(c, type) == c \notin disturbed /\ request[c] # None /\ request[c].type = type

\* Between its PUTs and its DELETEs an undisturbed batch has done the one and not the other.
Batched(c) ==
    LET puts == AfterPuts(before[c], request[c].operations)
    IN  Of(c, "batch") =>
            /\ at[c] = "put" => Left(c, before[c])
            /\ at[c] = "delete" => Left(c, puts)
            /\ at[c] = "done" =>
                  \/ status[c] = OK /\ Left(c, AfterDeletes(puts, request[c].operations))
                  \/ status[c] = BadRequest /\ Left(c, before[c])
                  \/ status[c] = InternalError /\ closed /\ (Left(c, before[c]) \/ Left(c, puts))
BatchInv == \A c \in Client : Batched(c)

\* To an undisturbed request nothing happens but its own steps.
LEMMA OthersLeft ==
    ASSUME Shape, Types, KindInv, NEW c \in Client, Handle(c), NEW x \in Client, x # c,
           NEW type, Of(x, type)'
    PROVE  /\ Of(x, type) /\ UNCHANGED <<at[x], request[x], position[x], met[x], responses[x]>>
           /\ UNCHANGED <<status[x], before[x], closed>>
           /\ \A d : Left(x, d)' <=> Left(x, d)
<1>1. /\ at'[x] = at[x] /\ request'[x] = request[x] /\ position'[x] = position[x]
      /\ met'[x] = met[x] /\ status'[x] = status[x]
  BY HandlerAlone
<1>2. responses'[x] = responses[x]
  BY CallResponses
<1>3. closed' = closed
  BY HandleTransactions
<1>4. x \notin disturbed' /\ request[x] # None
  BY <1>1 DEF Of
<1>5. x \notin disturbed /\ before'[x] = before[x] /\ \A k \in Keys(request[x]) : data'[k] = data[k]
  BY <1>4, Undisturbed
<1> QED
  BY <1>1, <1>2, <1>3, <1>5 DEF Of, Left

LEMMA BatchKeys ==
    ASSUME NEW r \in Request, r.type = "batch"
    PROVE  /\ r.operations \in Seq(Operation) /\ Keys(r) \subseteq Key
           /\ \A op : KeysWith(r.operations, op) \subseteq Keys(r)
<1>1. r.operations \in Seq(Operation)
  BY RequestTyped
<1>2. Keys(r) = {o.key : o \in ToSet(r.operations)}
  BY DEF Keys
<1>3. \A o \in ToSet(r.operations) : o.key \in Key
  BY <1>1, OperationsTyped, OperationTyped
<1> QED
  BY <1>1, <1>2, <1>3 DEF KeysWith

LEMMA StartBatched ==
    ASSUME Shape, Types, KindInv, NEW c \in Client, NEW r \in Request, Starts(c, r)
    PROVE  Batched(c)'
<1>1. PICK d \in Data :
          /\ r.type # "key" => d = data
          /\ request'[c] = r /\ before'[c] = data /\ data' = d
  BY Started
<1>2. Left(c, before[c])' \/ r.type # "batch"
  BY <1>1 DEF Left
<1>3. CASE r.type = "batch"
  <2>1. StartBatch(c, r)
    BY <1>3 DEF Starts, HandleKey, HandleRange, BeginTransaction
  <2>2. GoOn(c, "put") \/ Answer(c, BadRequest)
    BY <2>1 DEF StartBatch
  <2>3. at'[c] = "put" \/ (at'[c] = "done" /\ status'[c] = BadRequest)
    BY <2>2 DEF GoOn, Answer, Shape
  <2> QED
    BY <1>2, <1>3, <2>3 DEF Batched
<1>4. CASE r.type # "batch"
  BY <1>1, <1>4 DEF Batched, Of
<1> QED
  BY <1>3, <1>4

LEMMA PutBatched ==
    ASSUME Shape, Types, KindInv, BatchInv, NEW c \in Client, BatchPut(c)
    PROVE  Batched(c)'
<1> DEFINE s == request[c].operations
           puts == AfterPuts(before[c], s)
           failing == closed /\ KeysWith(s, "PUT") # {}
           d == IF failing THEN data ELSE AfterPuts(data, s)
<1>1. /\ at[c] = "put" /\ UNCHANGED <<closed, request>>
      /\ IF failing THEN Answer(c, InternalError) ELSE GoOn(c, "delete")
      /\ Write(c, d)
  BY DEF BatchPut
<1>2. before' = before /\ data' = d /\ (c \notin disturbed' => c \notin disturbed)
  BY <1>1 DEF Write
<1>3. /\ request[c] \in Request /\ request[c].type = "batch"
      /\ Keys(request[c]) \subseteq Key /\ KeysWith(s, "PUT") \subseteq Keys(request[c])
  BY <1>1, BatchRequest, BatchKeys
<1>4. request[c] # None
  BY <1>3, RequestTyped
<1> SUFFICES ASSUME c \notin disturbed'
             PROVE  Batched(c)'
  BY DEF Batched, Of
<1>5. Left(c, before[c])
  BY <1>1, <1>2, <1>3, <1>4 DEF BatchInv, Batched, Of
<1>6. CASE failing
  <2>1. Left(c, before[c])'
    BY <1>1, <1>2, <1>5, <1>6 DEF Left
  <2>2. at'[c] = "done" /\ status'[c] = InternalError /\ closed'
    BY <1>1, <1>6 DEF Answer, Shape
  <2> QED
    BY <1>2, <2>1, <2>2 DEF Batched
<1>7. CASE ~failing
  <2>1. \A k \in Key :
            AfterPuts(data, s)[k] = IF k \in KeysWith(s, "PUT") THEN LastValue(s, k) ELSE data[k]
    BY DEF AfterPuts
  <2>2. \A k \in Key : puts[k] = IF k \in KeysWith(s, "PUT") THEN LastValue(s, k) ELSE before[c][k]
    BY DEF AfterPuts
  <2>3. \A k \in Keys(request[c]) : data'[k] = puts[k]
    BY <1>2, <1>3, <1>5, <1>7, <2>1, <2>2 DEF Left
  <2>4. at'[c] = "delete"
    BY <1>1, <1>7 DEF GoOn, Shape
  <2> QED
    BY <1>1, <1>2, <2>3, <2>4 DEF Batched, Left
<1> QED
  BY <1>6, <1>7

LEMMA DeleteBatched ==
    ASSUME Shape, Types, KindInv, BatchInv, NEW c \in Client, BatchDelete(c)
    PROVE  Batched(c)'
<1> DEFINE s == request[c].operations
           puts == AfterPuts(before[c], s)
           both == AfterDeletes(puts, s)
           failing == closed /\ KeysWith(s, "DELETE") # {}
           d == IF failing THEN data ELSE AfterDeletes(data, s)
<1>1. /\ at[c] = "delete" /\ UNCHANGED <<closed, request>>
      /\ Answer(c, IF failing THEN InternalError ELSE OK)
      /\ Write(c, d)
  BY DEF BatchDelete
<1>2. before' = before /\ data' = d /\ (c \notin disturbed' => c \notin disturbed)
  BY <1>1 DEF Write
<1>3. /\ request[c] \in Request /\ request[c].type = "batch"
      /\ Keys(request[c]) \subseteq Key /\ KeysWith(s, "DELETE") \subseteq Keys(request[c])
  BY <1>1, BatchRequest, BatchKeys
<1>4. request[c] # None
  BY <1>3, RequestTyped
<1> SUFFICES ASSUME c \notin disturbed'
             PROVE  Batched(c)'
  BY DEF Batched, Of
<1>5. Left(c, puts)
  BY <1>1, <1>2, <1>3, <1>4 DEF BatchInv, Batched, Of
<1>6. at'[c] = "done" /\ status'[c] = IF failing THEN InternalError ELSE OK
  BY <1>1 DEF Answer, Shape
<1>7. CASE failing
  <2>1. \A k \in Keys(request[c]) : data'[k] = puts[k]
    BY <1>2, <1>5, <1>7 DEF Left
  <2> QED
    BY <1>1, <1>2, <1>6, <1>7, <2>1 DEF Batched, Left
<1>8. CASE ~failing
  <2>1. \A k \in Key : AfterDeletes(data, s)[k] = IF k \in KeysWith(s, "DELETE") THEN None ELSE data[k]
    BY DEF AfterDeletes
  <2>2. \A k \in Key : both[k] = IF k \in KeysWith(s, "DELETE") THEN None ELSE puts[k]
    BY DEF AfterDeletes
  <2>3. \A k \in Keys(request[c]) : data'[k] = both[k]
    <3> HIDE DEF puts
    <3> QED
      BY <1>2, <1>3, <1>5, <1>8, <2>1, <2>2 DEF Left
  <2> QED
    BY <1>1, <1>2, <1>6, <1>8, <2>3 DEF Batched, Left
<1> QED
  BY <1>7, <1>8

LEMMA NextBatched == Shape /\ TypesInv /\ BatchInv /\ [Next]_vars => BatchInv'
<1> SUFFICES ASSUME Shape, TypesInv, BatchInv, [Next]_vars
             PROVE  BatchInv'
  OBVIOUS
<1> USE DEF TypesInv
<1>1. ASSUME NEW c \in Client, Handle(c)
      PROVE  BatchInv'
  <2>1. ASSUME NEW x \in Client, x # c
        PROVE  Batched(x)'
    <3> SUFFICES ASSUME Of(x, "batch")'
                 PROVE  Batched(x)'
      BY DEF Batched
    <3>1. /\ Of(x, "batch") /\ UNCHANGED <<at[x], request[x], status[x], before[x], closed>>
          /\ \A d : Left(x, d)' <=> Left(x, d)
      BY <1>1, <2>1, OthersLeft
    <3>2. Batched(x)
      BY DEF BatchInv
    <3> QED
      BY <3>1, <3>2 DEF Batched
  <2>2. ASSUME NEW r \in Request, Starts(c, r)
        PROVE  Batched(c)'
    BY <2>2, StartBatched
  <2>3. ASSUME BatchPut(c) \/ BatchDelete(c)
        PROVE  Batched(c)'
    BY <2>3, PutBatched, DeleteBatched
  <2>4. ASSUME CheckCondition(c) \/ ExecuteOperation(c) \/ Rollback(c) \/ Commit(c)
        PROVE  Batched(c)'
    <3>1. Serving(c) /\ request' = request
      BY <2>4 DEF CheckCondition, ExecuteOperation, Rollback, Commit, Serving
    <3>2. request'[c].type = "txn"
      BY <3>1 DEF KindInv
    <3> QED
      BY <3>2 DEF Batched, Of
  <2>5. Batched(c)'
    BY <1>1, <2>2, <2>3, <2>4 DEF Handle, Starts
  <2> QED
    BY <2>1, <2>5 DEF BatchInv
<1>2. CASE CloseEngine \/ UNCHANGED vars
  <2>1. UNCHANGED <<data, at, request, status, before, disturbed>> /\ (closed => closed')
    BY <1>2 DEF CloseEngine, vars, engineVars, handlerVars, historyVars
  <2> QED
    BY <2>1 DEF BatchInv, Batched, Of, Left
<1> QED
  BY <1>1, <1>2 DEF Next

\* A batch whose keys no other request changes takes effect as a whole, as its PUTs and then its DELETEs
\* done one by one would, or is refused as a whole, unless Close comes between the two: for any batch of
\* any length and whatever the other clients do (server.go:760-819).
THEOREM BatchAlwaysAsIfAlone == Spec => []BatchAsIfAlone
<1>1. ASSUME Shape, TypesInv, BatchInv
      PROVE  BatchAsIfAlone
  <2>1. ASSUME NEW c \in Client \ disturbed, at[c] = "done", request[c] # None,
               request[c].type = "batch"
        PROVE  \/ status[c] = OK /\ Left(c, BatchAlone(before[c], request[c]))
               \/ status[c] = BadRequest /\ Left(c, before[c])
               \/ /\ status[c] = InternalError /\ closed
                  /\ Left(c, before[c]) \/ Left(c, AfterPuts(before[c], request[c].operations))
    <3>1. Batched(c) /\ Of(c, "batch")
      BY <1>1, <2>1 DEF BatchInv, Of
    <3>2. request[c] \in Request /\ before[c] \in Data
      BY <1>1, <2>1 DEF Shape, TypesInv, Types, DataTypes
    <3>3. AfterDeletes(AfterPuts(before[c], request[c].operations), request[c].operations)
             = BatchAlone(before[c], request[c])
      BY <2>1, <3>2, BatchIsAlone
    <3> QED
      BY <2>1, <3>1, <3>3 DEF Batched
  <2> QED
    BY <2>1 DEF BatchAsIfAlone, Left, OK, BadRequest, InternalError
<1>2. Shape /\ TypesInv /\ BatchInv => BatchAsIfAlone
  BY <1>1
<1>3. Init => BatchInv
  BY DEF Init, BatchInv, Batched, Of
<1>4. Spec => [](Shape /\ TypesInv /\ BatchInv)
  BY <1>3, InitShape, NextShape, InitTypes, NextTypes, NextBatched, PTL DEF Spec
<1> QED
  BY <1>2, <1>4, PTL

-----------------------------------------------------------------------------
(* A transaction alone *)

AfterStep == [m \in Data |-> [o \in Operation |-> After(m, o)]]

\* The recursion by which Course is defined has a solution.
LEMMA CourseIs ==
    ASSUME NEW d \in Data, NEW s \in Seq(Operation)
    PROVE  /\ Course(d, s)[0] = d
           /\ \A n \in 1..Len(s) : Course(d, s)[n] = After(Course(d, s)[n - 1], s[n])
           /\ \A n \in 0..Len(s) : Course(d, s)[n] \in Data
<1>1. AfterStep \in [Data -> [Operation -> Data]]
  <2>1. \A m \in Data : \A o \in Operation : After(m, o) \in Data
    BY AfterTyped
  <2> QED
    BY <2>1, Zenon DEF AfterStep
<1>2. \A m \in Data, o \in Operation : AfterStep[m][o] = After(m, o)
  BY DEF AfterStep
<1> HIDE DEF AfterStep
<1>3. /\ Len(s) \in Nat /\ <<>> \in Seq(Operation)
      /\ \A n \in 1..Len(s) : n \in Nat /\ n # 0 /\ s[n] \in Operation /\ n - 1 \in 0..Len(s)
  BY OperationsTyped
<1> DEFINE G == [n \in 0..Len(s) |-> FoldBy(AfterStep, d, First(s, n))]
<1>4. G[0] = d
  <2>1. First(s, 0) = <<>>
    BY <1>3, FirstFacts
  <2>2. FoldTyped(Data, Operation, AfterStep, d, <<>>)
    BY <1>1, <1>3 DEF FoldTyped
  <2> QED
    BY <1>3, <2>1, <2>2, FoldByEmpty
<1>5. ASSUME NEW n \in 1..Len(s)
      PROVE  G[n] = After(G[n - 1], s[n])
  <2> DEFINE t == First(s, n - 1)
  <2>1. /\ t \in Seq(Operation) /\ n - 1 \in 0..Len(s) /\ n - 1 # Len(s) /\ (n - 1) + 1 = n
        /\ s[n] \in Operation
    BY <1>3, FirstFacts
  <2>2. First(s, n) = Append(t, s[n])
    BY <2>1, FirstFacts
  <2>3. FoldTyped(Data, Operation, AfterStep, d, t)
    BY <1>1, <2>1 DEF FoldTyped
  <2> HIDE DEF t
  <2>4. FoldBy(AfterStep, d, Append(t, s[n])) = AfterStep[FoldBy(AfterStep, d, t)][s[n]]
    BY <2>1, <2>3, FoldByAppend
  <2>5. FoldBy(AfterStep, d, t) \in Data
    BY <2>3, FoldByTyped
  <2>6. n \in 0..Len(s)
    BY <1>3
  <2>7. G[n] = FoldBy(AfterStep, d, First(s, n)) /\ G[n - 1] = FoldBy(AfterStep, d, t)
    BY <2>1, <2>6 DEF t
  <2> HIDE DEF G
  <2> QED
    BY <1>2, <2>1, <2>2, <2>4, <2>5, <2>7
<1>6. G = [n \in 0..Len(s) |-> IF n = 0 THEN d ELSE After(G[n - 1], s[n])]
  <2>1. \A n \in 0..Len(s) : n = 0 \/ n \in 1..Len(s)
    BY <1>3
  <2>2. \A n \in 0..Len(s) : G[n] = IF n = 0 THEN d ELSE After(G[n - 1], s[n])
    <3> HIDE DEF G
    <3> QED
      BY <1>4, <1>5, <2>1
  <2>3. G = [n \in 0..Len(s) |-> G[n]]
    OBVIOUS
  <2> HIDE DEF G
  <2> QED
    BY <2>2, <2>3
<1> HIDE DEF G
<1> DEFINE map[n \in 0..Len(s)] == IF n = 0 THEN d ELSE After(map[n - 1], s[n])
<1>7. Course(d, s) = map
  BY Zenon DEF Course
<1>8. map = [n \in 0..Len(s) |-> IF n = 0 THEN d ELSE After(map[n - 1], s[n])]
  BY <1>6, Zenon
<1> HIDE DEF map
<1>9. map[0] = d /\ \A n \in 1..Len(s) : map[n] = After(map[n - 1], s[n])
  <2>1. 0 \in 0..Len(s) /\ \A n \in 1..Len(s) : n \in 0..Len(s) /\ n # 0
    BY <1>3
  <2> QED
    BY <1>8, <2>1
<1>10. ASSUME NEW m \in 0..Len(s)
       PROVE  map[m] \in Data
  <2> DEFINE S == {n \in 0..Len(s) : map[n] \in Data}
  <2>1. m \in Nat /\ 0 \in S
    BY <1>3, <1>9
  <2>2. \A n \in 0..m : n # m /\ n \in S => n + 1 \in S
    <3> SUFFICES ASSUME NEW n \in 0..m, n # m, map[n] \in Data
                 PROVE  n + 1 \in S
      OBVIOUS
    <3>1. n + 1 \in 1..Len(s) /\ n + 1 \in 0..Len(s) /\ (n + 1) - 1 = n
      BY <1>3
    <3>2. map[n + 1] = After(map[n], s[n + 1])
      BY <1>9, <3>1
    <3>3. map[n + 1] \in Data
      BY <1>3, <3>1, <3>2, AfterTyped
    <3> QED
      BY <3>1, <3>3
  <2> HIDE DEF S
  <2>3. m \in S
    BY <2>1, <2>2, CountUp
  <2> QED
    BY <2>3 DEF S
<1> QED
  BY <1>7, <1>9, <1>10

Met(d, r) == \A i \in DOMAIN r.compare : Satisfied(d, r.compare[i])
Chosen(d, r) == IF Met(d, r) THEN r.success ELSE r.failure
CanDo(map, s, n) == s[n].op = "PUT" \/ (s[n].op # "OTHER" /\ map[n - 1][s[n].key] # None)

\* What TransactionAlone says; in particular there is a last operation that can be done.
LEMMA AloneIs ==
    ASSUME NEW d \in Data, NEW r \in Request, r.type = "txn"
    PROVE  LET alone == TransactionAlone(d, r)
               s == Chosen(d, r)
               map == Course(d, s)
           IN  /\ s \in Seq(Operation)
               /\ alone.holds = Met(d, r) /\ alone.map = map
               /\ alone.last \in 0..Len(s)
               /\ \A i \in 1..alone.last : CanDo(map, s, i)
               /\ alone.last < Len(s) => ~CanDo(map, s, alone.last + 1)
               /\ alone.complete = (alone.last = Len(s))
               /\ alone.results = [n \in 1..alone.last |-> Result(map[n - 1], s[n])]
<1> DEFINE alone == TransactionAlone(d, r)
           s == Chosen(d, r)
           map == Course(d, s)
           Ends(n) == n < Len(s) => ~CanDo(map, s, n + 1)
           last == CHOOSE n \in 0..Len(s) : (\A i \in 1..n : CanDo(map, s, i)) /\ Ends(n)
<1>1. s \in Seq(Operation) /\ Len(s) \in Nat
  <2>1. s \in Seq(Operation)
    BY RequestTyped DEF Chosen
  <2> QED
    BY <2>1, OperationsTyped
<1>2. /\ alone.holds = Met(d, r) /\ alone.map = map /\ alone.last = last
      /\ alone.complete = (last = Len(s))
      /\ alone.results = [n \in 1..last |-> Result(map[n - 1], s[n])]
  BY DEF TransactionAlone, CanDo, Met, Chosen
<1> HIDE DEF s, map
<1>3. \E n \in 0..Len(s) : (\A i \in 1..n : CanDo(map, s, i)) /\ Ends(n)
  <2> DEFINE E == {n \in 0..Len(s) : Ends(n)}
  <2>1. E # {} /\ E \subseteq Nat
    <3>1. Len(s) \in E
      BY <1>1
    <3> QED
      BY <1>1, <3>1
  <2>2. PICK n \in E : \A m \in E : n <= m
    <3> HIDE DEF E
    <3> QED
      BY <2>1, LeastMember
  <2>3. ASSUME NEW i \in 1..n
        PROVE  CanDo(map, s, i)
    <3>1. i - 1 \in 0..Len(s) /\ ~(n <= i - 1) /\ (i - 1) + 1 = i
      BY <1>1
    <3>2. i - 1 \notin E
      BY <2>2, <3>1
    <3>3. ~Ends(i - 1)
      BY <3>1, <3>2
    <3> QED
      BY <3>1, <3>3
  <2> QED
    BY <2>2, <2>3
<1>4. last \in 0..Len(s) /\ (\A i \in 1..last : CanDo(map, s, i)) /\ Ends(last)
  <2> HIDE DEF Ends
  <2> QED
    BY <1>3
<1> HIDE DEF last, alone
<1> QED
  BY <1>1, <1>2, <1>4 DEF s, map, alone

\* The keys of a transaction
LEMMA ConcatSet ==
    ASSUME NEW E, NEW s \in Seq(E), NEW t \in Seq(E)
    PROVE  ToSet(s \o t) = ToSet(s) \cup ToSet(t) /\ s \o t \in Seq(E)
<1>1. /\ Len(s) \in Nat /\ Len(t) \in Nat /\ DOMAIN s = 1..Len(s) /\ DOMAIN t = 1..Len(t)
      /\ s \o t \in Seq(E) /\ DOMAIN (s \o t) = 1..(Len(s) + Len(t))
      /\ \A i \in 1..Len(s) : (s \o t)[i] = s[i]
      /\ \A i \in 1..Len(t) : (s \o t)[Len(s) + i] = t[i]
  OBVIOUS
<1>2. ASSUME NEW i \in 1..(Len(s) + Len(t))
      PROVE  i \in 1..Len(s) \/ (i - Len(s) \in 1..Len(t) /\ i = Len(s) + (i - Len(s)))
  BY <1>1
<1>3. \A i \in 1..Len(s) : i \in 1..(Len(s) + Len(t))
  BY <1>1
<1>4. \A i \in 1..Len(t) : Len(s) + i \in 1..(Len(s) + Len(t))
  BY <1>1
<1>5. ASSUME NEW o, o \in ToSet(s \o t)
      PROVE  o \in ToSet(s) \cup ToSet(t)
  <2>1. PICK i \in 1..(Len(s) + Len(t)) : o = (s \o t)[i]
    BY <1>1, <1>5 DEF ToSet
  <2>2. CASE i \in 1..Len(s)
    BY <1>1, <2>1, <2>2 DEF ToSet
  <2>3. CASE i - Len(s) \in 1..Len(t) /\ i = Len(s) + (i - Len(s))
    <3>1. o = t[i - Len(s)]
      BY <1>1, <2>1, <2>3
    <3> QED
      BY <1>1, <2>3, <3>1 DEF ToSet
  <2> QED
    BY <1>2, <2>2, <2>3
<1>6. ASSUME NEW o, o \in ToSet(s) \cup ToSet(t)
      PROVE  o \in ToSet(s \o t)
  <2>1. ASSUME NEW i \in 1..Len(s), o = s[i]
        PROVE  o \in ToSet(s \o t)
    <3>1. i \in DOMAIN (s \o t) /\ o = (s \o t)[i]
      BY <1>1, <1>3, <2>1
    <3> HIDE <1>1
    <3> QED
      BY <3>1, Zenon DEF ToSet
  <2>2. ASSUME NEW i \in 1..Len(t), o = t[i]
        PROVE  o \in ToSet(s \o t)
    <3>1. Len(s) + i \in DOMAIN (s \o t) /\ o = (s \o t)[Len(s) + i]
      BY <1>1, <1>4, <2>2
    <3> HIDE <1>1
    <3> QED
      BY <3>1, Zenon DEF ToSet
  <2> QED
    BY <1>1, <1>6, <2>1, <2>2 DEF ToSet
<1> QED
  BY <1>1, <1>5, <1>6

LEMMA TransactionKeys ==
    ASSUME NEW r \in Request, r.type = "txn"
    PROVE  /\ Keys(r) \subseteq Key
           /\ r.compare \in Seq(Compare)
           /\ \A i \in DOMAIN r.compare : r.compare[i] \in Compare /\ r.compare[i].key \in Keys(r)
           /\ \A d : /\ Chosen(d, r) \in Seq(Operation)
                     /\ \A i \in DOMAIN Chosen(d, r) : Chosen(d, r)[i].key \in Keys(r)
<1> DEFINE E == Compare \cup Operation
<1>1. r.compare \in Seq(Compare) /\ r.success \in Seq(Operation) /\ r.failure \in Seq(Operation)
  BY RequestTyped
<1>2. r.compare \in Seq(E) /\ r.success \in Seq(E) /\ r.failure \in Seq(E)
  BY <1>1
<1>3. \A o \in E : o.key \in Key
  BY DEF Compare, Operation
<1>4. /\ ToSet(r.compare \o r.success \o r.failure) =
            ToSet(r.compare) \cup ToSet(r.success) \cup ToSet(r.failure)
      /\ ToSet(r.compare) \subseteq E /\ ToSet(r.success) \subseteq E /\ ToSet(r.failure) \subseteq E
  <2> HIDE DEF E
  <2>1. r.compare \o r.success \in Seq(E)
    BY <1>2, ConcatSet
  <2>2. ToSet(r.compare \o r.success \o r.failure) = ToSet(r.compare \o r.success) \cup ToSet(r.failure)
    <3> DEFINE cs == r.compare \o r.success
               f == r.failure
    <3>1. cs \in Seq(E) /\ f \in Seq(E)
      BY <1>2, <2>1
    <3> HIDE DEF cs, f
    <3>2. ToSet(cs \o f) = ToSet(cs) \cup ToSet(f)
      BY <3>1, ConcatSet
    <3> QED
      BY ONLY <3>2, Zenon DEF cs, f
  <2>3. ToSet(r.compare \o r.success) = ToSet(r.compare) \cup ToSet(r.success)
    BY <1>2, ConcatSet
  <2>4. \A s \in Seq(E) : ToSet(s) \subseteq E
    BY DEF ToSet
  <2> QED
    BY <1>2, <2>2, <2>3, <2>4
<1>5. /\ Keys(r) = {o.key : o \in ToSet(r.compare \o r.success \o r.failure)}
      /\ ToSet(r.compare \o r.success \o r.failure) \subseteq E
  BY <1>4 DEF Keys
<1> HIDE DEF E
<1>6. Keys(r) \subseteq Key
  BY <1>3, <1>5
<1>7. \A i \in DOMAIN r.compare : r.compare[i] \in Compare /\ r.compare[i] \in ToSet(r.compare)
  BY <1>1 DEF ToSet
<1>8. \A i \in DOMAIN r.compare : r.compare[i].key \in Keys(r)
  BY <1>4, <1>5, <1>7
<1>9. ASSUME NEW s \in {r.success, r.failure}, NEW i \in DOMAIN s
      PROVE  s[i].key \in Keys(r)
  <2>1. s[i] \in ToSet(r.compare \o r.success \o r.failure)
    BY <1>4 DEF ToSet
  <2> QED
    BY <1>5, <2>1
<1> QED
  BY <1>1, <1>6, <1>7, <1>8, <1>9 DEF Chosen

\* Operations and conditions look at their key only.
Alike(d, e, K) == \A k \in K : d[k] = e[k]

LEMMA OperationAlike ==
    ASSUME NEW d \in Data, NEW e \in Data, NEW K \in SUBSET Key, Alike(d, e, K),
           NEW o \in Operation, o.key \in K
    PROVE  /\ Alike(After(d, o), After(e, o), K)
           /\ Result(d, o) = Result(e, o) /\ (Fails(d, o) <=> Fails(e, o))
<1>1. d[o.key] = e[o.key]
  BY DEF Alike
<1>2. o.op \in {"PUT", "DELETE"} =>
          \A k \in K : After(d, o)[k] = IF k = o.key THEN Leaves(o) ELSE d[k]
  BY AfterIs
<1>3. o.op \in {"PUT", "DELETE"} =>
          \A k \in K : After(e, o)[k] = IF k = o.key THEN Leaves(o) ELSE e[k]
  BY AfterIs
<1>4. o.op \notin {"PUT", "DELETE"} => After(d, o) = d /\ After(e, o) = e
  BY DEF After
<1>5. Alike(After(d, o), After(e, o), K)
  BY <1>2, <1>3, <1>4 DEF Alike
<1> QED
  BY <1>1, <1>5 DEF Result, Fails

LEMMA ConditionAlike ==
    ASSUME NEW d, NEW e, NEW K, Alike(d, e, K), NEW cond, cond.key \in K
    PROVE  Satisfied(d, cond) <=> Satisfied(e, cond)
BY DEF Alike, Satisfied

-----------------------------------------------------------------------------
(* A transaction among others *)

Alone(c) == TransactionAlone(before[c], request[c])

\* What a transaction can have come to when it fails: Close cut it short, or an operation failed
Cut(c) == closed /\ \E n \in 0..Alone(c).last : Left(c, Alone(c).map[n])
Failed(c) == ~Alone(c).complete /\ Left(c, Alone(c).map[Alone(c).last])

CheckingAlone(c) ==
    /\ Left(c, before[c]) /\ responses[c] = <<>>
    /\ ~closed => \A i \in 1 .. position[c] - 1 : Satisfied(before[c], request[c].compare[i])
\* n operations are done.
Done(c, n) ==
    /\ n \in 0..Alone(c).last
    /\ Left(c, Alone(c).map[n])
    /\ Len(responses[c]) = n
    /\ \A i \in 1..n : responses[c][i] = Alone(c).results[i]
ExecutingAlone(c) == ~closed /\ met[c] = Alone(c).holds /\ Done(c, position[c] - 1)
CommittedAlone(c) ==
    /\ Alone(c).complete /\ met[c] = Alone(c).holds
    /\ responses[c] = Alone(c).results /\ Left(c, Alone(c).map[Alone(c).last])

\* As long as nobody disturbs it, a transaction is somewhere on the course it would take alone.
OnCourse(c) ==
    Of(c, "txn") =>
        /\ at[c] = "check" => CheckingAlone(c)
        /\ at[c] = "execute" => Cut(c) \/ ExecutingAlone(c)
        /\ at[c] = "rollback" => Cut(c) \/ Failed(c)
        /\ at[c] = "done" => \/ status[c] = InternalError /\ (Cut(c) \/ Failed(c))
                             \/ status[c] = OK /\ CommittedAlone(c)
        /\ at[c] \notin {"put", "delete"}
CourseInv == \A c \in Client : OnCourse(c)

\* What TransactionAlone says of a transaction, with the course it is taken from
AloneRight(alone, d, r) ==
    LET s == Chosen(d, r)
    IN  /\ Keys(r) \subseteq Key
        /\ s \in Seq(Operation) /\ Len(s) \in Nat /\ alone.last \in 0..Len(s)
        /\ alone.holds = Met(d, r)
        /\ alone.map[0] = d /\ 0 \in 0..alone.last
        /\ \A n \in 0..Len(s) : alone.map[n] \in Data
        /\ \A n \in 1..Len(s) :
               s[n] \in Operation /\ s[n].key \in Keys(r) /\ alone.map[n] = After(alone.map[n - 1], s[n])
        /\ \A i \in 1..alone.last : CanDo(alone.map, s, i)
        /\ alone.last < Len(s) => ~CanDo(alone.map, s, alone.last + 1)
        /\ alone.complete = (alone.last = Len(s))
        /\ alone.results = [n \in 1..alone.last |-> Result(alone.map[n - 1], s[n])]

LEMMA CourseAlone ==
    ASSUME NEW d \in Data, NEW r \in Request, r.type = "txn"
    PROVE  AloneRight(TransactionAlone(d, r), d, r)
<1> DEFINE alone == TransactionAlone(d, r)
           s == Chosen(d, r)
<1>1. s \in Seq(Operation) /\ Keys(r) \subseteq Key /\ \A i \in DOMAIN s : s[i].key \in Keys(r)
  BY TransactionKeys
<1>2. /\ alone.holds = Met(d, r) /\ alone.map = Course(d, s)
      /\ alone.last \in 0..Len(s)
      /\ \A i \in 1..alone.last : CanDo(Course(d, s), s, i)
      /\ alone.last < Len(s) => ~CanDo(Course(d, s), s, alone.last + 1)
      /\ alone.complete = (alone.last = Len(s))
      /\ alone.results = [n \in 1..alone.last |-> Result(Course(d, s)[n - 1], s[n])]
  BY AloneIs
<1> HIDE DEF s, alone
<1>3. /\ Course(d, s)[0] = d
      /\ \A n \in 1..Len(s) : Course(d, s)[n] = After(Course(d, s)[n - 1], s[n])
      /\ \A n \in 0..Len(s) : Course(d, s)[n] \in Data
  BY <1>1, CourseIs
<1>4. DOMAIN s = 1..Len(s) /\ Len(s) \in Nat /\ \A n \in 1..Len(s) : s[n] \in Operation
  BY <1>1, OperationsTyped
<1>5. 0 \in 0..alone.last
  BY <1>2, <1>4
<1>6. AloneRight(alone, d, r)
  BY <1>1, <1>2, <1>3, <1>4, <1>5 DEF s, AloneRight
<1> QED
  BY <1>6 DEF alone

LEMMA AloneFacts ==
    ASSUME Shape, TypesInv, NEW c \in Client, request[c] # None, request[c].type = "txn"
    PROVE  /\ request[c] \in Request /\ before[c] \in Data
           /\ AloneRight(Alone(c), before[c], request[c])
<1>1. request[c] \in Request /\ before[c] \in Data
  BY DEF Shape, TypesInv, Types, DataTypes
<1> QED
  BY <1>1, CourseAlone DEF Alone

LEMMA StartCourse ==
    ASSUME Shape, TypesInv, NEW c \in Client, NEW r \in Request, Starts(c, r)
    PROVE  OnCourse(c)'
<1>1. PICK d \in Data :
          /\ r.type # "key" => d = data
          /\ request'[c] = r /\ position'[c] = 1 /\ before'[c] = data /\ data' = d
  BY Started DEF TypesInv
<1>2. CASE r.type # "txn"
  BY <1>1, <1>2 DEF OnCourse, Of
<1>3. CASE r.type = "txn"
  <2>1. BeginTransaction(c, r)
    BY <1>3 DEF Starts, HandleKey, HandleRange, StartBatch
  <2>2. /\ closed' = closed /\ responses' = [responses EXCEPT ![c] = <<>>]
        /\ \/ closed /\ Answer(c, InternalError)
           \/ ~closed /\ GoOn(c, "check")
    BY <2>1 DEF BeginTransaction, Start
  <2>3. responses'[c] = <<>>
    BY <2>2 DEF TypesInv, Types, ResponseTypes
  <2>4. Left(c, before[c])'
    BY <1>1, <1>3 DEF Left
  <2>5. request'[c] # None
    BY <1>1, RequestTyped
  <2>6. CASE closed /\ Answer(c, InternalError)
    <3>1. at'[c] = "done" /\ status'[c] = InternalError
      BY <2>6 DEF Answer, Shape
    <3>2. Alone(c)' = TransactionAlone(data, r)
      BY <1>1 DEF Alone
    <3>3. data \in Data
      BY DEF TypesInv, Types, DataTypes
    <3>4. Alone(c)'.map[0] = data /\ 0 \in 0..Alone(c)'.last
      <4>1. AloneRight(Alone(c)', data, r)
        BY <1>3, <3>2, <3>3, CourseAlone
      <4> QED
        BY <4>1 DEF AloneRight
    <3>5. Cut(c)'
      BY <1>1, <2>2, <2>4, <2>6, <3>4 DEF Cut, Left
    <3> QED
      BY <3>1, <3>5 DEF OnCourse
  <2>7. CASE GoOn(c, "check")
    <3>1. at'[c] = "check"
      BY <2>7 DEF GoOn, Shape
    <3>2. 1 .. position'[c] - 1 = {}
      BY <1>1
    <3>3. CheckingAlone(c)'
      BY <2>3, <2>4, <3>2 DEF CheckingAlone
    <3> QED
      BY <3>1, <3>3 DEF OnCourse
  <2> QED
    BY <2>2, <2>6, <2>7
<1> QED
  BY <1>2, <1>3

LEMMA CheckCourse ==
    ASSUME Shape, TypesInv, BranchInv, CourseInv, NEW c \in Client, CheckCondition(c)
    PROVE  OnCourse(c)'
<1> DEFINE compare == request[c].compare
           i == position[c]
           holds == compare = <<>> \/ Holds(IF closed THEN None ELSE data[compare[i].key], compare[i])
           d == before[c]
<1> SUFFICES ASSUME Of(c, "txn")'
             PROVE  OnCourse(c)'
  BY DEF OnCourse
<1>1. /\ at[c] = "check" /\ NextCondition(c, holds)
      /\ UNCHANGED <<closed, data, transactions, request, responses, status, before, disturbed>>
  BY DEF CheckCondition, engineVars, historyVars
<1>2. CheckingAlone(c) /\ Of(c, "txn") /\ request[c] # None /\ request[c].type = "txn"
  BY <1>1 DEF CourseInv, OnCourse, Of
<1>3. /\ request[c] \in Request /\ before[c] \in Data /\ Keys(request[c]) \subseteq Key
      /\ Alone(c).holds = Met(before[c], request[c])
      /\ Alone(c).map[0] = before[c] /\ 0 \in 0..Alone(c).last
  BY <1>2, AloneFacts DEF AloneRight
<1>4. /\ compare \in Seq(Compare) /\ i \in Nat \ {0} /\ DOMAIN compare = 1..Len(compare)
      /\ Len(compare) \in Nat
      /\ \A j \in DOMAIN compare : compare[j] \in Compare /\ compare[j].key \in Keys(request[c])
      /\ compare = <<>> \/ i <= Len(compare)
  <2>1. compare = <<>> \/ i <= Len(compare)
    BY <1>1 DEF BranchInv, Branch, Checking
  <2>2. /\ compare \in Seq(Compare)
        /\ \A j \in DOMAIN compare : compare[j] \in Compare /\ compare[j].key \in Keys(request[c])
    BY <1>2, <1>3, TransactionKeys
  <2>3. i \in Nat \ {0}
    BY DEF Shape
  <2> QED
    BY <2>1, <2>2, <2>3
<1>5. Alike(data, d, Keys(request[c]))
  BY <1>2 DEF CheckingAlone, Left, Alike
<1>6. ASSUME ~closed, compare # <<>>
      PROVE  i \in DOMAIN compare /\ (holds <=> Satisfied(d, compare[i]))
  <2>1. i \in DOMAIN compare
    BY <1>4, <1>6
  <2>2. Holds(data[compare[i].key], compare[i]) <=> Satisfied(data, compare[i])
    BY <1>4, <2>1, HoldsIsTruth
  <2>3. Satisfied(data, compare[i]) <=> Satisfied(d, compare[i])
    BY <1>4, <1>5, <2>1, ConditionAlike
  <2> QED
    BY <1>6, <2>1, <2>2, <2>3
<1>7. /\ \A k \in Keys(request[c]) : data[k] = d[k]
      /\ Alone(c)' = Alone(c) /\ before'[c] = d
  BY <1>1, <1>2 DEF CheckingAlone, Left, Alone
<1>8. CASE holds /\ i < Len(compare)
  <2>1. position' = [position EXCEPT ![c] = i + 1] /\ at' = at
    BY <1>1, <1>8 DEF NextCondition
  <2>2. position'[c] = i + 1
    BY <2>1 DEF Shape
  <2>3. ASSUME ~closed, NEW j \in 1 .. position'[c] - 1
        PROVE  Satisfied(d, compare[j])
    <3>1. compare # <<>>
      BY <1>4, <1>8
    <3>2. j = i \/ j \in 1 .. i - 1
      BY <1>4, <2>2
    <3> QED
      BY <1>2, <1>6, <1>8, <2>3, <3>1, <3>2 DEF CheckingAlone
  <2>4. CheckingAlone(c)'
    <3> HIDE DEF holds
    <3> QED
      BY <1>1, <1>2, <1>7, <2>3 DEF CheckingAlone, Left
  <2> QED
    BY <1>1, <2>1, <2>4 DEF OnCourse
<1>9. CASE ~(holds /\ i < Len(compare))
  <2>1. at' = [at EXCEPT ![c] = "execute"] /\ position' = [position EXCEPT ![c] = 1]
        /\ met' = [met EXCEPT ![c] = holds]
    BY <1>1, <1>9 DEF NextCondition
  <2>2. at'[c] = "execute" /\ position'[c] = 1
    BY <2>1 DEF Shape
  <2>3. CASE closed
    <3>1. Cut(c)'
      BY <1>1, <1>3, <1>7, <2>3 DEF Cut, Left
    <3> QED
      BY <2>2, <3>1 DEF OnCourse
  <2>4. CASE ~closed
    <3>1. holds \in BOOLEAN
      BY DEF Holds
    <3>2. met'[c] = holds
      <4> HIDE DEF holds
      <4> QED
        BY <2>1 DEF Shape
    <3>3. holds <=> Met(d, request[c])
      <4>1. CASE compare = <<>>
        <5>1. holds /\ DOMAIN compare = {}
          BY <1>4, <4>1
        <5> QED
          BY <5>1 DEF Met
      <4>2. CASE compare # <<>> /\ holds
        <5>1. ~(i < Len(compare))
          BY <1>9, <4>2
        <5>2. \A j \in DOMAIN compare : j = i \/ j \in 1 .. i - 1
          BY <1>4, <5>1
        <5>3. \A j \in DOMAIN compare : Satisfied(d, compare[j])
          BY <1>2, <1>6, <2>4, <4>2, <5>2 DEF CheckingAlone
        <5> QED
          BY <4>2, <5>3 DEF Met
      <4>3. CASE compare # <<>> /\ ~holds
        BY <1>6, <2>4, <4>3 DEF Met
      <4> QED
        BY <4>1, <4>2, <4>3
    <3>4. met'[c] = Alone(c).holds
      <4>1. Met(d, request[c]) \in BOOLEAN
        BY DEF Met
      <4> HIDE DEF holds
      <4> QED
        BY <1>3, <3>1, <3>2, <3>3, <4>1
    <3>5. Done(c, 0)'
      <4>1. \A j \in 1..0 : FALSE
        OBVIOUS
      <4>2. responses'[c] = <<>> /\ Len(<<>>) = 0
        BY <1>1, <1>2 DEF CheckingAlone
      <4>3. Left(c, Alone(c).map[0])'
        BY <1>1, <1>3, <1>7 DEF Left
      <4> QED
        BY <1>3, <1>7, <4>1, <4>2, <4>3 DEF Done
    <3>6. position'[c] - 1 = 0
      BY <2>2
    <3>7. ExecutingAlone(c)'
      BY <1>1, <1>7, <2>4, <3>4, <3>5, <3>6 DEF ExecutingAlone
    <3> QED
      BY <2>2, <3>7 DEF OnCourse
  <2> QED
    BY <2>3, <2>4
<1> QED
  BY <1>8, <1>9

\* An operation of an undisturbed transaction does what it does alone.
LEMMA ExecuteCourse ==
    ASSUME Shape, TypesInv, CourseInv, NEW c \in Client, ExecuteOperation(c)
    PROVE  OnCourse(c)'
<1> USE DEF TypesInv
<1> SUFFICES ASSUME Of(c, "txn")'
             PROVE  OnCourse(c)'
  BY DEF OnCourse
<1> DEFINE r == request[c]
           p == position[c]
           o == Operations(c)[p]
           result == Result(data, o)
           s == Chosen(before[c], r)
           alone == Alone(c)
           m == alone.map[p - 1]
<1>1. /\ at[c] = "execute" /\ p \in Nat \ {0} /\ p <= Len(Operations(c)) /\ o \in Operation
  BY NextOperation
<1>2. UNCHANGED <<closed, request, met, status>>
  BY ExecuteEffect
<1>3. before' = before /\ (c \notin disturbed' => c \notin disturbed)
  BY ExecuteEffect DEF Write, historyVars
<1>4. Of(c, "txn") /\ (Cut(c) \/ ExecutingAlone(c)) /\ alone' = alone
  BY <1>1, <1>2, <1>3 DEF CourseInv, OnCourse, Of, Alone
<1>5. CASE Cut(c)
  <2>1. Fails(data, o)
    BY <1>5 DEF Cut, Fails
  <2>2. at'[c] = "rollback" /\ data' = data
    BY <2>1, ExecuteEffect
  <2>3. Cut(c)'
    BY <1>2, <1>4, <1>5, <2>2 DEF Cut, Left
  <2> QED
    BY <2>2, <2>3 DEF OnCourse
<1>6. CASE ExecutingAlone(c)
  <2>1. /\ request[c] \in Request /\ AloneRight(alone, before[c], r)
        /\ request[c].type = "txn" /\ data \in Data
    BY <1>4, AloneFacts DEF Of, Types, DataTypes
  <2>2. Operations(c) = s /\ ~closed /\ Done(c, p - 1)
    BY <1>6, <2>1 DEF ExecutingAlone, AloneRight, Operations, Chosen
  <2> HIDE DEF alone, s, r
  <2>3. /\ Keys(r) \in SUBSET Key /\ Len(s) \in Nat /\ alone.last \in 0..Len(s) /\ p \in 1..Len(s)
        /\ p - 1 \in 0..alone.last /\ p - 1 \in 0..Len(s) /\ (p - 1) + 1 = p
    <3>1. Keys(r) \subseteq Key /\ Len(s) \in Nat /\ alone.last \in 0..Len(s) /\ p - 1 \in 0..alone.last
      BY <2>1, <2>2 DEF AloneRight, Done, alone, s
    <3>2. p <= Len(s)
      BY <1>1, <2>2
    <3> QED
      BY <1>1, <3>1, <3>2
  <2>4. m \in Data /\ s[p].key \in Keys(r) /\ alone.map[p] = After(m, s[p])
    BY <2>1, <2>3 DEF AloneRight, s
  <2>5. o = s[p]
    BY <2>2
  <2>6. Alike(data, m, Keys(r))
    BY <2>2 DEF Done, Left, Alike, alone, r
  <2>7. /\ Alike(After(data, o), After(m, o), Keys(r))
        /\ Result(data, o) = Result(m, o) /\ (Fails(data, o) <=> Fails(m, o))
    <3> HIDE DEF o, m
    <3> QED
      BY <1>1, <2>1, <2>3, <2>4, <2>5, <2>6, OperationAlike
  <2>8. Fails(m, o) <=> ~CanDo(alone.map, s, p)
    <3>1. o.op \in {"PUT", "GET", "DELETE", "OTHER"}
      BY <1>1, OperationTyped
    <3> QED
      BY <2>2, <2>5, <3>1 DEF Fails, CanDo
  <2>9. /\ \A i \in 1..alone.last : CanDo(alone.map, s, i)
        /\ alone.last < Len(s) => ~CanDo(alone.map, s, alone.last + 1)
        /\ alone.complete = (alone.last = Len(s))
        /\ alone.results = [n \in 1..alone.last |-> Result(alone.map[n - 1], s[n])]
    BY <2>1 DEF AloneRight, s
  <2>10. CASE Fails(data, o)
    <3>1. at'[c] = "rollback" /\ data' = data
      BY <2>10, ExecuteEffect
    <3>2. p \notin 1..alone.last
      BY <2>7, <2>8, <2>9, <2>10
    <3>3. alone.last = p - 1 /\ alone.last # Len(s)
      BY <1>1, <2>3, <3>2
    <3>4. Failed(c)
      BY <2>2, <2>9, <3>3 DEF Failed, Done, alone
    <3>5. Failed(c)'
      BY <1>2, <1>4, <3>1, <3>4 DEF Failed, Left, alone
    <3> QED
      BY <3>1, <3>5 DEF OnCourse
  <2>11. CASE ~Fails(data, o)
    <3>1. /\ at' = at /\ data' = After(data, o) /\ position'[c] = p + 1
          /\ Responds(c, Append(responses[c], result))
      BY <2>11, ExecuteEffect DEF Write
    <3>2. p \in 1..alone.last
      <4>1. p - 1 # alone.last
        BY <2>3, <2>7, <2>8, <2>9, <2>11
      <4> QED
        BY <1>1, <2>3, <4>1
    <3>3. responses'[c] = Append(responses[c], result)
      BY <3>1, RespondsOwn
    <3>4. responses[c] \in Seq(Value \cup {None}) /\ Len(responses[c]) = p - 1
      BY <2>2 DEF Types, ResponseTypes, Done
    <3>5. alone.results[p] = result
      BY <2>5, <2>7, <2>9, <3>2
    <3> HIDE DEF o, result, m
    <3>6. /\ Len(responses'[c]) = p
          /\ \A i \in 1..p : \/ i \in 1..(p - 1) /\ responses'[c][i] = responses[c][i]
                             \/ i = p /\ responses'[c][i] = result
      BY <1>1, <3>3, <3>4
    <3>7. \A i \in 1..p : responses'[c][i] = alone.results[i]
      BY <2>2, <3>5, <3>6 DEF Done, alone
    <3>8. \A k \in Keys(r) : data'[k] = alone.map[p][k]
      BY <2>4, <2>5, <2>7, <3>1 DEF Alike
    <3>9. position'[c] - 1 = p
      BY <1>1, <3>1
    <3>10. p \in 0..alone.last
      BY <2>3, <3>2
    <3>11. closed' = closed /\ request' = request /\ met' = met /\ Alone(c)' = alone /\ ~closed
      BY <1>2, <1>4, <2>2 DEF alone
    <3>12. met[c] = alone.holds
      BY <1>6 DEF ExecutingAlone, alone
    <3> HIDE DEF p
    <3>13. ExecutingAlone(c)'
      BY <3>6, <3>7, <3>8, <3>9, <3>10, <3>11, <3>12 DEF ExecutingAlone, Done, Left, r
    <3> QED
      BY <1>1, <3>1, <3>13 DEF OnCourse
  <2> QED
    BY <2>10, <2>11
<1> QED
  BY <1>4, <1>5, <1>6

LEMMA EndCourse ==
    ASSUME Shape, TypesInv, CourseInv, NEW c \in Client, Rollback(c) \/ Commit(c)
    PROVE  OnCourse(c)'
<1> USE DEF TypesInv
<1> SUFFICES ASSUME Of(c, "txn")'
             PROVE  OnCourse(c)'
  BY DEF OnCourse
<1>1. UNCHANGED <<data, closed, request, position, met, responses, before, disturbed>>
  BY DEF Rollback, Commit, historyVars
<1>2. at'[c] = "done"
  BY DEF Rollback, Commit, Answer, Shape
<1>3. Of(c, "txn") /\ Alone(c)' = Alone(c) /\ OnCourse(c)
  BY <1>1 DEF CourseInv, Of, Alone
<1>4. (Cut(c) => Cut(c)') /\ (Failed(c) => Failed(c)')
  BY <1>1, <1>3 DEF Cut, Failed, Left
<1>5. CASE Rollback(c)
  <2>1. at[c] = "rollback" /\ status'[c] = InternalError
    BY <1>5 DEF Rollback, Answer, Shape
  <2> QED
    BY <1>2, <1>3, <1>4, <2>1 DEF OnCourse
<1>6. CASE Commit(c)
  <2>1. /\ at[c] = "execute" /\ position[c] > Len(Operations(c))
        /\ status'[c] = IF closed THEN InternalError ELSE OK
    BY <1>6 DEF Commit, Answer, Shape
  <2>2. CASE Cut(c)
    BY <1>2, <1>3, <1>4, <2>1, <2>2 DEF OnCourse, Cut
  <2>3. CASE ExecutingAlone(c)
    <3> DEFINE alone == Alone(c)
               s == Chosen(before[c], request[c])
    <3>1. AloneRight(alone, before[c], request[c])
      BY <1>3, AloneFacts DEF Of
    <3>2. Operations(c) = s /\ ~closed /\ Done(c, position[c] - 1) /\ met[c] = alone.holds
      BY <2>3, <3>1 DEF ExecutingAlone, AloneRight, Operations, Chosen
    <3>3. /\ Len(s) \in Nat /\ alone.last \in 0..Len(s)
          /\ alone.complete = (alone.last = Len(s))
          /\ alone.results = [n \in 1..alone.last |-> Result(alone.map[n - 1], s[n])]
      BY <3>1 DEF AloneRight
    <3>4. position[c] - 1 \in 0..alone.last /\ position[c] > Len(s) /\ position[c] \in Nat
      BY <2>1, <3>2 DEF Done, Shape
    <3> HIDE DEF s
    <3>5. position[c] - 1 = alone.last /\ alone.last = Len(s)
      BY <3>3, <3>4
    <3>6. /\ Left(c, alone.map[alone.last]) /\ Len(responses[c]) = alone.last
          /\ \A i \in 1..alone.last : responses[c][i] = alone.results[i]
      BY <3>2, <3>5 DEF Done
    <3>7. responses[c] \in Seq(Value \cup {None})
      BY DEF Types, ResponseTypes
    <3> HIDE DEF alone
    <3>8. responses[c] = [i \in 1..alone.last |-> responses[c][i]]
      BY <3>6, <3>7
    <3>9. alone.results = [i \in 1..alone.last |-> alone.results[i]]
      BY <3>3
    <3>10. responses[c] = alone.results
      BY <3>6, <3>8, <3>9
    <3>11. alone.complete
      BY <3>3, <3>5
    <3>12. CommittedAlone(c)
      BY <3>2, <3>6, <3>10, <3>11 DEF CommittedAlone, alone
    <3>13. CommittedAlone(c)'
      BY <1>1, <1>3, <3>12 DEF CommittedAlone, Left
    <3> QED
      BY <1>2, <2>1, <3>2, <3>13 DEF OnCourse
  <2> QED
    BY <1>3, <2>1, <2>2, <2>3 DEF OnCourse
<1> QED
  BY <1>5, <1>6

LEMMA OthersCourse ==
    ASSUME Shape, TypesInv, CourseInv, NEW c \in Client, Handle(c), NEW x \in Client, x # c
    PROVE  OnCourse(x)'
<1> USE DEF TypesInv
<1> SUFFICES ASSUME Of(x, "txn")'
             PROVE  OnCourse(x)'
  BY DEF OnCourse
<1>1. /\ Of(x, "txn")
      /\ at'[x] = at[x] /\ request'[x] = request[x] /\ position'[x] = position[x]
      /\ met'[x] = met[x] /\ responses'[x] = responses[x] /\ status'[x] = status[x]
      /\ before'[x] = before[x] /\ closed' = closed
      /\ \A k \in Keys(request[x]) : data'[k] = data[k]
  <2>1. /\ Of(x, "txn") /\ UNCHANGED <<at[x], request[x], position[x], met[x], responses[x]>>
        /\ UNCHANGED <<status[x], before[x], closed>>
    BY OthersLeft
  <2>2. x \notin disturbed' /\ request[x] # None
    BY <2>1 DEF Of
  <2> QED
    BY <2>1, <2>2, Undisturbed
<1>2. Alone(x)' = Alone(x)
  BY <1>1 DEF Alone
<1>3. (Cut(x) => Cut(x)') /\ (Failed(x) => Failed(x)')
  BY <1>1, <1>2 DEF Cut, Failed, Left
<1>4. CheckingAlone(x) => CheckingAlone(x)'
  BY <1>1 DEF CheckingAlone, Left
<1>5. CommittedAlone(x) => CommittedAlone(x)'
  BY <1>1, <1>2 DEF CommittedAlone, Left
<1>6. ExecutingAlone(x) => ExecutingAlone(x)'
  BY <1>1, <1>2 DEF ExecutingAlone, Done, Left
<1>7. OnCourse(x)
  BY DEF CourseInv
<1> QED
  BY <1>1, <1>3, <1>4, <1>5, <1>6, <1>7 DEF OnCourse

LEMMA NextCourse == Shape /\ TypesInv /\ BranchInv /\ CourseInv /\ [Next]_vars => CourseInv'
<1> SUFFICES ASSUME Shape, TypesInv, BranchInv, CourseInv, [Next]_vars
             PROVE  CourseInv'
  OBVIOUS
<1>1. ASSUME NEW c \in Client, Handle(c)
      PROVE  CourseInv'
  <2>1. ASSUME NEW r \in Request, Starts(c, r)
        PROVE  OnCourse(c)'
    BY <2>1, StartCourse
  <2>2. ASSUME BatchPut(c) \/ BatchDelete(c)
        PROVE  OnCourse(c)'
    <3>1. at[c] \in {"put", "delete"} /\ request' = request
      BY <2>2 DEF BatchPut, BatchDelete
    <3>2. request'[c].type = "batch"
      BY <3>1 DEF TypesInv, KindInv
    <3> QED
      BY <3>2 DEF OnCourse, Of
  <2>3. OnCourse(c)'
    BY <1>1, <2>1, <2>2, CheckCourse, ExecuteCourse, EndCourse DEF Handle, Starts
  <2> QED
    BY <1>1, <2>3, OthersCourse DEF CourseInv
<1>2. CASE CloseEngine \/ UNCHANGED vars
  <2>1. /\ UNCHANGED <<data, at, request, position, met, responses, status, before, disturbed>>
        /\ closed' = closed \/ (~closed /\ closed')
    BY <1>2 DEF CloseEngine, vars, engineVars, handlerVars, historyVars
  <2>2. ASSUME NEW c \in Client, Of(c, "txn")'
        PROVE  OnCourse(c)'
    <3>1. Of(c, "txn") /\ Alone(c)' = Alone(c) /\ OnCourse(c)
      BY <2>1, <2>2 DEF CourseInv, Of, Alone
    <3>2. (Cut(c) => Cut(c)') /\ (Failed(c) => Failed(c)') /\ (CommittedAlone(c) => CommittedAlone(c)')
      BY <2>1, <3>1 DEF Cut, Failed, CommittedAlone, Left
    <3>3. CheckingAlone(c) => CheckingAlone(c)'
      BY <2>1 DEF CheckingAlone, Left
    <3>4. closed' /\ ExecutingAlone(c) => Cut(c)'
      BY <2>1, <3>1 DEF ExecutingAlone, Done, Cut, Left
    <3>5. ~closed' /\ ExecutingAlone(c) => ExecutingAlone(c)'
      BY <2>1, <3>1 DEF ExecutingAlone, Done, Left
    <3> QED
      BY <2>1, <3>1, <3>2, <3>3, <3>4, <3>5 DEF OnCourse
  <2> QED
    BY <2>2 DEF CourseInv, OnCourse
<1> QED
  BY <1>1, <1>2 DEF Next

\* A transaction whose keys no other request changes while it runs and that is answered OK took the
\* branch, read the values and left these keys as if it ran alone; one that is refused would fail
\* alone, too, or met a closed engine: for transactions of any length and any number of clients
\* (server.go:984-1092).
THEOREM TransactionAlwaysAsIfAlone == Spec => []TransactionAsIfAlone
<1>1. ASSUME CourseInv
      PROVE  TransactionAsIfAlone
  <2>1. ASSUME NEW c \in Client \ disturbed, at[c] = "done", request[c] # None,
               request[c].type = "txn"
        PROVE  \/ status[c] = InternalError /\ (Cut(c) \/ Failed(c))
               \/ status[c] = OK /\ CommittedAlone(c)
    BY <1>1, <2>1 DEF CourseInv, OnCourse, Of
  <2>2. ASSUME NEW c \in Client
        PROVE  Cut(c) \/ Failed(c) => closed \/ ~Alone(c).complete
    BY DEF Cut, Failed
  <2> QED
    BY <2>1, <2>2 DEF TransactionAsIfAlone, CommittedAlone, Left, Alone
<1>2. CourseInv => TransactionAsIfAlone
  BY <1>1
<1>3. Init => CourseInv
  BY DEF Init, CourseInv, OnCourse, Of
<1>4. Init => BranchInv
  BY DEF Init, BranchInv, Branch, Checking, Executing, Answered, Batching
<1>5. Spec => [](Shape /\ TypesInv /\ BranchInv /\ CourseInv)
  BY <1>3, <1>4, InitShape, NextShape, InitTypes, NextTypes, NextBranch, NextCourse, PTL DEF Spec
<1> QED
  BY <1>2, <1>5, PTL

=============================================================================
