---------------------------------- MODULE Api ----------------------------------
(***************************************************************************)
(* The HTTP handlers of src/internal/api/server.go that read and write     *)
(* keys, each in the goroutine of its client's request, over a storage     *)
(* engine whose operations take effect at once (what Engine implements,    *)
(* see DurableMap).  A transaction or a batch is several engine calls, and *)
(* the calls of other requests, or Engine.Close, may come between them.    *)
(*                                                                         *)
(* Keys and values are numbers, in the order in which Go compares the      *)
(* strings.  Requests have no TTL: expiry is the subject of Engine and of  *)
(* LeasedKeys.  Bodies are well-formed: a request that does not decode is  *)
(* refused before it reaches the engine.                                   *)
(***************************************************************************)
EXTENDS Naturals, Sequences, FiniteSets, SequencesExt

CONSTANTS
    Key,
    Value,
    None,       \* no value
    Client,
    Request     \* the requests that clients send

Operation == [op : {"PUT", "GET", "DELETE", "OTHER"}, key : Key, value : Value]
Compare == [key : Key, op : {"=", "!=", ">", "<", "OTHER"}, value : Value]

ASSUME ApiAssumption ==
    /\ Key \cup Value \subseteq Nat
    /\ None \notin Value /\ None \notin Request
    /\ \A r \in Request :
        \/ r.type = "key" /\ r.operation \in [op : {"PUT", "GET", "DELETE"}, key : Key, value : Value]
        \/ r.type = "range" /\ {r.key, r.rangeEnd} \subseteq Nat /\ r.limit \in Nat
        \/ r.type = "batch" /\ r.operations \in Seq(Operation)
        \/ r.type = "txn" /\ r.compare \in Seq(Compare)
                          /\ {r.success, r.failure} \subseteq Seq(Operation)

\* Status codes
OK == 200
BadRequest == 400
NotFound == 404
InternalError == 500

VARIABLES
    data,          \* e.data: the value of each key, or None
    closed,        \* e.closed
    transactions,  \* e.transactions: the clients whose transaction is open.  (A transaction's
                   \* id is the time it began, which no two have in common.)
    at,            \* where the handler of each client is: "done", in checkConditions ("check"),
                   \* before an executeOperation or the commit ("execute"), before the rollback
                   \* ("rollback"), before the BatchPut ("put") or the BatchDelete ("delete")
    request,       \* the request it handles, or has answered last, or None
    position,      \* the next condition or operation
    met,           \* conditionsMet
    responses,     \* the results so far: what was read, a PUT's value, None for a DELETE
    status,        \* the status it has answered with, or 0
    before,        \* history: data when the request came,
    disturbed,     \* the clients with a key of whose request another request changed since,
    seen           \* and <<i, b>> if condition i had truth value b at some moment since

engineVars == <<data, closed, transactions>>
handlerVars == <<at, request, position, met, responses, status>>
historyVars == <<before, disturbed, seen>>
vars == <<engineVars, handlerVars, historyVars>>

Init ==
    /\ data = [k \in Key |-> None]
    /\ closed = FALSE
    /\ transactions = {}
    /\ at = [c \in Client |-> "done"]
    /\ request = [c \in Client |-> None]
    /\ position = [c \in Client |-> 1]
    /\ met = [c \in Client |-> TRUE]
    /\ responses = [c \in Client |-> <<>>]
    /\ status = [c \in Client |-> 0]
    /\ before = [c \in Client |-> data]
    /\ disturbed = {}
    /\ seen = [c \in Client |-> {}]

-----------------------------------------------------------------------------
(* What conditions and operations do *)

\* Mutant: no condition holds of a missing key
HoldsIfPresent(value, cond) ==
    /\ value # None
    /\ CASE cond.op = "="  -> value = cond.value
         [] cond.op = "!=" -> value # cond.value
         [] cond.op = ">"  -> value > cond.value
         [] cond.op = "<"  -> value < cond.value
         [] OTHER          -> FALSE
\* checkConditions, for what Get has found; a failed Get counts as a missing key
Holds(value, cond) ==
    IF value = None THEN cond.op \in {"!=", ">"}
    ELSE CASE cond.op = "="  -> value = cond.value
           [] cond.op = "!=" -> value # cond.value
           [] cond.op = ">"  -> value > cond.value
           [] cond.op = "<"  -> value < cond.value
           [] OTHER          -> FALSE

\* Mutant: a missing key reads as None
FailsIfUnknown(d, o) == closed \/ o.op = "OTHER" \/ (o.op = "DELETE" /\ d[o.key] = None)
\* Get, Put and Delete, and executeOperation
Fails(d, o) == closed \/ o.op = "OTHER" \/ (o.op \in {"GET", "DELETE"} /\ d[o.key] = None)

After(d, o) ==
    CASE o.op = "PUT"    -> [d EXCEPT ![o.key] = o.value]
      [] o.op = "DELETE" -> [d EXCEPT ![o.key] = None]
      [] OTHER           -> d

Result(d, o) ==
    CASE o.op = "PUT" -> o.value
      [] o.op = "GET" -> d[o.key]
      [] OTHER        -> None

\* puts and deletes of handleBatch: of several values for a key the last one stays
KeysWith(operations, op) == {o.key : o \in {o \in ToSet(operations) : o.op = op}}
LastValue(operations, k) ==
    operations[SelectLastInSeq(operations, LAMBDA o : o.op = "PUT" /\ o.key = k)].value
\* Mutant: of several values for a key the first one stays
FirstPuts(d, operations) ==
    [k \in Key |-> IF k \in KeysWith(operations, "PUT")
                   THEN operations[SelectInSeq(operations, LAMBDA o : o.op = "PUT" /\ o.key = k)].value
                   ELSE d[k]]
AfterPuts(d, operations) ==
    [k \in Key |-> IF k \in KeysWith(operations, "PUT") THEN LastValue(operations, k) ELSE d[k]]
AfterDeletes(d, operations) ==
    [k \in Key |-> IF k \in KeysWith(operations, "DELETE") THEN None ELSE d[k]]

\* Range: the keys found, in order and no more than the limit, their number, and whether
\* some are left out.  An end of 0 stands for the empty one, which asks for the key alone.
InRange(d, r) ==
    {k \in Key : d[k] # None /\ IF r.rangeEnd = 0 THEN k = r.key ELSE r.key <= k /\ k < r.rangeEnd}
RangeResult(d, r) ==
    LET found == InRange(d, r)
        n == Cardinality(found)
        most == IF r.rangeEnd # 0 /\ r.limit > 0 /\ n > r.limit THEN r.limit ELSE n
        Nth(i) == CHOOSE k \in found : Cardinality({j \in found : j < k}) = i - 1
    IN  [i \in 1..most |-> d[Nth(i)]]

-----------------------------------------------------------------------------
(* The course of a handler *)

Keys(r) ==
    CASE r.type = "key"   -> {r.operation.key}
      [] r.type = "range" -> Key
      [] r.type = "batch" -> {o.key : o \in ToSet(r.operations)}
      [] r.type = "txn"   -> {o.key : o \in ToSet(r.compare \o r.success \o r.failure)}

\* The truth of the conditions of r, a missing key being greater than any value
Satisfied(d, cond) ==
    LET value == d[cond.key]
    IN  \/ cond.op = "=" /\ value = cond.value
        \/ cond.op = "!=" /\ value # cond.value
        \/ cond.op = ">" /\ (value = None \/ value > cond.value)
        \/ cond.op = "<" /\ value # None /\ value < cond.value
Truths(d, r) ==
    IF r.type = "txn" THEN {<<i, Satisfied(d, r.compare[i])>> : i \in DOMAIN r.compare} ELSE {}

\* The requests that client c's engine call, which leaves data d, comes between
Disturbed(c, d) ==
    {x \in Client \ {c} : request[x] # None /\ \E k \in Keys(request[x]) : d[k] # data[k]}
SeenAfter(c, d, x) ==
    IF x = c \/ at[x] = "done" THEN seen[x] ELSE seen[x] \cup Truths(d, request[x])

Write(c, d) ==
    /\ data' = d
    /\ disturbed' = disturbed \cup Disturbed(c, d)
    /\ seen' = [x \in Client |-> SeenAfter(c, d, x)]
    /\ UNCHANGED before

\* A request of client c, whose first engine call leaves data d
Start(c, r, d) ==
    /\ at[c] = "done"
    /\ request' = [request EXCEPT ![c] = r]
    /\ position' = [position EXCEPT ![c] = 1]
    /\ met' = [met EXCEPT ![c] = TRUE]
    /\ data' = d
    /\ before' = [before EXCEPT ![c] = data]
    /\ disturbed' = (disturbed \ {c}) \cup Disturbed(c, d)
    /\ seen' = [x \in Client |-> IF x = c THEN Truths(data, r) ELSE SeenAfter(c, d, x)]
    /\ UNCHANGED closed

Answer(c, code) ==
    /\ at' = [at EXCEPT ![c] = "done"]
    /\ status' = [status EXCEPT ![c] = code]

GoOn(c, step) ==
    /\ at' = [at EXCEPT ![c] = step]
    /\ status' = [status EXCEPT ![c] = 0]

\* handleGet, handlePut, handleDelete
HandleKey(c, r) ==
    LET o == r.operation
    IN  /\ r.type = "key"
        /\ Start(c, r, IF Fails(data, o) THEN data ELSE After(data, o))
        /\ Answer(c, CASE closed         -> InternalError
                       [] Fails(data, o) -> NotFound
                       [] OTHER          -> OK)
        /\ responses' = [responses EXCEPT ![c] = IF Fails(data, o) THEN <<>> ELSE <<Result(data, o)>>]
        /\ UNCHANGED transactions

\* handleRange
HandleRange(c, r) ==
    /\ r.type = "range"
    /\ Start(c, r, data)
    /\ Answer(c, IF closed THEN InternalError ELSE OK)
    /\ responses' = [responses EXCEPT ![c] = IF closed THEN <<>> ELSE RangeResult(data, r)]
    /\ UNCHANGED transactions

\* handleBatch: operations are sorted out before any is executed
StartBatch(c, r) ==
    /\ r.type = "batch"
    /\ Start(c, r, data)
    /\ IF \A o \in ToSet(r.operations) : o.op \in {"PUT", "DELETE"}
         THEN GoOn(c, "put")
         ELSE Answer(c, BadRequest)
    /\ responses' = [responses EXCEPT ![c] = <<>>]
    /\ UNCHANGED transactions

BatchPut(c) ==
    LET operations == request[c].operations
        failing == closed /\ KeysWith(operations, "PUT") # {}
    IN  /\ at[c] = "put"
        /\ IF failing THEN Answer(c, InternalError) ELSE GoOn(c, "delete")
        /\ Write(c, IF failing THEN data ELSE AfterPuts(data, operations))
        /\ UNCHANGED <<closed, transactions, request, position, met, responses>>

BatchDelete(c) ==
    LET operations == request[c].operations
        failing == closed /\ KeysWith(operations, "DELETE") # {}
    IN  /\ at[c] = "delete"
        /\ Answer(c, IF failing THEN InternalError ELSE OK)
        /\ Write(c, IF failing THEN data ELSE AfterDeletes(data, operations))
        /\ UNCHANGED <<closed, transactions, request, position, met, responses>>

\* handleTransaction
BeginTransaction(c, r) ==
    /\ r.type = "txn"
    /\ Start(c, r, data)
    /\ IF closed
         THEN Answer(c, InternalError) /\ UNCHANGED transactions
         ELSE GoOn(c, "check") /\ transactions' = transactions \cup {c}
    /\ responses' = [responses EXCEPT ![c] = <<>>]

\* Mutant: the last condition decides
LastDecides(c, holds) ==
    IF position[c] < Len(request[c].compare)
      THEN /\ position' = [position EXCEPT ![c] = @ + 1]
           /\ UNCHANGED <<at, met>>
      ELSE /\ at' = [at EXCEPT ![c] = "execute"]
           /\ position' = [position EXCEPT ![c] = 1]
           /\ met' = [met EXCEPT ![c] = holds]
\* A condition that fails ends the checking
NextCondition(c, holds) ==
    IF holds /\ position[c] < Len(request[c].compare)
      THEN /\ position' = [position EXCEPT ![c] = @ + 1]
           /\ UNCHANGED <<at, met>>
      ELSE /\ at' = [at EXCEPT ![c] = "execute"]
           /\ position' = [position EXCEPT ![c] = 1]
           /\ met' = [met EXCEPT ![c] = holds]

CheckCondition(c) ==
    LET compare == request[c].compare
        cond == compare[position[c]]
    IN  /\ at[c] = "check"
        /\ NextCondition(c, compare = <<>> \/ Holds(IF closed THEN None ELSE data[cond.key], cond))
        /\ UNCHANGED <<engineVars, request, responses, status, historyVars>>

Operations(c) == IF met[c] THEN request[c].success ELSE request[c].failure

ExecuteOperation(c) ==
    LET o == Operations(c)[position[c]]
    IN  /\ at[c] = "execute"
        /\ position[c] <= Len(Operations(c))
        /\ IF Fails(data, o)
             THEN /\ at' = [at EXCEPT ![c] = "rollback"]
                  /\ UNCHANGED <<data, position, responses, historyVars>>
             ELSE /\ Write(c, After(data, o))
                  /\ position' = [position EXCEPT ![c] = @ + 1]
                  /\ responses' = [responses EXCEPT ![c] = Append(@, Result(data, o))]
                  /\ UNCHANGED at
        /\ UNCHANGED <<closed, transactions, request, met, status>>

\* Mutant: the error is answered and the transaction left as it is
AnswerOnly(c) ==
    /\ at[c] = "rollback"
    /\ Answer(c, InternalError)
    /\ UNCHANGED <<engineVars, request, position, met, responses, historyVars>>
\* RollbackTransaction forgets the transaction; what was executed stays
Rollback(c) ==
    /\ at[c] = "rollback"
    /\ transactions' = IF closed THEN transactions ELSE transactions \ {c}
    /\ Answer(c, InternalError)
    /\ UNCHANGED <<data, closed, request, position, met, responses, historyVars>>

\* CommitTransaction: the transaction has no operations, as nothing calls AddOperation
Commit(c) ==
    /\ at[c] = "execute"
    /\ position[c] > Len(Operations(c))
    /\ transactions' = IF closed THEN transactions ELSE transactions \ {c}
    /\ Answer(c, IF closed THEN InternalError ELSE OK)
    /\ UNCHANGED <<data, closed, request, position, met, responses, historyVars>>

\* Engine.Close, when the process is told to end: Server.Stop has closed the connections, and
\* waits for no handler
CloseEngine ==
    /\ ~closed
    /\ closed' = TRUE
    /\ UNCHANGED <<data, transactions, handlerVars, historyVars>>

Handle(c) ==
    \/ \E r \in Request : \/ HandleKey(c, r) \/ HandleRange(c, r)
                          \/ StartBatch(c, r) \/ BeginTransaction(c, r)
    \/ BatchPut(c) \/ BatchDelete(c)
    \/ CheckCondition(c) \/ ExecuteOperation(c) \/ Rollback(c) \/ Commit(c)

Next == CloseEngine \/ \E c \in Client : Handle(c)

Spec == Init /\ [][Next]_vars

-----------------------------------------------------------------------------
(* Properties *)

TypeOK ==
    /\ data \in [Key -> Value \cup {None}]
    /\ closed \in BOOLEAN
    /\ transactions \subseteq Client
    /\ at \in [Client -> {"done", "check", "execute", "rollback", "put", "delete"}]
    /\ request \in [Client -> Request \cup {None}]
    /\ position \in [Client -> Nat \ {0}]
    /\ met \in [Client -> BOOLEAN]
    /\ \A c \in Client :
          /\ responses[c] \in Seq(Value \cup {None})
          /\ at[c] # "done" /\ request[c].type = "txn" =>
                \A i \in DOMAIN responses[c] :
                    responses[c][i] = None => Operations(c)[i].op = "DELETE"
    /\ status \in [Client -> {0, OK, BadRequest, NotFound, InternalError}]
    /\ before \in [Client -> [Key -> Value \cup {None}]]
    /\ disturbed \subseteq Client
    /\ \A c \in Client : seen[c] \subseteq (Nat \X BOOLEAN)

\* Reference: map[n] is what the first n of these operations leave of data d
Course(d, operations) ==
    LET map[n \in 0..Len(operations)] == IF n = 0 THEN d ELSE After(map[n - 1], operations[n])
    IN  map

\* Reference: a transaction alone on data d.  The last operation is the one before the first that
\* fails.
TransactionAlone(d, r) ==
    LET holds == \A i \in DOMAIN r.compare : Satisfied(d, r.compare[i])
        operations == IF holds THEN r.success ELSE r.failure
        map == Course(d, operations)
        Possible(n) == \/ operations[n].op = "PUT"
                       \/ operations[n].op # "OTHER" /\ map[n - 1][operations[n].key] # None
        last == CHOOSE n \in 0..Len(operations) :
                    /\ \A i \in 1..n : Possible(i)
                    /\ n < Len(operations) => ~Possible(n + 1)
    IN  [holds |-> holds, map |-> map, last |-> last, complete |-> last = Len(operations),
         results |-> [n \in 1..last |-> Result(map[n - 1], operations[n])]]

\* Reference: a batch alone is its PUTs in their order, then its DELETEs
BatchAlone(d, r) ==
    LET Do(map, op) == FoldLeft(LAMBDA m, o : IF o.op = op THEN After(m, o) ELSE m, map, r.operations)
    IN  Do(Do(d, "PUT"), "DELETE")

\* A transaction whose keys no other request changes while it runs and that is answered OK took
\* the branch, read the values and left these keys as if it ran alone, whatever else goes on
\* between its engine calls; one that is refused would fail alone, too, or met a closed engine
\* (server.go:984-1092).  What a refused one leaves behind is not told here: see
\* RefusedTransactionLeavesNothing.
TransactionAsIfAlone ==
    \A c \in Client \ disturbed :
        at[c] = "done" /\ request[c] # None /\ request[c].type = "txn" =>
            LET alone == TransactionAlone(before[c], request[c])
            IN  \/ /\ status[c] = OK
                   /\ alone.complete
                   /\ met[c] = alone.holds
                   /\ responses[c] = alone.results
                   /\ \A k \in Keys(request[c]) : data[k] = alone.map[alone.last][k]
                \/ status[c] = InternalError /\ (closed \/ ~alone.complete)

\* The same of a batch: it takes effect as a whole, or is refused as a whole, unless Close comes
\* between its PUTs and its DELETEs (server.go:760-819).
BatchAsIfAlone ==
    \A c \in Client \ disturbed :
        at[c] = "done" /\ request[c] # None /\ request[c].type = "batch" =>
            LET Left(d) == \A k \in Keys(request[c]) : data[k] = d[k]
            IN  CASE status[c] = OK         -> Left(BatchAlone(before[c], request[c]))
                  [] status[c] = BadRequest -> Left(before[c])
                  [] OTHER -> closed /\ \/ Left(before[c])
                                        \/ Left(AfterPuts(before[c], request[c].operations))

\* The branch a transaction says it took is one its conditions called for, even when other requests
\* change the keys while the conditions are checked one by one: each condition of a transaction that
\* succeeded was true at some moment of it, and of one that did not, one was false (server.go:1043).
BranchWasCalledFor ==
    \A c \in Client :
        at[c] = "done" /\ request[c] # None /\ request[c].type = "txn" /\ status[c] = OK =>
            IF met[c] THEN \A i \in DOMAIN request[c].compare : <<i, TRUE>> \in seen[c]
                      ELSE \E i \in DOMAIN request[c].compare : <<i, FALSE>> \in seen[c]

\* As long as the engine is open, its open transactions are those of the handlers under way: none
\* is left behind by a handler that failed, none is ended by another's (server.go:997-1027).
OpenTransactionsAreServed ==
    closed \/ transactions = {c \in Client : at[c] \in {"check", "execute", "rollback"}}

\* All or nothing: a transaction that is refused, and that nobody interfered with, leaves its keys as
\* they were (engine.go:31-32, server.go:1018-1019).
RefusedTransactionLeavesNothing ==
    \A c \in Client \ disturbed :
        at[c] = "done" /\ request[c] # None /\ request[c].type = "txn" /\ status[c] # OK =>
            \A k \in Keys(request[c]) : data[k] = before[c][k]
=============================================================================
