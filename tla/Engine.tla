------------------------------- MODULE Engine -------------------------------
(***************************************************************************)
(* The storage engine of src/internal/storage/engine.go on its write-ahead *)
(* log, with crashes and restarts.                                         *)
(*                                                                         *)
(* Operations hold e.mu from their first step to their last, but a write   *)
(* reaches the disk in several steps, and a crash, or the log truncation   *)
(* of a snapshot (which takes no e.mu), may come between any two of them.  *)
(* Leases and watches are left to Lease and Watcher; the only trace of     *)
(* time is that a key with a TTL may expire at any moment.                 *)
(***************************************************************************)
EXTENDS WAL

CONSTANTS
    Key,
    Value,
    None,          \* no value, no entry
    Txn,           \* transaction ids
    MaxRecords,    \* bound: records ever appended, and the version of a key
    MaxOps         \* bound: operations of a transaction, keys of a BatchDelete

ASSUME EngineAssumption ==
    /\ None \notin Value
    /\ MaxRecords \in Nat
    /\ MaxOps \in Nat

VARIABLES
    mode,        \* "up" or "down"
    data,        \* e.data
    writing,     \* the write that holds e.mu, or None
    deleting,    \* keys that a goroutine of Get is about to delete
    txns,        \* e.transactions: the operations of each, or None
    snapshot,    \* the createSnapshot under way, or None; truncating is set while its Truncate is
                 \* removing segments and holds w.mu
    appended,    \* history: number of records appended so far
    survived,    \* history: while the process is down, what recovery will make of the log
    acked,       \* history: the records of each acknowledged write
    unlogged     \* history: keys that memory and log have been told different
                 \* things about since the last restart

historyVars == <<appended, acked, unlogged, survived>>
vars == <<walVars, mode, data, writing, deleting, txns, snapshot, historyVars>>

Put(k, v) == [type |-> "put", key |-> k, value |-> v]
Delete(k) == [type |-> "delete", key |-> k, value |-> None]
Command == {Put(k, v) : k \in Key, v \in Value} \cup {Delete(k) : k \in Key}

KeyValue == [value : Value, version : Nat, ttl : BOOLEAN, expired : BOOLEAN]
NoData == [k \in Key |-> None]

Exists(d, k) == d[k] # None
Version(d, k) == IF Exists(d, k) THEN d[k].version ELSE 0

\* applyPut / applyDelete: what recovery and CommitTransaction do with a command
AfterCommand(kv, c) ==
    IF c.type = "delete" THEN None
    ELSE IF kv = None
      THEN [value |-> c.value, version |-> 1, ttl |-> FALSE, expired |-> FALSE]
      ELSE [kv EXCEPT !.value = c.value, !.version = @ + 1]
ApplyCommand(d, c) == [d EXCEPT ![c.key] = AfterCommand(@, c)]
Apply(d, commands) == FoldLeft(ApplyCommand, d, commands)

\* Put, putUnsafe, BatchPut and Delete in memory: a put renews the TTL as well
Store(d, commands, ttl) ==
    LET stored == Apply(d, commands)
    IN  [k \in Key |->
            IF \E i \in DOMAIN commands : commands[i] = Put(k, commands[i].value)
              THEN [stored[k] EXCEPT !.ttl = ttl, !.expired = FALSE]
              ELSE stored[k]]

\* recoverFromWAL
Recover(records) == FoldLeft(LAMBDA d, r : ApplyCommand(d, r.command), NoData, records)
Recovered(fs) == Recover(Records(fs))

Init ==
    /\ WALInit
    /\ mode = "up"
    /\ data = NoData
    /\ writing = None
    /\ deleting = {}
    /\ txns = [t \in Txn |-> None]
    /\ snapshot = None
    /\ appended = 0
    /\ acked = {}
    /\ survived = NoData
    /\ unlogged = {}

-----------------------------------------------------------------------------
(* Writes.  A write is the commands still to be logged, the ids of those   *)
(* logged, and what will be done in memory at the end.                     *)

Free == mode = "up" /\ writing = None              \* e.mu can be taken
Truncating == snapshot # None /\ snapshot.truncating    \* w.mu cannot

StartWrite(commands, ttl) ==
    writing' = [todo |-> commands, ids |-> <<>>, synced |-> FALSE,
                commands |-> commands, ttl |-> ttl]

\* Put
StartPut(k, v, ttl) ==
    /\ Free
    /\ StartWrite(<<Put(k, v)>>, ttl)
    /\ UNCHANGED <<walVars, mode, data, deleting, txns, snapshot, historyVars>>

\* Delete, of a key that exists (expired or not)
StartDelete(k) ==
    /\ Free
    /\ Exists(data, k)
    /\ StartWrite(<<Delete(k)>>, FALSE)
    /\ UNCHANGED <<walVars, mode, data, deleting, txns, snapshot, historyVars>>

\* CompareAndSwap: a key that has expired is deleted from memory, and counts as
\* absent; an absent key has the empty value, None
Live(k) == Exists(data, k) /\ ~data[k].expired
CompareAndSwap(k, prev, v) ==
    LET seen == IF Live(k) THEN data[k].value ELSE None
        expired == Exists(data, k) /\ data[k].expired
    IN  /\ Free
        /\ IF seen = prev
             THEN StartWrite(<<Put(k, v)>>, FALSE)
             ELSE UNCHANGED writing
        /\ data' = IF expired THEN [data EXCEPT ![k] = None] ELSE data
        /\ unlogged' = IF expired THEN unlogged \cup {k} ELSE unlogged
        /\ UNCHANGED <<walVars, mode, deleting, txns, snapshot, appended, acked, survived>>

\* BatchPut: the map is walked in any order
StartBatchPut(kvs, ttl) ==
    /\ Free
    /\ \E keys \in SetToSeqs(DOMAIN kvs) :
          StartWrite([i \in DOMAIN keys |-> Put(keys[i], kvs[keys[i]])], ttl)
    /\ UNCHANGED <<walVars, mode, data, deleting, txns, snapshot, historyVars>>

\* BatchDelete: keys that do not exist are skipped
Deletes(d, keys) ==
    FoldLeft(LAMBDA deletes, k : IF Exists(d, k) THEN Append(deletes, Delete(k)) ELSE deletes,
             <<>>, keys)
StartBatchDelete(keys) ==
    /\ Free
    /\ StartWrite(Deletes(data, keys), FALSE)
    /\ UNCHANGED <<walVars, mode, data, deleting, txns, snapshot, historyVars>>

\* e.wal.Append of the next command
WriteRecord ==
    /\ writing # None
    /\ writing.todo # <<>>
    /\ ~Truncating
    /\ appended < MaxRecords
    /\ AppendRecord([command |-> Head(writing.todo), id |-> appended + 1])
    /\ appended' = appended + 1
    /\ writing' = [writing EXCEPT !.todo = Tail(@), !.ids = Append(@, appended + 1)]
    /\ UNCHANGED <<mode, data, deleting, txns, snapshot, acked, unlogged, survived>>

\* e.wal.Sync
WriteSync ==
    /\ writing # None
    /\ writing.todo = <<>>
    /\ ~writing.synced
    /\ ~Truncating
    /\ SyncWAL
    /\ writing' = [writing EXCEPT !.synced = TRUE]
    /\ UNCHANGED <<mode, data, deleting, txns, snapshot, historyVars>>

\* The rest of the operation: memory, and the answer to the client
FinishWrite ==
    /\ writing # None
    /\ writing.synced
    /\ data' = Store(data, writing.commands, writing.ttl)
    /\ acked' = IF writing.ids = <<>> THEN acked ELSE acked \cup {writing.ids}
    /\ writing' = None
    /\ UNCHANGED <<walVars, mode, deleting, txns, snapshot, appended, unlogged, survived>>

-----------------------------------------------------------------------------
(* Expiry *)

\* The deadline of a key passes
Expire(k) ==
    /\ mode = "up"
    /\ Exists(data, k)
    /\ data[k].ttl /\ ~data[k].expired
    /\ data' = [data EXCEPT ![k].expired = TRUE]
    /\ UNCHANGED <<walVars, mode, writing, deleting, txns, snapshot, historyVars>>

\* Get of an expired key: a goroutine is started that will delete the key
GetExpired(k) ==
    /\ Free
    /\ Exists(data, k) /\ data[k].expired
    /\ deleting' = deleting \cup {k}
    /\ UNCHANGED <<walVars, mode, data, writing, txns, snapshot, historyVars>>

\* That goroutine gets e.mu, whatever the key holds by then
DeleteExpired(k) ==
    /\ writing = None
    /\ k \in deleting
    /\ data' = [data EXCEPT ![k] = None]
    /\ deleting' = deleting \ {k}
    /\ unlogged' = unlogged \cup {k}
    /\ UNCHANGED <<walVars, mode, writing, txns, snapshot, appended, acked, survived>>

\* A tick of cleanupExpiredKeys
CleanupExpiredKeys ==
    LET expired == {k \in Key : Exists(data, k) /\ data[k].expired}
    IN  /\ Free
        /\ expired # {}
        /\ data' = [k \in Key |-> IF k \in expired THEN None ELSE data[k]]
        /\ unlogged' = unlogged \cup expired
        /\ UNCHANGED <<walVars, mode, writing, deleting, txns, snapshot, appended, acked, survived>>

\* RevokeLease deletes the keys of a lease, and leaseCleanupRoutine those of the leases that have
\* expired; which keys of those there are is left to Lease
DeleteLeased(keys) ==
    /\ Free
    /\ \A k \in keys : Exists(data, k)
    /\ data' = [k \in Key |-> IF k \in keys THEN None ELSE data[k]]
    /\ unlogged' = unlogged \cup keys
    /\ UNCHANGED <<walVars, mode, writing, deleting, txns, snapshot, appended, acked, survived>>

-----------------------------------------------------------------------------
(* Transactions *)

BeginTransaction(t) ==
    /\ Free
    /\ txns[t] = None
    /\ txns' = [txns EXCEPT ![t] = <<>>]
    /\ UNCHANGED <<walVars, mode, data, writing, deleting, snapshot, historyVars>>

AddOperation(t, c) ==
    /\ Free
    /\ txns[t] # None
    /\ Len(txns[t]) < MaxOps
    /\ txns' = [txns EXCEPT ![t] = Append(@, c)]
    /\ UNCHANGED <<walVars, mode, data, writing, deleting, snapshot, historyVars>>

\* CommitTransaction: the operations are applied to memory, and nothing is logged
CommitTransaction(t) ==
    /\ Free
    /\ txns[t] # None
    /\ data' = Apply(data, txns[t])
    /\ \A k \in Key : Version(data', k) <= MaxRecords
    /\ unlogged' = unlogged \cup {txns[t][i].key : i \in DOMAIN txns[t]}
    /\ txns' = [txns EXCEPT ![t] = None]
    /\ UNCHANGED <<walVars, mode, writing, deleting, snapshot, appended, acked, survived>>

RollbackTransaction(t) ==
    /\ Free
    /\ txns[t] # None
    /\ txns' = [txns EXCEPT ![t] = None]
    /\ UNCHANGED <<walVars, mode, data, writing, deleting, snapshot, historyVars>>

-----------------------------------------------------------------------------
(* Snapshots, shutdown, crash and restart *)

\* createSnapshot, first part: data and the log's index are read under e.mu.  No
\* part of the program reads the snapshot file back, so its content is left out.
CopyForSnapshot ==
    /\ Free
    /\ snapshot = None
    /\ snapshot' = [index |-> index, covers |-> appended, truncating |-> FALSE]
    /\ UNCHANGED <<walVars, mode, data, writing, deleting, txns, historyVars>>

\* createSnapshot, last part: the file is written, and the log truncated, one segment at a time
RemoveNextSegment ==
    /\ mode = "up"
    /\ snapshot # None
    /\ \E s \in SegmentsAbove(snapshot.index) :
          /\ \A t \in SegmentsAbove(snapshot.index) : s <= t
          /\ RemoveSegment(s)
          /\ unlogged' = unlogged \cup {r.command.key : r \in ToSet(files[s].records)}
    /\ snapshot' = [snapshot EXCEPT !.truncating = TRUE]
    /\ UNCHANGED <<mode, data, writing, deleting, txns, appended, acked, survived>>

FinishTruncate ==
    /\ mode = "up"
    /\ snapshot # None
    /\ SegmentsAbove(snapshot.index) = {}
    /\ Load(files)
    /\ snapshot' = None
    /\ UNCHANGED <<mode, data, writing, deleting, txns, historyVars>>

\* Nothing in memory survives the end of the process
LoseMemory(fs) ==
    /\ mode' = "down"
    /\ data' = NoData
    /\ writing' = None
    /\ deleting' = {}
    /\ txns' = [t \in Txn |-> None]
    /\ snapshot' = None
    /\ unlogged' = {}
    /\ survived' = Recovered(fs)

\* Close, and the end of the process.  The final snapshot is refused, since e.closed
\* is set already; one under way may still truncate the log, or never get to it.
Close ==
    /\ Free
    /\ ~Truncating
    /\ LoseMemory(files)
    /\ UNCHANGED <<walVars, appended, acked>>

\* The process dies, or the machine does.  Of the records that fsync has not
\* reached each file keeps the first few, and the next one may be cut short.
Cut(kept, torn) ==
    [s \in DOMAIN files |->
        [files[s] EXCEPT !.records = SubSeq(@, 1, kept[s]), !.torn = s \in torn]]
Crash ==
    /\ mode = "up"
    /\ \E kept \in [DOMAIN files -> 0..MaxRecords], torn \in SUBSET DOMAIN files :
          /\ \A s \in DOMAIN files :
                kept[s] \in files[s].synced .. Len(files[s].records)
          /\ \A s \in torn :
                \/ kept[s] < Len(files[s].records)
                \/ s = current /\ writing # None /\ writing.todo # <<>> /\ ~Truncating
          /\ files' = Cut(kept, torn)
          /\ LoseMemory(Cut(kept, torn))
    /\ UNCHANGED <<current, index, fileSize, appended, acked>>

\* NewWAL and NewEngine; with a torn record in the log NewEngine fails, every time
Restart ==
    /\ mode = "down"
    /\ Readable
    /\ Load(files)
    /\ data' = Recovered(files)
    /\ survived' = NoData
    /\ mode' = "up"
    /\ UNCHANGED <<writing, deleting, txns, snapshot, appended, acked, unlogged>>

Next ==
    \/ \E k \in Key, v \in Value, ttl \in BOOLEAN : StartPut(k, v, ttl)
    \/ \E k \in Key : StartDelete(k) \/ Expire(k) \/ GetExpired(k) \/ DeleteExpired(k)
    \/ \E k \in Key, prev \in Value \cup {None}, v \in Value : CompareAndSwap(k, prev, v)
    \/ \E keys \in {keys \in SUBSET Key : keys # {} /\ IsFiniteSet(keys)}, ttl \in BOOLEAN :
          \E kvs \in [keys -> Value] : StartBatchPut(kvs, ttl)
    \/ \E keys \in UNION {[1..n -> Key] : n \in 1..MaxOps} : StartBatchDelete(keys)
    \/ WriteRecord \/ WriteSync \/ FinishWrite
    \/ CleanupExpiredKeys \/ \E keys \in SUBSET Key : DeleteLeased(keys)
    \/ \E t \in Txn : \/ BeginTransaction(t)
                      \/ \E c \in Command : AddOperation(t, c)
                      \/ CommitTransaction(t)
                      \/ RollbackTransaction(t)
    \/ CopyForSnapshot \/ RemoveNextSegment \/ FinishTruncate
    \/ Close \/ Crash \/ Restart

Spec == Init /\ [][Next]_vars

-----------------------------------------------------------------------------
(* Properties *)

Record == [command : Command, id : Nat]
Segment == [records : Seq(Record), synced : Nat, torn : BOOLEAN]
Write == [todo : Seq(Command), ids : Seq(Nat), synced : BOOLEAN,
          commands : Seq(Command), ttl : BOOLEAN]

Snapshot == [index : Nat, covers : Nat, truncating : BOOLEAN]

\* No entry is told from every entry, no write from every write, no snapshot from every
\* snapshot
ASSUME NoneAssumption ==
    /\ None \notin KeyValue
    /\ None \notin [value : Value, version : Nat]
    /\ None \notin Write
    /\ None \notin Snapshot

TypeOK ==
    /\ DOMAIN files \in SUBSET Nat
    /\ \A s \in DOMAIN files : files[s] \in Segment
    /\ current \in Nat
    /\ mode = "up" /\ ~Truncating => current \in DOMAIN files
    /\ index \in Nat
    /\ fileSize \in Nat
    /\ mode \in {"up", "down"}
    /\ \A k \in Key : data[k] = None \/ data[k] \in KeyValue
    /\ writing = None \/ writing \in Write
    /\ deleting \subseteq Key
    /\ \A t \in Txn : txns[t] = None \/ txns[t] \in Seq(Command)
    /\ snapshot = None \/ snapshot \in Snapshot
    /\ appended \in Nat
    /\ acked \subseteq Seq(Nat)
    /\ unlogged \subseteq Key
    /\ \A k \in Key : survived[k] = None \/ survived[k] \in KeyValue

Ids(s) == {files[s].records[i].id : i \in DOMAIN files[s].records}
LogIds == UNION {Ids(s) : s \in DOMAIN files}
SyncedIds == UNION {{files[s].records[i].id : i \in 1..files[s].synced} : s \in DOMAIN files}

\* Segments are named by an index that goes back at every restart and every
\* truncation (wal.go:122), and are opened again under a name already used, yet
\* recovery replays what is left of the log in the order it was written.
ReplayInAppendOrder ==
    /\ \A s \in DOMAIN files : \A i, j \in DOMAIN files[s].records :
          i < j => files[s].records[i].id < files[s].records[j].id
    /\ \A s, t \in DOMAIN files :
          s < t => \A a \in Ids(s), b \in Ids(t) : a < b

\* Recovery reads the log and never a snapshot (recoverFromWAL, engine.go:117-137), so what a
\* snapshot has in its copy has to stay in the log: no step while createSnapshot is under way removes
\* such a record, whatever is written, rolled or removed meanwhile (engine.go:1156, wal.go:399-405).
\* engine.go:1155 says otherwise, that old files are cleaned up: it is newer ones that go, with
\* acknowledged writes, see AckedWritesLogged.
TruncateKeepsSnapshotted ==
    [][snapshot # None /\ mode' = "up" =>
         \A id \in LogIds : id <= snapshot.covers => id \in LogIds']_vars

\* The last record of an acknowledged write has reached the disk, wherever the
\* log was rolled or truncated meanwhile, unless a truncation removed it
\* (engine.go:191).
AckedIsSynced ==
    \A ids \in acked : Last(ids) \in LogIds => Last(ids) \in SyncedIds

\* Between operations, a restart would bring back every key as memory has it, value and version,
\* except the keys that expiry, the end of a lease, a transaction or a truncation touched.
SameKeyValue(a, b) ==
    IF a = None \/ b = None THEN a = b ELSE a.value = b.value /\ a.version = b.version
MemoryIsReplay ==
    Free => \A k \in Key \ unlogged : SameKeyValue(data[k], Recovered(files)[k])

\* An acknowledged write is in the log (wal.go:37), of which a truncation only takes old files
\* (engine.go:1155).
AckedWritesLogged ==
    mode = "up" => \A ids \in acked : ToSet(ids) \subseteq LogIds

\* The keys of records, other than those of the write under way, that fsync has not reached
UnsyncedKeys ==
    LET pending == IF writing = None THEN {} ELSE ToSet(writing.ids)
    IN  {k \in Key : \E s \in DOMAIN files : \E i \in DOMAIN files[s].records :
            /\ i > files[s].synced
            /\ files[s].records[i].id \notin pending
            /\ files[s].records[i].command.key = k}

Shown(kv) == IF kv = None THEN None ELSE [value |-> kv.value, version |-> kv.version]

Durable == INSTANCE DurableMap WITH
    value    <- LET d == IF mode = "up" THEN data ELSE survived IN [k \in Key |-> Shown(d[k])],
    up       <- mode = "up",
    pending  <- IF writing = None THEN <<>> ELSE writing.commands,
    doubtful <- unlogged \cup UnsyncedKeys

\* The engine implements the durable map: a write takes effect at once and for good, whatever rolls,
\* truncations, crashes and restarts come between its steps (engine.go:186-199: 要么都成功，要么都失败,
\* and wal.go:37), and the keys excepted are those of MemoryIsReplay and those with a record that fsync
\* has not reached.
DurableSpec == Durable!Spec
=============================================================================
