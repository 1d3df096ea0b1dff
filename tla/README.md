# MyEtcd: specification, model checking and proofs

MyEtcd is a small key-value store in Go: a storage engine on a write-ahead log,
with leases, watches and transactions, an HTTP API, and a Raft implementation
beside it. This directory holds TLA+ models of its core, the TLC configurations
that check them on small instances, and proofs checked by TLAPS.

Two facts about the program shape everything here. The server (`cmd/server`)
runs the engine alone: the Raft package is used by its example and its tests
only. And all state but the log's segment files is in memory: snapshots are
written and never read back.

## Inventory

| Component | State | Operations | Talks to |
|---|---|---|---|
| Raft node (`raft/raft.go`) | term, vote, role, log, commit index, votes counted, next/match index, channels, two timers | tick, four message handlers, Propose, Stop | the transport; the state machine by `applyCh` |
| Transport (`raft/transport.go`) | peer addresses, HTTP server | Send (one goroutine per message, one POST, no retry) | `ProcessMessage` of the peer |
| State machine (`raft/statemachine.go`) | a map, snapshots | Apply, Snapshot, Restore | called by the node |
| Cluster (`raft/cluster.go`) | its nodes, a configured list of ids and map of addresses that nodes share, the leader it believes in | AddNode, RemoveNode, Start, Stop, Propose, WaitForLeader | polls its nodes |
| Write-ahead log (`wal/wal.go`) | segment files, current file, index, size | Append, Sync, ReadAll, Truncate, Close | called by the engine |
| Engine (`storage/engine.go`) | the key-value map, transactions, snapshot index | Put, Get, Delete, CompareAndSwap, BatchPut, BatchDelete, transactions, snapshots, expiry, recovery, leases, watches | log, lease manager, watcher |
| Lease manager (`lease/lease.go`) | leases, key to lease | Grant, Revoke, KeepAlive, Attach, Detach, GetExpiredKeys | two cleanup goroutines, its own and the engine's |
| Watcher (`watch/watcher.go`) | watches, event queue, a channel per watch | Watch, Cancel, Notify, eventLoop, Stop | the engine notifies, clients read |
| HTTP API (`api/server.go`) | none of its own | one handler per route | the engine |
| configuration, metrics, logger, benchmark | settings, counters | start-up and export | nothing reads them back |

What is hard, and what makes each part correct:

* **Raft**: messages overtake each other and get lost, timers fire at any time,
  a candidate that times out repeats its requests in the *same* term, votes are
  counted per answer, and a follower appends what it is sent even if it has it.
  Correct: one leader per term; a leader's log only grows; what a leader sends,
  counts and is told stays within its own log; nodes apply the same entries;
  committed entries survive elections.
* **A Raft node**: three goroutines and those of the HTTP server share six channels,
  two timers and a mutex. Two of them read `applyCh`; `ticker` may read the tick it
  sent; a send to a full channel holds the mutex. Correct: entries reach the state
  machine once and in order; a timeout is always to come; a handler that waits gets on.
* **Cluster**: the nodes' lists share one array, which RemoveNode shifts in place
  while nodes count votes on it; nodes come and go without a log entry. Correct:
  majorities overlap; listed nodes have addresses; nothing is stopped twice.
* **Log and engine**: a write is several steps (append, fsync, memory, answer); a
  crash, or the truncation after a snapshot, which does not take the engine's
  lock, may fall between any two; indexes go back after a reload. Correct:
  recovery replays in the order of writing; what was acknowledged is on disk;
  memory is what a restart would bring back.
* **Leases**: the key's own `LeaseID` and the lease manager's maps are changed
  under different locks; two goroutines compete for the expired leases. Correct:
  the keys of a lease that ends are deleted, and no others.
* **Watches**: bounded queues that drop when full; Stop, Cancel and the cleanup
  goroutine race for one channel. Correct: events in order, each at most once;
  a channel is closed once.
* **API**: a batch is two engine calls and a transaction one for each condition and
  operation, with other requests, or Close, between them. Correct: as if alone when
  nobody interferes; when somebody does, still a branch that was called for.

`PROJECT.json` lists the hazards one by one, at their lines.

## Modules

| Module | Models |
|---|---|
| `Raft` | the nodes of a cluster and the network between them |
| `RaftProofs` | theorems about `Raft`: elections, and the leader's log |
| `NodeLoop` | the goroutines, channels, timers and mutex of one Raft node, and its state machine |
| `NodeLoopProofs` | theorems about `NodeLoop`: timers, the queue of entries, the state machine |
| `Cluster` | the cluster manager: lists of members and addresses, added to and removed from |
| `ClusterProofs` | theorems about `Cluster` |
| `WAL` | the segmented log: its state and its methods, as actions to compose |
| `Engine` | the storage engine on `WAL`, with crash and restart |
| `DurableMap` | abstract: what the engine promises of a write; `Engine` implements it |
| `EngineProofs` | theorems about `Engine`, with that refinement |
| `Lease` | the lease manager: its state as a record, its methods as operators |
| `LeasedKeys` | the engine's lease operations on `Lease`, and the cleanup goroutines |
| `LeaseProofs` | theorems about `LeasedKeys` |
| `Watcher` | the watch manager and the engine's forwarding goroutines |
| `WatcherProofs` | theorems about `Watcher` |
| `Api` | the HTTP handlers of keys, ranges, batches and transactions on an atomic engine |
| `ApiProofs` | theorems about `Api` |
| `FoldLemmas` | facts about Min, Max and FoldLeft that the proofs cite |
| `MC...` | instances for TLC: symmetry, keys, requests, lists of members |

### Raft

Every handler of the code runs from its first line to its last under `n.mu`, so a
handler is one action. Handlers are split where they return early: for example
`handleRequestVote` is `RejectStaleRequestVote` and `HandleRequestVote`,
`handleAppendEntries` is `RejectStaleAppendEntries`, `RejectPrevMismatch` and
`AcceptAppendEntries`; answers that are ignored and answers of a higher term are
`IgnoreResponse` and `StepDown` for both kinds. `tick` is `Tick`. A message sent
by a handler is sent by a goroutine of its own, so the network is a bag with no
order; `Lose` stands for a failed POST and for `ProcessMessage` dropping a message
when it finds a tick pending. Nothing duplicates a message, but the code itself
sends the same request again, and so does the model. A message holds a copy of its
entries; in the code it is a slice of `n.log` that the sending goroutine encodes later,
without `n.mu` (`raft.go:348-362`), when the log may have been cut. A `term` is never lowered
and `votedFor` is kept when an *answer* raises the term, as in the code.

`log[n]` leaves out the placeholder entry at index 0. An entry is its term and
index: the command adds nothing the properties tell apart. `applied[n]` is what
`notifyReady` has put on `applyCh`. `votes` and `elected` are history variables:
they record who voted for whom and who won, and no guard reads them.

A message handler that would run a log past `MaxLog`, and one whose answer would
bring the messages in flight above `MaxNet`, waits: both are bounds of the model.

Not in the model: the channels between `ProcessMessage`, `run` and `ticker`, Stop,
and what `run` does to entries it takes off `applyCh` (`NodeLoop` has these), changes
of the membership (`Cluster`), InstallSnapshot (no code sends it), restarts of a node.

### NodeLoop

One node, with what messages make of terms, votes and logs left to `Raft`: a handler
may change role, timers and commit index in each way it can. The program counters
follow the goroutines:

* `ticker`: `TakeElectionTimeout` and `TakeHeartbeat` are cases of its select,
  `CheckLeader` the look at the role under the mutex, `SendTick` the send with its
  default, `EndTicker` the case that reads `tickCh`, where its own tick looks like the
  close signal;
* `run`: `TakeTick`, `TakeAppendEntries`, `TakeRequestVote`, `TakeEntry` and `EndRun`
  are the cases of the select, `HandleTick`, `RefuseStale`, `HandleMessage` and
  `ApplyEntry` the handlers, once they have the mutex;
* the HTTP goroutines: `DropMessage`, `Enqueue` and `StartResponse` are the ways through
  `ProcessMessage`; answers are handled in the same goroutine, after it has let the
  mutex go and taken it again (`HandleVoteResponse`, `HandleAppendResponse`);
* `notifyReady`: `Commit` raises the commit index, then `SendEntry` per entry and
  `FinishNotify`; `mu` names the goroutine meanwhile, since only there a goroutine
  waits with the mutex held;
* `applyLoop`: `TakeToApply`, `Apply`, without the mutex;
* `Stop` closes the channels. A send on one of them sets `panicked`, after which nothing
  happens.

A timer is armed, has fired (its channel holds a value) or is idle. `applied`, `taken`
and `lost` are history variables: what the state machine got, what `run` took
from `applyCh`, and which timeouts the code has failed to arm again.

### Cluster

A list of ids is a slice: the number of an array and a length, and `AppendTo` is Go's
`append`, into the array if it has room, else into a new one. `AddNode` gives the new
node the configured list, or that list with the node appended; the other nodes are
told nothing. `RemoveNode` is `StartRemove`, then `ShiftId` per element of the copy
that `append(ids[:i], ids[i+1:]...)` makes in the shared array, then `ReplaceList` per
node, then `FinishRemove`: `c.mu` is held (`removing`), but the nodes read their
lists without it. The address map of a node is clusterConfig's until `Start` copies
it. A configuration without such a map (`mapped` is false) gives each added node one of
its own with its own address in it, which `Start` replaces by an empty one.

`late`, `removed`, `halted` and `settled` are history variables. Left out: `WaitForLeader`,
`Propose` and `c.leader`, which change no list of nodes; `updateLeader`, which nothing calls;
and the transports' peers.

### WAL and Engine

`WAL` has no Next of its own: `Engine` extends it and takes its actions as the
steps of an operation. A segment file is a function entry from the index in its
name to its records, the number of them that fsync has reached, and whether a
torn record follows. `Load` is `loadLatestSegment`: it sets `index` to the one in
the file's *name*, so indexes repeat after a restart or a truncation, and
`createNewSegment` may open a file that exists; both are in the model.

`Engine` gives each write operation a `Start...` action (its guards, under `e.mu`), then
`WriteRecord` per command, `WriteSync`, `FinishWrite` (memory and answer). While `writing #
None` the write holds `e.mu`: other operations wait, but `Crash` and the snapshot's
truncation do not. That is `RemoveNextSegment`, a step for each file that `Truncate`
removes, then `FinishTruncate`, the reload of the latest segment; meanwhile it holds `w.mu`
(`Truncating`), so that appends and fsyncs wait but a crash does not. Reads that change
nothing are not actions; `Get` of an expired key is, since it starts a goroutine that
deletes the key later (`GetExpired`, `DeleteExpired`). A deadline passes at any moment
(`Expire`). A lease ends at any moment too: `DeleteLeased` is what RevokeLease and
leaseCleanupRoutine then delete from memory, for any set of keys. `Crash` keeps of each file
what fsync reached and any first part of the rest, and may leave the next record torn; with
a torn record `Restart` is never enabled, as `NewEngine` fails then (this is why deadlock is
not checked).

`appended`, `acked` and `unlogged` are history variables. `unlogged` collects the keys whose
value in memory the code changes without logging it (expiry, the goroutine of `Get`, the end
of a lease, a transaction's commit) or whose records a truncation has removed:
`MemoryIsReplay` is about all other keys.

`DurableSpec` says that `Engine` implements `DurableMap`, in which a write takes effect as
a whole and survives crashes from then on. `value` is mapped to memory while the
process runs and, while it is down, to the history variable `survived`: what recovery
will make of the files. The promise leaves out the keys in `doubtful`: the unlogged ones
and those with a record that fsync has not reached, since `createNewSegment` closes
a segment without fsync (`wal.go:174`), so that an acknowledged batch that rolls the log
may lose all but its last record.

Not in the model: disk errors other than a crash, which keys a lease has, and watches
(both have modules of their own), the HTTP layer, the content of snapshots (nothing reads
them).

### Lease and LeasedKeys

A method of the manager runs under `lm.mu`, so `Lease` gives each one as an
operator from the manager before the call to the manager after it. `lease.Keys` is
a slice in which a key may stand several times (`Attach` appends without
looking); the model keeps the count. Time is a step: `LeaseRunsOut` may come at
any moment, `KeepAlive` undoes it.

`LeasedKeys` follows the engine. `AttachToLease` takes `e.mu`, `lm.mu` twice and
`e.mu` again, so it is `StartAttach`, `DetachOld`, `AttachNew` (or `FailToAttach`)
and `RecordAttached`; `DetachFromLease` and `RevokeLease` are three steps each.
Between them come the two goroutines that call `GetExpiredKeys`: the manager's own
throws the keys away (`DiscardExpired`), the engine's deletes them when it gets
`e.mu` (`CollectExpired`, `DeleteCollected`). An object is the `*KeyValue` a client
holds across its steps even if the key is deleted meanwhile. `Put` and `Delete` are
one step (`e.mu` is held throughout) and only their effect on keys and leases is
modelled; a `Delete` tells the manager nothing, since it looks the key up after
deleting it. `leasedBy` is a history variable.

### Watcher

An event goes through `Notify` (the check of `w.closed`, then the send: `StartNotify`,
`SendEvent`), `eventChan`, `eventLoop` (`TakeEvent`, `Distribute`), the watch's channel,
the goroutine of `Engine.Watch` (`Forward`, `PutResult`) and the client (`Receive`).
The callers of `Notify` hold `e.mu`, and `Engine.Watch` and `CancelWatch` take it,
so these exclude each other; `eventLoop`, the cleanup goroutine of each watch and
`Stop`, which `Close` calls after letting `e.mu` go, run beside them. A send on a
closed channel, or closing one twice, sets `panicked`, after which nothing happens.
An event is its number in the order of notification. `missed` is a history
variable: the events a watch need not get.

### Api

Each client has a handler that serves one request at a time; an action is one engine
call of it, and these are atomic (`Engine` is the module that shows it). `HandleKey`
and `HandleRange` are whole requests, `StartBatch`, `BatchPut` and `BatchDelete` a batch,
`BeginTransaction`, `CheckCondition`, `ExecuteOperation`, `Rollback` and `Commit` a
transaction. `CloseEngine` comes at any time, since `Server.Stop` waits for no handler.
Keys and values are numbers, ordered as Go orders the strings. `before`, `disturbed`
and `seen` are history variables: the data when a request came, whether another
request has changed one of its keys since, and which truth values its conditions have
had since. `TransactionAlone` and `BatchAlone` are reference definitions of what a
request does by itself, written from the data and not from the steps; `Course` is what
the first operations of a list leave, one by one.

## Runs

| Run | Bounds | Shows |
|---|---|---|
| `raft` | 3 nodes, terms to 2, 2 entries, 2 messages | one winner per term, the inductive invariant; a leader's log only grows, and what it sends, is told and counts is in it |
| `node_loop` | 2 commands on a key, 1 HTTP goroutine, channels of 1 | entries reach the state machine once and in order; what keeps the timers going; a full `applyCh` is emptied |
| `cluster` | 2, 3 or 4 configured of 4 nodes, with and without addresses, 2 arrays, 2 changes | majorities overlap, lists and addresses agree, no double stop |
| `engine` | 1 key, 1 transaction, 3 records of 1 per segment, 2 operations in a batch or transaction | order of replay, what is on disk, what a truncation removes, memory is what recovery would rebuild, refinement of `DurableMap` |
| `leases` | 2 keys, 2 leases, 3 objects, 1 client | the manager's maps agree, a lease lists the keys that carry it, none is left to a revoked one |
| `watches` | 2 watches, 2 events, channels of 1 | order, loss only to full channels and under the empty prefix, no panic, channels end |
| `api` | 2 clients, 10 requests, 2 keys, 2 values | requests are as if alone, branches called for, no transaction left open |

Three nodes with two terms let messages of one term meet a leader of the next; two messages
in flight besides those lost or handled suffice for any overtaking of a pair, and a
broadcast to two peers fits. Two entries tell a repeated entry from a new one. Theorems
cover the larger instances. In `node_loop` a channel of one entry is full when the second of
two commands is committed, so that a handler waits with the mutex held; put and delete of
one key tell any order and any omission. In `cluster` four nodes are what two disjoint
majorities would need, three configured and one more join late; two are configured without a
map of addresses; two changes remove a node and add it again, or remove two. One record per
segment rolls the log at every append, so that three records reach a roll, a truncation, a
reload and an append to a file that exists. Two leases let a key move from one to another
and back to a list that still has it; three objects let a key be deleted and created anew
while a client holds the old object. One client is a choice and not a bound: with two, one
key attached to two leases at once may end up with a lease that does not list it, and
nothing in the repository promises otherwise. With channels of one event two events overflow
any of them; two watches, exact, by prefix or by the empty prefix, share the queue and the
event loop. In `api` the requests have every operation, every comparison, both branches,
operations that fail at each position and a batch with a key put twice and deleted; a second
client does everything that can come between.

Two passing runs assume fairness. `watches` is checked under the `FairSpec` of `Watcher`: a
forwarding goroutine goes on when it can, and a client reads until its channel is
closed, as `handleWatch` does. `node_loop` is checked under the `FairSpec` of
`NodeLoop`: `applyLoop` goes on, as a loop that waits for its channel only, and so does a
handler whose next entry has room. Nothing is assumed of timers, messages or `run`.
The fairness in `lost_events` plays no part in its counterexample, a single step that
should not be.

Runs that end in a violation, each a disagreement between the code and a
statement of the repository:

* `four_nodes`: two leaders in a term of a cluster of four, because a candidate
  that times out asks again in the same term and counts the same voter twice
  (`raft.go:861`; `raft.go:23` promises one leader per term). With three nodes
  a single foreign vote is a majority and the count cannot be wrong.
* `retransmission`: entries sent again before the first answer arrives are
  stored twice, and state machines diverge (`raft.go:418`; `raft_test.go:137`).
* `snapshot_race`: an acknowledged write is gone from the log after a snapshot
  (`engine.go:1156`; `wal.go:37`). `engine.go:1155` says that the truncation cleans up old
  files, but it is those *above* the index that Truncate removes (`wal.go:400`). It is well
  that the old ones stay, as recovery never reads a snapshot: `TruncateKeepsSnapshotted`
  says that they do.
* `lost_events`: an event is dropped when it finds the queue or a watch's channel full
  (`watcher.go:183`; `watcher.go:29` promises that none is lost).
* `rollback`: a transaction whose second operation fails leaves the first
  (`server.go:1020`; `server.go:1019`, `engine.go:31`).

Other states the models reach that no run names, most of them at odds with a comment:

* engine: a committed transaction is in memory only and gone after a restart
  (`engine.go:551`; `engine.go:46`), and keys that expired, or whose lease ended, come back; a
  batch that rolls the log is acknowledged while its first records are in a file closed
  without fsync (`wal.go:174`; `wal.go:43`);
* leases: the manager's own cleanup goroutine wins an expired lease, throws its keys away,
  and they stay for ever (`DiscardExpired`, `lease.go:402`; `lease.go:16`);
* watches: `Stop` with a watch open closes its channel a second time and panics
  (`watcher.go:99`; `main.go:95`), and so does an event taken from the queue before `Stop`, or
  a `Notify` past its check; a watch for the empty prefix is sent nothing, since
  `distributeEvent` wants a prefix longer than the word it is filed under (`watcher.go:219`);
* transactions: two that create a key unless it is there both find it missing, and the
  second acts when it is there (`server.go:1004`; `engine.go:41`);
* a Raft node: an entry that `run` takes off `applyCh` never reaches the state machine
  (`taken`, `raft.go:224`); `ticker` takes its own tick for the close of the channel and ends
  (`EndTicker`, `raft.go:181`); a message that comes in while a tick is pending takes it away
  (`DropMessage`, `raft.go:700`); a candidate's second round does not arm the timer, so there
  is no third (`StartElection`, `raft.go:249`); a node stopped while it works panics;
* Raft: a leader may lack a committed entry, by way of the duplicates of `retransmission`;
* cluster: with two late joiners in a cluster of four, or with a
  removal after a late join, two majorities may have no node in common: `MajoritiesOverlap` is
  claimed of one joiner, `MajoritiesOverlapOverTime` of one change; without a map of addresses
  in the configuration `Start` leaves every node without any, and `AddressesKnown` is claimed
  where there is one;
* `main.go:83`: `log.Fatalf` may end the process before Close, which is a `Crash` of
  `Engine`.

The properties of the passing runs that speak of the same places say what holds all the
same: `TransactionAsIfAlone` of a transaction answered OK and of why one is refused,
`LostOnlyWhenFull` of the events nothing excuses, `EntriesReachMachineOnce` of the entries
that `run` leaves, `MemoryIsReplay` of the keys that nothing changed without logging.

Deadlock is checked for `api`, whose clients can always send another request. Elsewhere
the system may stop: with every bound reached and every message handled the model of
Raft has nothing left to do, the engine stops for good on a torn log, keys, leases
and watches may all be gone, and a panic ends the process in `node_loop` and `cluster`.

## Theorems

Every safety property that a run checks is also proved, for every value of the constants.
The assumptions on the constants are those the modules name: bounds and capacities are
natural numbers (capacities at least 1), and `None` is none of the values it stands beside
(`NoneAssumption` of `Engine` and `Cluster` says so of the records it is compared with).
Two kinds of statements ask for more, and say so: those about small clusters and those
about a single lease client.

**`RaftProofs`** proves

* `TypeCorrect`: `Spec => []TypeOK`;
* `ElectionInvariant`: `Spec => []ElectionInv`;

and, for clusters of at most three nodes (`ASSUME Cardinality(Server) <= 3` in
the statement; for four the run `four_nodes` refutes them):

* `SmallClusterElectionSafety`: `Spec => []ElectionSafety`;
* `SmallClusterLeaderAppendOnly`: a leader's log only grows within its term;
* `SmallClusterAppends`: `Spec => []AppendsReflectLeaderLog`;
* `SmallClusterMatch`: `Spec => []MatchWithinLeaderLog`.

`ElectionSafety` is not inductive: nothing in it says why a second candidate cannot
win. `ElectionInv` adds that a candidate or leader voted for itself (`ContenderVoted`),
that a vote cast is remembered for its term (`VotesRemembered`, `OneVotePerTerm`), that a
granted vote or an AppendEntries in flight is backed by a vote cast or an election won
(`MessagesBacked`), and that a winner has its own vote and somebody else's
(`ElectedBacked`). Because the code counts answers and not voters, "somebody
else's vote" is all a win proves. Two winners of a term are thus two nodes and
two voters, all different since each voted once: four nodes, which a cluster of
three does not have. That the log of a leader only grows follows: an AppendEntries
of its term would come from another winner of that term.

The last two are inductive together (`ReplicationInv`), beside `ElectionInv` and
`ElectionSafety`. `GrownStep` carries most steps: where every leader led before with a
part of its log, it is enough to look at what is sent and noted down. Two steps need
the elections. A new leader has sent nothing in its term and nobody has acknowledged
anything to it, since by `ElectedBacked` it has not won that term before. And a node
that accepts an AppendEntries of its term is not its leader, who is the sender: so it
acknowledges to that leader a section of that leader's log.

**`NodeLoopProofs`** proves, for any log, any capacities and any number of HTTP goroutines,

* `NodeKeepsTimeAlways`: `TimeInv` drops the role from the first half of the property: a
  leader's election timeout, too, is armed, on its way or known to be lost, or else one that
  steps down would have none. `LockInv` is needed because `FinishNotify` moves its handler:
  the goroutine that holds the mutex is in `notifyReady`, so `run` never has a tick in hand
  then;
* `NodeTypesAlways`, `EntriesReachMachineOnceAlways` and `MachineAlwaysFollowsLog`: the
  entries on their way are followed through `applyCh`, the loop that has taken one and the
  machine. `QueueInv` says that each of these sequences rises and lies before the one behind
  it (`OrderInv`), and that an entry is in one of them exactly if it has been counted in
  `lastApplied` and `run` has not taken it (`GivenInv`, `CountedInv`). `DataInv` says of the
  machine what the last of the entries about a key says; as entries only come in rising
  order, the one applied is the last one about its key.

**`ClusterProofs`** proves all that the run `cluster` checks, for any number of nodes,
arrays and changes: `ClusterTypesAlways`, `OneStopUnlessHalted`,
`ListsAreTheConfiguredOne`, `EveryAddressIsKnown`, `MajoritiesAlwaysOverlap`,
`MajoritiesAlwaysOverlapOverTime`. `ClusterInv` has a conjunct per concern. `ConfigInv`: the
configured list names each node once, but for the place that a RemoveNode is shifting over.
`ListsInv`: nodes that did not join late hold that list, or are still to be given it, and
then theirs is a slice of the same array, as long or one longer. `LateInv`: a late joiner
stands on no list but its own, and that list is the configured one with it at the end.
`AddressInv` and `RunInv` say why addresses are known and nothing is stopped twice.
`SettledInv` is about all lists that nodes have *had*: at any time they hold no nodes but
those of two lists, one of them the other with a node added or taken out. `NoTwoMajorities`
does the counting: voters without a node in common, the candidates set aside, cannot be a
majority of each of two lists whose lengths differ by one at most. `PlacesOverlap` applies it
to the places in a shared array, `IdsOverlap` to the ids on lists of different times.

**`EngineProofs`** proves, for any keys, values and bounds, in four stages:

* `EngineTypesAlways`;
* the log: `ReplayInOrderAlways`, `AckedIsSyncedAlways` and the action property
  `TruncateKeepsWhatWasCopied`. `LogInv`: ids rise within segments and from one segment to
  the next, since the file written to is never named before another (`InOrder`); the last
  record of the write under way is in the current file, so that the fsync at its end
  reaches it (`WrittenAtEnd`); an acknowledged write has its last record synced
  (`AckedSynced`); what the snapshot under way has in its copy is in segments that its
  truncation keeps (`SnapshotKept`), with as many steps as it takes;
* memory: `MemoryIsReplayAlways`. `MemInv`: outside `unlogged` memory agrees with what
  recovery makes of the files, and in the middle of a write it will, once the commands
  already logged are applied to it. Recovery folds over segments and records, so the
  lemmas say what a fold makes of an appended record, of a segment that is gone and of
  records cut off at the end;
* the refinement: `EngineImplementsDurableMap` (`Spec => DurableSpec`). A crash may take
  records from the *middle* of the order, the unsynced end of a closed segment. So recovery
  is written anew as a function `Replay` of the *set* of records and a number of ids, in
  which a record may be left out and only its key notices. `WriteInv` gives the records of
  the write under way the last ids, in the order of its commands, and says that up to the id
  before them the log tells of memory; a crash in the middle of a write then leaves, of each
  key that is not doubtful, the value before or one that some first part of the commands
  gives it, which is what `DurableMap` allows (`AfterSome`).

**`LeaseProofs`** proves, for any number of clients, keys, leases and objects,
`LeaseTypes` (`Spec => []TypeOK`) and `MappedKeysListed` (`Spec => []MappedKeyIsListed`).
The two together are inductive: each operator of the manager is shown to keep the
manager's type and its consistency (one lemma per method), and each action puts the
manager through one of them, with a key or lease that the type of `call` vouches
for. The point of the argument is `EndLeases`: it takes away the entry of every key
listed in the ended lease, so a key mapped to it, being listed in it, goes too.

For a single client (`ASSUME SingleClient` in the statement, see Runs), with the clock, both
cleanup goroutines and deletions between its steps, it proves `LeasedKeysListed`
(`Spec => []LeasedKeyIsListed`) and the action property `RevokeLeavesNoKey`. `KeyInv`: no two
keys share an object (`ObjectsInv`), a lease granted later is not one that is in use
(`GrantedInv`), the key of an operation has the object it had or is gone (`SameObject`), a
lease lists each key that carries it but the one being moved (`ListedInv`, `AttachedInv`), and
what a revocation has collected is all there is (`RevokingInv`).

**`WatcherProofs`** proves, for any keys, patterns, capacities and bounds,

* `NoPanicBeforeStop`: `Spec => []PanicOnlyOnceStopped`. The invariant `OpenUntilStop` adds
  that a registered watch has an open channel, which `Cancel` keeps by taking the watch out
  under the same lock as it closes the channel, and that ids of closed channels have been
  handed out, so that a new watch is open. `Stop` breaks it, since it leaves the watches
  whose channels it closes registered;
* `WatcherTypesAlways`;
* `EventsAlwaysInOrder`: what a client has received, what its goroutine and channel hold and
  what is still to be distributed are one sequence, `Flow`, that rises throughout; each step
  moves its parts along, drops one or adds the newest at the end;
* `LossOnlyWhenFull`: no step takes an event out of the flow of a watch it is for unless it
  counts it as missed. Watches for the empty prefix are among the patterns; the property
  itself leaves them out (`Findable`), as the code loses all their events (`watcher.go:219`).

**`ApiProofs`** proves, for any clients, requests, keys and values,

* `OpenTransactionsServed`, where it is enough that a step of a handler opens and ends that
  client's transaction only;
* `BranchCalledFor`. `BranchInv` follows a transaction through its conditions: while they are
  checked, what is true of each now is in `seen`, whoever writes, and those already passed
  have been seen true. `HoldsIsTruth` says that `checkConditions` computes the truth of a
  condition;
* `ApiTypesAlways`, for which `RespondingInv` counts the responses of a transaction against
  its next operation;
* `BatchAlwaysAsIfAlone`. `BatchIsAlone` is the algorithm: the PUTs and DELETEs sorted out,
  the last value of each key taken, leave what the operations leave one by one. `BatchInv`
  says what the batch's keys hold between the two engine calls;
* `TransactionAlwaysAsIfAlone`: one answered OK was as if alone, one refused would fail alone
  or met a closed engine. `CourseInv` puts an undisturbed transaction on the course that
  `TransactionAlone` describes: its keys hold what the operations done so far leave, its
  responses are the first of the results, and once it fails it has come to the last
  operation that can be done, unless Close cut it short. `OperationAlike` and
  `ConditionAlike` are why other keys do not matter, `OthersLeft` why other clients do not.

**`FoldLemmas`** is how folds and other recursive definitions are reasoned about, as the
library's induction theorems cannot be applied here: an operation folded is given as a
function, the fold as a function on the sets of positions, and induction is the least
number at which two functions differ or a property fails (`CountUp`, `FoldByKeeps`,
`FoldByConcat`, `FoldByRelated`). That a function with the recursion exists is shown by
building it, for `Course` of `Api` from folds of the first n operations.

Only model-checked: the liveness properties `LockIsReleased` and `QueuedEntriesLeave` of
`NodeLoop` and `CancelledWatchEnds` of `Watcher`, which the provers at hand cannot reach, and
the disagreements that the violating runs show.

## Not modelled, and plan

Not modelled: configuration, metrics, logger and benchmark, which keep no state that the
rest of the system reads; the cluster's search for a leader (`Propose`, `WaitForLeader`,
which may find, and keep, one that is being removed, `cluster.go:293`); the client library,
flags and start-up; the formats of records, requests and files; disk errors other than a
crash; InstallSnapshot and the state machine's Snapshot and Restore, which nothing calls.
Parts modelled in separate modules and not composed: the engine with its leases, watches and
the API (each has the other's operations as atomic steps), and the cluster manager with the
nodes.

What could come next:

1. `Cluster` with `Raft`: who leads, in the cluster manager's eyes; nodes that are removed
   and added again without their persistent state, and votes across changes of the
   membership.
2. An abstract channel per watch that `Watcher` implements until Stop; the engine with
   its leases under one log, for what a restart makes of leased keys.
3. Proofs: what stays true of `Raft` in clusters of four and more (a leader won its term,
   but not alone); the lease properties of several clients that touch no common key; for
   `NodeLoop`, that a node nobody stops never panics.
