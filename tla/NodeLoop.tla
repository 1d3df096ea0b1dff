------------------------------ MODULE NodeLoop ------------------------------
(***************************************************************************)
(* The goroutines of one Raft node (src/internal/raft/raft.go): ticker,    *)
(* run, applyLoop, the HTTP goroutines that call ProcessMessage, and Stop, *)
(* with the channels, timers and mutex between them, and the state machine *)
(* of statemachine.go that the committed entries are for.                  *)
(*                                                                         *)
(* What a message makes of terms, votes and logs is the subject of Raft;   *)
(* here a handler may do any of the things it can do to the role, the      *)
(* timers and the commit index.  Entry i of the log is the command         *)
(* Commands[i].  A goroutine that sends to a full applyCh waits with the   *)
(* mutex held.                                                             *)
(***************************************************************************)
EXTENDS Naturals, Sequences, FiniteSets, SequencesExt

CONSTANTS
    Key,
    None,
    Commands,     \* the log, as far as it can be committed: [type, key, value]
    Deliverer,    \* goroutines of the HTTP server that deliver messages
    MessageCap,   \* capacity of appendEntriesCh and of requestVoteCh (1000 in the code)
    ApplyCap      \* capacity of applyCh (1000)

ASSUME NodeLoopAssumption ==
    /\ Commands \in Seq([type : {"put", "delete"}, key : Key, value : Nat])
    /\ {MessageCap, ApplyCap} \subseteq Nat \ {0}
    /\ None \notin Key \cup Nat \cup Deliverer \cup {"run"}
    /\ "run" \notin Deliverer

Index == 1..Len(Commands)
NoEntry == 0
Handler == {"run"} \cup Deliverer    \* the goroutines that handle messages

VARIABLES
    state,           \* n.state
    commitIndex,
    lastApplied,
    mu,              \* the goroutine that waits on applyCh with n.mu held, or None
    electionTimer,   \* "armed", "fired" (its channel holds a value) or "idle"
    heartbeatTimer,
    tickCh,          \* a tick is in the channel, whose capacity is 1
    appendEntriesCh, \* messages in the channel
    requestVoteCh,
    applyCh,         \* entries in the channel
    stopped,         \* Stop has closed the channels
    ticker,          \* where ticker is: "select", "check", "send", "ended"
    at,              \* where each handler is: run at "select", "tick", "append", "vote",
                     \* "notify" or "ended", a deliverer at "select", "response" or "notify"
    runEntry,        \* the entry run has taken off applyCh, or NoEntry
    applying,        \* the entry applyLoop has taken off applyCh, or NoEntry
    data,            \* the map of SimpleStateMachine
    panicked,        \* a goroutine has sent on a closed channel
    applied,         \* history: the entries Apply has been called with, in order
    taken,           \* history: the entries run has taken off applyCh
    lost             \* history: "timeout" when the last election timeout did not arm the timer
                     \* again, "heartbeat" when the last heartbeat did not

nodeVars == <<state, commitIndex, lastApplied>>
timerVars == <<electionTimer, heartbeatTimer>>
messageVars == <<appendEntriesCh, requestVoteCh>>
machineVars == <<applying, data, applied>>
vars == <<nodeVars, mu, timerVars, tickCh, messageVars, applyCh, stopped, ticker, at, runEntry,
          machineVars, panicked, taken, lost>>

Init ==
    /\ state = "Follower"
    /\ commitIndex = 0
    /\ lastApplied = 0
    /\ mu = None
    /\ electionTimer = "armed"
    /\ heartbeatTimer = "armed"    \* NewTimer(0)
    /\ tickCh = FALSE
    /\ appendEntriesCh = 0
    /\ requestVoteCh = 0
    /\ applyCh = <<>>
    /\ stopped = FALSE
    /\ ticker = "select"
    /\ at = [g \in Handler |-> "select"]
    /\ runEntry = NoEntry
    /\ applying = NoEntry
    /\ data = [k \in Key |-> None]
    /\ panicked = FALSE
    /\ applied = <<>>
    /\ taken = {}
    /\ lost = {}

-----------------------------------------------------------------------------
(* Timers and ticker *)

FireElection ==
    /\ electionTimer = "armed"
    /\ electionTimer' = "fired"
    /\ UNCHANGED heartbeatTimer

FireHeartbeat ==
    /\ heartbeatTimer = "armed"
    /\ heartbeatTimer' = "fired"
    /\ UNCHANGED electionTimer

Fire ==
    /\ FireElection \/ FireHeartbeat
    /\ UNCHANGED <<nodeVars, mu, tickCh, messageVars, applyCh, stopped, ticker, at, runEntry,
                   machineVars, panicked, taken, lost>>

TakeElectionTimeout ==
    /\ ticker = "select"
    /\ electionTimer = "fired"
    /\ electionTimer' = "idle"
    /\ ticker' = "send"
    /\ UNCHANGED <<heartbeatTimer, tickCh, panicked>>

TakeHeartbeat ==
    /\ ticker = "select"
    /\ heartbeatTimer = "fired"
    /\ heartbeatTimer' = "idle"
    /\ ticker' = "check"
    /\ UNCHANGED <<electionTimer, tickCh, panicked>>

CheckLeader ==
    /\ ticker = "check"
    /\ mu = None
    /\ ticker' = IF state = "Leader" THEN "send" ELSE "select"
    /\ UNCHANGED <<timerVars, tickCh, panicked>>

\* A tick that finds another one in the channel is dropped; a send on the closed channel panics,
\* with a default or without
SendTick ==
    /\ ticker = "send"
    /\ ticker' = "select"
    /\ tickCh' = (tickCh \/ ~stopped)
    /\ panicked' = stopped
    /\ UNCHANGED timerVars

\* ticker takes a tick, its own, or finds the channel closed
EndTicker ==
    /\ ticker = "select"
    /\ tickCh \/ stopped
    /\ ticker' = "ended"
    /\ tickCh' = FALSE
    /\ UNCHANGED <<timerVars, panicked>>

Ticker ==
    /\ TakeElectionTimeout \/ TakeHeartbeat \/ CheckLeader \/ SendTick \/ EndTicker
    /\ UNCHANGED <<nodeVars, mu, messageVars, applyCh, stopped, at, runEntry, machineVars, taken,
                   lost>>

-----------------------------------------------------------------------------
(* What the handlers share *)

Free == mu = None

\* resetElectionTimer and resetHeartbeatTimer discard a value that is in the timer's channel
ArmElection ==
    /\ electionTimer' = "armed"
    /\ lost' = lost \ {"timeout"}
    /\ UNCHANGED heartbeatTimer
ArmHeartbeat ==
    /\ heartbeatTimer' = "armed"
    /\ lost' = lost \ {"heartbeat"}
    /\ UNCHANGED electionTimer
ArmNone == UNCHANGED <<timerVars, lost>>

\* g goes back to its select (a deliverer is then free for another message)
Return(g) == at' = [at EXCEPT ![g] = "select"]

\* Mutant: the leader's commit index is taken over one too high
CommitBeyond(g, c) ==
    /\ commitIndex' = c + 1
    /\ at' = [at EXCEPT ![g] = "notify"]
    /\ mu' = g
    /\ panicked' = stopped

\* The commit index rises to c, and notifyReady has entries to send, with n.mu held;
\* once the channels are closed it panics
Commit(g, c) ==
    /\ commitIndex' = c
    /\ at' = [at EXCEPT ![g] = "notify"]
    /\ mu' = g
    /\ panicked' = stopped

Same == UNCHANGED <<commitIndex, mu, panicked>>

-----------------------------------------------------------------------------
(* run *)

RunTakes(there, next) ==
    /\ at["run"] = "select"
    /\ runEntry = NoEntry
    /\ there
    /\ at' = [at EXCEPT !["run"] = next]

TakeTick ==
    /\ RunTakes(tickCh, "tick")
    /\ tickCh' = FALSE
    /\ UNCHANGED <<messageVars, applyCh, runEntry, taken>>

TakeAppendEntries ==
    /\ RunTakes(appendEntriesCh > 0, "append")
    /\ appendEntriesCh' = appendEntriesCh - 1
    /\ UNCHANGED <<tickCh, requestVoteCh, applyCh, runEntry, taken>>

TakeRequestVote ==
    /\ RunTakes(requestVoteCh > 0, "vote")
    /\ requestVoteCh' = requestVoteCh - 1
    /\ UNCHANGED <<tickCh, appendEntriesCh, applyCh, runEntry, taken>>

TakeEntry ==
    /\ RunTakes(applyCh # <<>>, "select")
    /\ runEntry' = Head(applyCh)
    /\ applyCh' = Tail(applyCh)
    /\ taken' = taken \cup {Head(applyCh)}
    /\ UNCHANGED <<tickCh, messageVars>>

\* Every channel is closed, and installSnapshotCh is always empty
EndRun ==
    /\ RunTakes(stopped, "ended")
    /\ UNCHANGED <<tickCh, messageVars, applyCh, runEntry, taken>>

RunSelect ==
    /\ TakeTick \/ TakeAppendEntries \/ TakeRequestVote \/ TakeEntry \/ EndRun
    /\ UNCHANGED <<nodeVars, mu, timerVars, stopped, ticker, machineVars, panicked, lost>>

\* Mutant: becomeCandidate does not reset the election timer
BecomeCandidateOnly ==
    /\ state = "Follower"
    /\ state' = "Candidate"
    /\ ArmNone

BecomeCandidate ==
    /\ state = "Follower"
    /\ state' = "Candidate"
    /\ ArmElection

\* A candidate asks for votes again and leaves its timer alone
StartElection ==
    /\ state = "Candidate"
    /\ lost' = lost \cup {"timeout"}
    /\ UNCHANGED <<state, timerVars>>

SendHeartbeats ==
    /\ state = "Leader"
    /\ heartbeatTimer' = "armed"
    /\ lost' = (lost \ {"heartbeat"}) \cup (IF electionTimer = "idle" THEN {"timeout"} ELSE {})
    /\ UNCHANGED <<state, electionTimer>>

HandleTick ==
    /\ at["run"] = "tick"
    /\ Free
    /\ Return("run")
    /\ BecomeCandidate \/ StartElection \/ SendHeartbeats
    /\ UNCHANGED <<lastApplied, tickCh, messageVars, applyCh, stopped, ticker, runEntry,
                   machineVars, taken>>
    /\ Same

\* A message of a lower term is refused and changes nothing
RefuseStale ==
    /\ at["run"] \in {"append", "vote"}
    /\ Free
    /\ Return("run")
    /\ UNCHANGED <<nodeVars, mu, timerVars, tickCh, messageVars, applyCh, stopped, ticker, runEntry,
                   machineVars, panicked, taken, lost>>

\* A higher term makes the node a follower, the same term leaves it what it is
HandleMessage ==
    /\ at["run"] \in {"append", "vote"}
    /\ Free
    /\ state' \in {state, "Follower"}
    /\ ArmElection
    /\ \/ Return("run") /\ Same
       \/ /\ at["run"] = "append"
          /\ \E c \in commitIndex + 1..Len(Commands) : Commit("run", c)
    /\ UNCHANGED <<lastApplied, tickCh, messageVars, applyCh, stopped, ticker, runEntry,
                   machineVars, taken>>

\* applyEntry: an entry that notifyReady has sent is not above lastApplied, and is dropped
ApplyEntry ==
    /\ runEntry # NoEntry
    /\ Free
    /\ runEntry' = NoEntry
    /\ applyCh' = IF runEntry <= lastApplied THEN applyCh ELSE Append(applyCh, runEntry)
    /\ lastApplied' = IF runEntry <= lastApplied THEN lastApplied ELSE runEntry
    /\ UNCHANGED <<state, commitIndex, mu, timerVars, tickCh, messageVars, stopped, ticker, at,
                   machineVars, panicked, taken, lost>>

\* Mutant: the send does not wait for room, and drops the entry
SendOrDrop(g) ==
    /\ mu = g
    /\ lastApplied < commitIndex
    /\ lastApplied' = lastApplied + 1
    /\ applyCh' = IF Len(applyCh) < ApplyCap THEN Append(applyCh, lastApplied') ELSE applyCh
    /\ UNCHANGED <<state, commitIndex, mu, timerVars, tickCh, messageVars, stopped, ticker, at,
                   runEntry, machineVars, panicked, taken, lost>>

\* notifyReady, in the hands of g: the next entry, if applyCh has room for it
SendEntry(g) ==
    /\ mu = g
    /\ lastApplied < commitIndex
    /\ Len(applyCh) < ApplyCap
    /\ lastApplied' = lastApplied + 1
    /\ applyCh' = Append(applyCh, lastApplied')
    /\ UNCHANGED <<state, commitIndex, mu, timerVars, tickCh, messageVars, stopped, ticker, at,
                   runEntry, machineVars, panicked, taken, lost>>

\* The rest of the handler: a leader that has committed sends heartbeats
FinishNotify(g) ==
    /\ mu = g
    /\ lastApplied = commitIndex
    /\ mu' = None
    /\ Return(g)
    /\ IF g = "run" THEN ArmNone ELSE ArmHeartbeat
    /\ UNCHANGED <<nodeVars, tickCh, messageVars, applyCh, stopped, ticker, runEntry, machineVars,
                   panicked, taken>>

-----------------------------------------------------------------------------
(* ProcessMessage: a deliverer brings any message at any time *)

\* The node takes a pending tick for the closed channel: message and tick are gone.
\* (Once it is stopped a message changes nothing.)
DropMessage ==
    /\ Free
    /\ tickCh
    /\ tickCh' = FALSE
    /\ lost' = lost \cup (IF electionTimer = "idle" THEN {"timeout"} ELSE {})
                   \cup (IF heartbeatTimer = "idle" THEN {"heartbeat"} ELSE {})
    /\ UNCHANGED <<messageVars, at>>

\* Requests wait for run; one that does not fit is dropped
Enqueue ==
    /\ Free
    /\ ~tickCh /\ ~stopped
    /\ \/ /\ appendEntriesCh < MessageCap
          /\ appendEntriesCh' = appendEntriesCh + 1
          /\ UNCHANGED requestVoteCh
       \/ /\ requestVoteCh < MessageCap
          /\ requestVoteCh' = requestVoteCh + 1
          /\ UNCHANGED appendEntriesCh
    /\ UNCHANGED <<tickCh, at, lost>>

\* Responses are handled by the deliverer itself, after it has let n.mu go
StartResponse(d) ==
    /\ Free
    /\ ~tickCh /\ ~stopped
    /\ at' = [at EXCEPT ![d] = "response"]
    /\ UNCHANGED <<tickCh, messageVars, lost>>

ProcessMessage(d) ==
    /\ at[d] = "select"
    /\ DropMessage \/ Enqueue \/ StartResponse(d)
    /\ UNCHANGED <<nodeVars, mu, timerVars, applyCh, stopped, ticker, runEntry, machineVars,
                   panicked, taken>>

HandleVoteResponse(d) ==
    /\ at[d] = "response"
    /\ Free
    /\ Return(d)
    /\ \/ UNCHANGED state /\ ArmNone
       \/ state = "Candidate" /\ state' = "Follower" /\ ArmNone
       \/ state = "Candidate" /\ state' = "Leader" /\ ArmHeartbeat
    /\ UNCHANGED <<lastApplied, tickCh, messageVars, applyCh, stopped, ticker, runEntry,
                   machineVars, taken>>
    /\ Same

HandleAppendResponse(d) ==
    /\ at[d] = "response"
    /\ Free
    /\ \/ UNCHANGED state /\ ArmNone /\ Return(d) /\ Same
       \/ state = "Leader" /\ state' = "Follower" /\ ArmNone /\ Return(d) /\ Same
       \/ /\ state = "Leader" /\ commitIndex > 0
          /\ UNCHANGED state
          /\ ArmHeartbeat /\ Return(d) /\ Same
       \/ /\ state = "Leader"
          /\ UNCHANGED state
          /\ ArmNone
          /\ \E c \in commitIndex + 1..Len(Commands) : Commit(d, c)
    /\ UNCHANGED <<lastApplied, tickCh, messageVars, applyCh, stopped, ticker, runEntry,
                   machineVars, taken>>

-----------------------------------------------------------------------------
(* applyLoop and the state machine *)

\* Mutant: applyLoop takes the node's mutex
TakeLocked ==
    /\ Free
    /\ applying = NoEntry
    /\ applyCh # <<>>
    /\ applying' = Head(applyCh)
    /\ applyCh' = Tail(applyCh)
    /\ UNCHANGED <<nodeVars, mu, timerVars, tickCh, messageVars, stopped, ticker, at, runEntry,
                   data, applied, panicked, taken, lost>>

\* Mutant: applyLoop ends as soon as the node is stopped
TakeUnlessStopped ==
    /\ ~stopped
    /\ applying = NoEntry
    /\ applyCh # <<>>
    /\ applying' = Head(applyCh)
    /\ applyCh' = Tail(applyCh)
    /\ UNCHANGED <<nodeVars, mu, timerVars, tickCh, messageVars, stopped, ticker, at, runEntry,
                   data, applied, panicked, taken, lost>>

TakeToApply ==
    /\ applying = NoEntry
    /\ applyCh # <<>>
    /\ applying' = Head(applyCh)
    /\ applyCh' = Tail(applyCh)
    /\ UNCHANGED <<nodeVars, mu, timerVars, tickCh, messageVars, stopped, ticker, at, runEntry,
                   data, applied, panicked, taken, lost>>

\* Mutant: a delete is ignored
AfterPut(map, i) ==
    [map EXCEPT ![Commands[i].key] = IF Commands[i].type = "put" THEN Commands[i].value ELSE @]

\* applyPut and applyDelete
AfterCommand(map, i) ==
    [map EXCEPT ![Commands[i].key] = IF Commands[i].type = "put" THEN Commands[i].value ELSE None]

Apply ==
    /\ applying # NoEntry
    /\ data' = AfterCommand(data, applying)
    /\ applied' = Append(applied, applying)
    /\ applying' = NoEntry
    /\ UNCHANGED <<nodeVars, mu, timerVars, tickCh, messageVars, applyCh, stopped, ticker, at,
                   runEntry, panicked, taken, lost>>

-----------------------------------------------------------------------------
\* Stop stops the timers and closes every channel
Stop ==
    /\ Free
    /\ ~stopped
    /\ stopped' = TRUE
    /\ electionTimer' = "idle"
    /\ heartbeatTimer' = "idle"
    /\ UNCHANGED <<nodeVars, mu, tickCh, messageVars, applyCh, ticker, at, runEntry, machineVars,
                   panicked, taken, lost>>

RunHandles == HandleTick \/ RefuseStale \/ HandleMessage \/ ApplyEntry
Responds(d) == HandleVoteResponse(d) \/ HandleAppendResponse(d)
Notifies(g) == SendEntry(g) \/ FinishNotify(g)
ApplyLoop == TakeToApply \/ Apply

Next ==
    /\ ~panicked
    /\ \/ Fire \/ Ticker \/ RunSelect \/ RunHandles \/ ApplyLoop \/ Stop
       \/ \E d \in Deliverer : ProcessMessage(d) \/ Responds(d)
       \/ \E g \in Handler : Notifies(g)

Spec == Init /\ [][Next]_vars

\* applyLoop, and a handler whose entries have room, go on
Fairness ==
    /\ WF_vars(~panicked /\ TakeToApply)
    /\ WF_vars(~panicked /\ Apply)
    /\ \A g \in Handler : WF_vars(~panicked /\ SendEntry(g)) /\ WF_vars(~panicked /\ FinishNotify(g))
FairSpec == Spec /\ Fairness

-----------------------------------------------------------------------------
(* Properties *)

\* Every variable has its type (Node, raft.go:31-72; SimpleStateMachine, statemachine.go).
TypeOK ==
    /\ state \in {"Follower", "Candidate", "Leader"}
    /\ commitIndex \in 0..Len(Commands) /\ lastApplied \in 0..commitIndex
    /\ mu \in Handler \cup {None}
    /\ {electionTimer, heartbeatTimer} \subseteq {"armed", "fired", "idle"}
    /\ {tickCh, stopped, panicked} \subseteq BOOLEAN
    /\ {appendEntriesCh, requestVoteCh} \subseteq 0..MessageCap
    /\ applyCh \in Seq(Index) /\ Len(applyCh) <= ApplyCap
    /\ ticker \in {"select", "check", "send", "ended"}
    /\ at \in [Handler -> {"select", "tick", "append", "vote", "response", "notify", "ended"}]
    /\ {runEntry, applying} \subseteq Index \cup {NoEntry}
    /\ data \in [Key -> Nat \cup {None}]
    /\ applied \in Seq(Index) /\ taken \subseteq Index
    /\ lost \subseteq {"timeout", "heartbeat"}

\* The entries up to i that run has not taken
LogLessTaken(i) == (1..i) \ taken

\* Whoever commits, and however the two readers of applyCh race: what the state machine was given,
\* is being given and will be given are the entries up to lastApplied, each once and in the order of
\* the log, less those that run took (raft.go:224, 586-599, 622-646; raft.go:72 says that lastApplied
\* is the highest index applied).
EntriesReachMachineOnce ==
    LET given == applied \o (IF applying = NoEntry THEN <<>> ELSE <<applying>>) \o applyCh
    IN  /\ ToSet(given) = LogLessTaken(lastApplied)
        /\ \A i, j \in DOMAIN given : i < j => given[i] < given[j]

\* The state machine holds of each key what the last command about it says, up to the last entry
\* applied and but for the entries that run took (statemachine.go:49-101).
MachineFollowsLog ==
    \A k \in Key :
        LET last  == IF applied = <<>> THEN 0 ELSE Last(applied)
            about == {i \in LogLessTaken(last) : Commands[i].key = k}
        IN  data[k] = IF about = {} \/ Commands[Max(about)].type = "delete"
                      THEN None ELSE Commands[Max(about)].value

TickOnItsWay == ticker = "send" \/ tickCh \/ at["run"] = "tick"

\* As long as ticker lives, a follower or candidate has an election timeout to come and a leader a
\* heartbeat, in the timer or on its way to tick, but for the three ways the code loses one: a
\* candidate or leader that handles the timeout does not arm the timer again (raft.go:246-253), and
\* ProcessMessage swallows a tick (raft.go:700-705).
NodeKeepsTime ==
    ~stopped /\ ticker # "ended" =>
        /\ state # "Leader" /\ "timeout" \notin lost => electionTimer # "idle" \/ TickOnItsWay
        /\ state = "Leader" /\ "heartbeat" \notin lost =>
              heartbeatTimer # "idle" \/ ticker = "check" \/ TickOnItsWay

\* A handler that waits on a full applyCh with the node's mutex gets on and releases it: applyLoop needs
\* no lock to make room (raft.go:586-599, 638).
LockIsReleased == mu # None ~> mu = None \/ panicked

\* An entry counted in lastApplied gets to the state machine, or into the hands of run, even if the node
\* is stopped meanwhile: what is in a closed channel is still received (raft.go:586-599).
QueuedEntriesLeave ==
    \A i \in Index : (lastApplied >= i) ~> (i \in ToSet(applied) \cup taken \/ panicked)
=============================================================================
