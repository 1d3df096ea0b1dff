--------------------------- MODULE NodeLoopProofs ---------------------------
(***************************************************************************)
(* What TLAPS proves of NodeLoop, for any log, any capacity of the         *)
(* channels and any number of HTTP goroutines: that the node keeps time    *)
(* (TimeInv), and what becomes of the entries between lastApplied and the  *)
(* state machine (QueueInv), whose data follows them (DataInv).            *)
(***************************************************************************)
EXTENDS NodeLoop, FoldLemmas, TLAPS

Places == {"select", "tick", "append", "vote", "response", "notify", "ended"}
AtType == at \in [Handler -> Places]

\* The mutex is held by a handler that is in notifyReady
LockInv == \A g \in Handler : mu = g => at[g] = "notify"

\* The election timeout is on its way whatever the role: a leader that steps down relies on it
TimeInv ==
    ~stopped /\ ticker # "ended" =>
        /\ "timeout" \notin lost => electionTimer # "idle" \/ TickOnItsWay
        /\ state = "Leader" /\ "heartbeat" \notin lost =>
              heartbeatTimer # "idle" \/ ticker = "check" \/ TickOnItsWay

-----------------------------------------------------------------------------
(* Timers and ticker *)

LEMMA TickerTime ==
    ASSUME TimeInv, Fire \/ Ticker
    PROVE  TimeInv'
<1>1. UNCHANGED <<state, at, stopped, lost>>
  BY DEF Fire, Ticker, nodeVars
<1>2. CASE Fire
  <2>1. /\ electionTimer' = "idle" => electionTimer = "idle"
        /\ heartbeatTimer' = "idle" => heartbeatTimer = "idle"
        /\ UNCHANGED <<ticker, tickCh>>
    BY <1>2 DEF Fire, FireElection, FireHeartbeat
  <2> QED
    BY <1>1, <2>1 DEF TimeInv, TickOnItsWay
<1>3. CASE Ticker
  <2>1. CASE TakeElectionTimeout \/ TakeHeartbeat
    BY <1>1, <2>1 DEF TakeElectionTimeout, TakeHeartbeat, TimeInv, TickOnItsWay
  <2>2. CASE CheckLeader
    BY <1>1, <2>2 DEF CheckLeader, timerVars, TimeInv, TickOnItsWay
  <2>3. CASE SendTick
    BY <1>1, <2>3 DEF SendTick, timerVars, TimeInv, TickOnItsWay
  <2>4. CASE EndTicker
    BY <1>1, <2>4 DEF EndTicker, TimeInv
  <2> QED
    BY <1>3, <2>1, <2>2, <2>3, <2>4 DEF Ticker
<1> QED
  BY <1>2, <1>3

-----------------------------------------------------------------------------
(* run *)

\* A tick that run takes is still on its way
LEMMA SelectTime ==
    ASSUME AtType, TimeInv, RunSelect
    PROVE  TimeInv'
<1>1. UNCHANGED <<state, timerVars, stopped, ticker, lost>>
  BY DEF RunSelect, nodeVars
<1>2. at["run"] = "select" /\ "run" \in Handler
  BY DEF RunSelect, TakeTick, TakeAppendEntries, TakeRequestVote, TakeEntry, EndRun, RunTakes, Handler
<1>3. tickCh => tickCh' \/ at'["run"] = "tick"
  <2>1. CASE TakeTick
    BY <1>2, <2>1 DEF TakeTick, RunTakes, AtType
  <2>2. CASE ~TakeTick
    BY <2>2 DEF RunSelect, TakeAppendEntries, TakeRequestVote, TakeEntry, EndRun
  <2> QED
    BY <2>1, <2>2
<1> QED
  BY <1>1, <1>2, <1>3 DEF TimeInv, TickOnItsWay, timerVars

LEMMA TickTime ==
    ASSUME TimeInv, HandleTick
    PROVE  TimeInv'
<1>1. CASE BecomeCandidate
  BY <1>1 DEF BecomeCandidate, ArmElection, TimeInv
<1>2. CASE StartElection
  BY <1>2 DEF StartElection, TimeInv
<1>3. CASE SendHeartbeats
  BY <1>3 DEF SendHeartbeats, TimeInv
<1> QED
  BY <1>1, <1>2, <1>3 DEF HandleTick

\* Steps that take no tick, of a handler that has none in hand, and after which a timer is as it was or
\* armed and a leader was one before or has its heartbeat timer armed
LEMMA KeepsTime ==
    ASSUME TimeInv,
           UNCHANGED <<tickCh, ticker, stopped>>,
           at["run"] = "tick" => at'["run"] = "tick",
           \/ electionTimer' = "armed"
           \/ electionTimer' = electionTimer /\ ("timeout" \in lost => "timeout" \in lost'),
           \/ heartbeatTimer' = "armed"
           \/ state' # "Leader"
           \/ /\ heartbeatTimer' = heartbeatTimer /\ state' = state
              /\ "heartbeat" \in lost => "heartbeat" \in lost'
    PROVE  TimeInv'
BY DEF TimeInv, TickOnItsWay

LEMMA RunHandlesTime ==
    ASSUME AtType, TimeInv, RunHandles
    PROVE  TimeInv'
<1>1. CASE HandleTick
  BY <1>1, TickTime
<1>2. CASE RefuseStale
  BY <1>2, KeepsTime DEF RefuseStale, nodeVars, timerVars
<1>3. CASE HandleMessage
  <2>1. /\ UNCHANGED <<tickCh, ticker, stopped>>
        /\ at["run"] # "tick" /\ state' \in {state, "Follower"}
        /\ electionTimer' = "armed" /\ heartbeatTimer' = heartbeatTimer
        /\ lost' = lost \ {"timeout"}
    BY <1>3 DEF HandleMessage, ArmElection
  <2> QED
    BY <2>1, KeepsTime
<1>4. CASE ApplyEntry
  BY <1>4, KeepsTime DEF ApplyEntry, timerVars
<1> QED
  BY <1>1, <1>2, <1>3, <1>4 DEF RunHandles

-----------------------------------------------------------------------------
(* Whoever delivers, notifies, applies or stops *)

LEMMA DelivererTime ==
    ASSUME AtType, TimeInv, NEW d \in Deliverer, ProcessMessage(d) \/ Responds(d)
    PROVE  TimeInv'
<1>1. d # "run" /\ d \in Handler
  BY NodeLoopAssumption DEF Handler
<1>2. CASE ProcessMessage(d)
  <2>1. UNCHANGED <<state, timerVars, stopped, ticker>>
    BY <1>2 DEF ProcessMessage, nodeVars
  <2>2. CASE DropMessage
    BY <2>1, <2>2 DEF DropMessage, timerVars, TimeInv
  <2>3. CASE Enqueue
    BY <2>1, <2>3, KeepsTime DEF Enqueue, timerVars
  <2>4. CASE StartResponse(d)
    BY <1>1, <2>1, <2>4, KeepsTime DEF StartResponse, timerVars, AtType
  <2> QED
    BY <1>2, <2>2, <2>3, <2>4 DEF ProcessMessage
<1>3. CASE Responds(d)
  <2>1. /\ UNCHANGED <<tickCh, ticker, stopped>>
        /\ \/ at' = [at EXCEPT ![d] = "select"]
           \/ at' = [at EXCEPT ![d] = "notify"]
        /\ \/ UNCHANGED state /\ ArmNone
           \/ state' = "Follower" /\ ArmNone
           \/ ArmHeartbeat
    <3>1. CASE HandleVoteResponse(d)
      BY <3>1 DEF HandleVoteResponse, Return, ArmHeartbeat
    <3>2. CASE HandleAppendResponse(d)
      BY <3>2 DEF HandleAppendResponse, Return, Commit
    <3> QED
      BY <1>3, <3>1, <3>2 DEF Responds
  <2>2. at'["run"] = at["run"]
    BY <1>1, <2>1 DEF AtType, Handler
  <2> QED
    BY <2>1, <2>2, KeepsTime DEF ArmNone, ArmHeartbeat, timerVars
<1> QED
  BY <1>2, <1>3

LEMMA NotifyTime ==
    ASSUME AtType, LockInv, TimeInv, NEW g \in Handler, Notifies(g)
    PROVE  TimeInv'
<1>1. CASE SendEntry(g)
  BY <1>1, KeepsTime DEF SendEntry, timerVars
<1>2. CASE FinishNotify(g)
  <2>1. at["run"] = "tick" => at'["run"] = "tick"
    BY <1>2 DEF FinishNotify, Return, AtType, LockInv
  <2> QED
    BY <1>2, <2>1, KeepsTime DEF FinishNotify, ArmNone, ArmHeartbeat, nodeVars, timerVars
<1> QED
  BY <1>1, <1>2 DEF Notifies

LEMMA RestTime ==
    ASSUME TimeInv, ApplyLoop \/ Stop \/ UNCHANGED vars
    PROVE  TimeInv'
<1>1. CASE ApplyLoop
  BY <1>1, KeepsTime DEF ApplyLoop, TakeToApply, Apply, nodeVars, timerVars
<1>2. CASE Stop
  BY <1>2 DEF Stop, TimeInv
<1>3. CASE UNCHANGED vars
  BY <1>3, KeepsTime DEF vars, nodeVars, timerVars
<1> QED
  BY <1>1, <1>2, <1>3

-----------------------------------------------------------------------------
(* Where the handlers are *)

\* A handler moves itself only, to or from notifyReady with the mutex
Moves(g) ==
    \E place \in Places :
        /\ at' = [at EXCEPT ![g] = place]
        /\ at[g] # "notify" \/ mu' = None
        /\ mu' \in {mu, None} \/ (mu' = g /\ place = "notify")

LEMMA MovesLock ==
    ASSUME AtType, LockInv, NEW g \in Handler, Moves(g)
    PROVE  AtType' /\ LockInv'
<1>1. None \notin Handler
  BY NodeLoopAssumption DEF Handler
<1>2. PICK place \in Places :
          /\ at' = [at EXCEPT ![g] = place]
          /\ at[g] # "notify" \/ mu' = None
          /\ mu' \in {mu, None} \/ (mu' = g /\ place = "notify")
  BY DEF Moves
<1> QED
  BY <1>1, <1>2 DEF AtType, LockInv

LEMMA RunMoves ==
    ASSUME RunSelect \/ RunHandles
    PROVE  Moves("run") \/ UNCHANGED <<at, mu>>
<1>1. CASE RunSelect
  BY <1>1 DEF RunSelect, TakeTick, TakeAppendEntries, TakeRequestVote, TakeEntry, EndRun, RunTakes,
     Moves, Places
<1>2. CASE HandleTick \/ RefuseStale
  BY <1>2 DEF HandleTick, RefuseStale, Return, Same, Moves, Places
<1>3. CASE HandleMessage
  BY <1>3 DEF HandleMessage, Return, Same, Commit, Moves, Places
<1>4. CASE ApplyEntry
  BY <1>4 DEF ApplyEntry
<1> QED
  BY <1>1, <1>2, <1>3, <1>4 DEF RunHandles

LEMMA DelivererMoves ==
    ASSUME NEW d \in Deliverer, ProcessMessage(d) \/ Responds(d)
    PROVE  Moves(d) \/ UNCHANGED <<at, mu>>
<1>1. CASE ProcessMessage(d)
  BY <1>1 DEF ProcessMessage, DropMessage, Enqueue, StartResponse, Moves, Places
<1>2. CASE HandleVoteResponse(d)
  BY <1>2 DEF HandleVoteResponse, Return, Same, Moves, Places
<1>3. CASE HandleAppendResponse(d)
  BY <1>3 DEF HandleAppendResponse, Return, Same, Commit, Moves, Places
<1> QED
  BY <1>1, <1>2, <1>3 DEF Responds

LEMMA NotifyMoves ==
    ASSUME NEW g \in Handler, Notifies(g)
    PROVE  Moves(g) \/ UNCHANGED <<at, mu>>
BY DEF Notifies, SendEntry, FinishNotify, Return, Moves, Places

LEMMA RestMoves ==
    ASSUME Fire \/ Ticker \/ ApplyLoop \/ Stop \/ UNCHANGED vars
    PROVE  UNCHANGED <<at, mu>>
BY DEF Fire, Ticker, ApplyLoop, TakeToApply, Apply, Stop, vars

LEMMA NextTime == AtType /\ LockInv /\ TimeInv /\ [Next]_vars => (AtType /\ LockInv /\ TimeInv)'
<1> SUFFICES ASSUME AtType, LockInv, TimeInv, [Next]_vars
             PROVE  AtType' /\ LockInv' /\ TimeInv'
  OBVIOUS
<1>1. UNCHANGED <<at, mu>> => AtType' /\ LockInv'
  BY DEF AtType, LockInv
<1>2. CASE RunSelect \/ RunHandles
  <2>1. "run" \in Handler
    BY DEF Handler
  <2> QED
    BY <1>1, <1>2, <2>1, RunMoves, MovesLock, SelectTime, RunHandlesTime
<1>3. ASSUME NEW d \in Deliverer, ProcessMessage(d) \/ Responds(d)
      PROVE  AtType' /\ LockInv' /\ TimeInv'
  <2>1. d \in Handler
    BY DEF Handler
  <2> QED
    BY <1>1, <1>3, <2>1, DelivererMoves, MovesLock, DelivererTime
<1>4. ASSUME NEW g \in Handler, Notifies(g)
      PROVE  AtType' /\ LockInv' /\ TimeInv'
  BY <1>1, <1>4, NotifyMoves, MovesLock, NotifyTime
<1>5. CASE Fire \/ Ticker
  BY <1>1, <1>5, RestMoves, TickerTime
<1>6. CASE ApplyLoop \/ Stop \/ UNCHANGED vars
  BY <1>1, <1>6, RestMoves, RestTime
<1> QED
  BY <1>2, <1>3, <1>4, <1>5, <1>6 DEF Next

LEMMA InitPlaces == Init => AtType /\ LockInv /\ TimeInv
BY NodeLoopAssumption DEF Init, AtType, LockInv, TimeInv, Places, Handler

-----------------------------------------------------------------------------
\* As long as ticker lives, a follower or candidate has an election timeout to come and a leader a
\* heartbeat, but for the ways the code loses one (raft.go:246-253, 700-705), however many goroutines
\* deliver messages and whatever the channels hold.
THEOREM NodeKeepsTimeAlways == Spec => []NodeKeepsTime
<1>1. TimeInv => NodeKeepsTime
  BY DEF TimeInv, NodeKeepsTime
<1> QED
  BY <1>1, InitPlaces, NextTime, PTL DEF Spec
-----------------------------------------------------------------------------
(* Types *)

Timer == {"armed", "fired", "idle"}

RoleTypes ==
    /\ state \in {"Follower", "Candidate", "Leader"}
    /\ electionTimer \in Timer /\ heartbeatTimer \in Timer
    /\ ticker \in {"select", "check", "send", "ended"}
    /\ lost \subseteq {"timeout", "heartbeat"}
FlagTypes == tickCh \in BOOLEAN /\ stopped \in BOOLEAN /\ panicked \in BOOLEAN
MessageTypes == appendEntriesCh \in 0..MessageCap /\ requestVoteCh \in 0..MessageCap
CommitTypes ==
    /\ commitIndex \in 0..Len(Commands) /\ lastApplied \in 0..commitIndex
    /\ mu \in Handler \cup {None}
QueueTypes ==
    /\ applyCh \in Seq(Index) /\ Len(applyCh) <= ApplyCap
    /\ runEntry \in Index \cup {NoEntry} /\ applying \in Index \cup {NoEntry}
    /\ data \in [Key -> Nat \cup {None}]
    /\ applied \in Seq(Index) /\ taken \subseteq Index

\* No entry is in the channel, or has come to run, that is not counted
CountedInv ==
    /\ \A i \in DOMAIN applyCh : applyCh[i] <= lastApplied
    /\ runEntry <= lastApplied
    /\ \A n \in taken : n <= lastApplied

queueVars == <<lastApplied, applyCh, runEntry, applying, data, applied, taken>>

LEMMA HandlerRoles ==
    ASSUME RoleTypes, RunHandles \/ \E d \in Deliverer : ProcessMessage(d) \/ Responds(d)
    PROVE  RoleTypes'
<1>1. CASE HandleTick
  <2>1. CASE BecomeCandidate
    BY <1>1, <2>1 DEF HandleTick, BecomeCandidate, ArmElection, RoleTypes, Timer
  <2>2. CASE StartElection
    BY <1>1, <2>2 DEF HandleTick, StartElection, timerVars, RoleTypes
  <2>3. CASE SendHeartbeats
    BY <1>1, <2>3 DEF HandleTick, SendHeartbeats, RoleTypes, Timer
  <2> QED
    BY <1>1, <2>1, <2>2, <2>3 DEF HandleTick
<1>2. CASE RefuseStale \/ ApplyEntry
  BY <1>2 DEF RefuseStale, ApplyEntry, nodeVars, timerVars, RoleTypes
<1>3. CASE HandleMessage
  BY <1>3 DEF HandleMessage, ArmElection, RoleTypes, Timer
<1>4. ASSUME NEW d \in Deliverer, ProcessMessage(d)
      PROVE  RoleTypes'
  BY <1>4 DEF ProcessMessage, DropMessage, Enqueue, StartResponse, nodeVars, timerVars, RoleTypes
<1>5. ASSUME NEW d \in Deliverer, HandleVoteResponse(d)
      PROVE  RoleTypes'
  BY <1>5 DEF HandleVoteResponse, ArmNone, ArmHeartbeat, timerVars, RoleTypes, Timer
<1>6. ASSUME NEW d \in Deliverer, HandleAppendResponse(d)
      PROVE  RoleTypes'
  BY <1>6 DEF HandleAppendResponse, ArmNone, ArmHeartbeat, timerVars, RoleTypes, Timer
<1> QED
  BY <1>1, <1>2, <1>3, <1>4, <1>5, <1>6 DEF RunHandles, Responds

LEMMA NextRoles ==
    ASSUME RoleTypes, [Next]_vars
    PROVE  RoleTypes'
<1>1. CASE Fire
  BY <1>1 DEF Fire, FireElection, FireHeartbeat, nodeVars, RoleTypes, Timer
<1>2. CASE Ticker
  BY <1>2 DEF Ticker, TakeElectionTimeout, TakeHeartbeat, CheckLeader, SendTick, EndTicker, nodeVars,
     timerVars, RoleTypes, Timer
<1>3. CASE RunSelect
  BY <1>3 DEF RunSelect, nodeVars, timerVars, RoleTypes
<1>4. CASE ApplyLoop
  BY <1>4 DEF ApplyLoop, TakeToApply, Apply, nodeVars, timerVars, RoleTypes
<1>5. CASE Stop
  BY <1>5 DEF Stop, nodeVars, RoleTypes, Timer
<1>6. ASSUME NEW g \in Handler, Notifies(g)
      PROVE  RoleTypes'
  BY <1>6 DEF Notifies, SendEntry, FinishNotify, ArmNone, ArmHeartbeat, nodeVars, timerVars,
     RoleTypes, Timer
<1>7. CASE UNCHANGED vars
  BY <1>7 DEF vars, nodeVars, timerVars, RoleTypes
<1> QED
  BY <1>1, <1>2, <1>3, <1>4, <1>5, <1>6, <1>7, HandlerRoles DEF Next

LEMMA NextFlags ==
    ASSUME FlagTypes, [Next]_vars
    PROVE  FlagTypes'
<1>1. CASE Fire
  BY <1>1 DEF Fire, FlagTypes
<1>2. CASE Ticker
  <2>1. stopped' = stopped
    BY <1>2 DEF Ticker
  <2>2. tickCh' \in BOOLEAN /\ panicked' \in BOOLEAN
    BY <1>2 DEF Ticker, TakeElectionTimeout, TakeHeartbeat, CheckLeader, SendTick, EndTicker, FlagTypes
  <2> QED
    BY <2>1, <2>2 DEF FlagTypes
<1>3. CASE RunSelect
  BY <1>3 DEF RunSelect, TakeTick, TakeAppendEntries, TakeRequestVote, TakeEntry, EndRun, FlagTypes
<1>4. CASE RunHandles
  BY <1>4 DEF RunHandles, HandleTick, RefuseStale, HandleMessage, ApplyEntry, Commit, Same, FlagTypes
<1>5. CASE ApplyLoop
  BY <1>5 DEF ApplyLoop, TakeToApply, Apply, FlagTypes
<1>6. CASE Stop
  BY <1>6 DEF Stop, FlagTypes
<1>7. ASSUME NEW d \in Deliverer, ProcessMessage(d) \/ Responds(d)
      PROVE  FlagTypes'
  BY <1>7 DEF ProcessMessage, DropMessage, Enqueue, StartResponse, Responds, HandleVoteResponse,
     HandleAppendResponse, Commit, Same, FlagTypes
<1>8. ASSUME NEW g \in Handler, Notifies(g)
      PROVE  FlagTypes'
  BY <1>8 DEF Notifies, SendEntry, FinishNotify, FlagTypes
<1>9. CASE UNCHANGED vars
  BY <1>9 DEF vars, FlagTypes
<1> QED
  BY <1>1, <1>2, <1>3, <1>4, <1>5, <1>6, <1>7, <1>8, <1>9 DEF Next

LEMMA NextMessages ==
    ASSUME MessageTypes, [Next]_vars
    PROVE  MessageTypes'
<1>1. MessageCap \in Nat
  BY NodeLoopAssumption
<1>2. CASE UNCHANGED messageVars
  BY <1>2 DEF messageVars, MessageTypes
<1>3. CASE RunSelect
  <2>1. CASE TakeAppendEntries
    BY <1>1, <2>1 DEF TakeAppendEntries, RunTakes, MessageTypes
  <2>2. CASE TakeRequestVote
    BY <1>1, <2>2 DEF TakeRequestVote, RunTakes, MessageTypes
  <2>3. CASE TakeTick \/ TakeEntry \/ EndRun
    BY <1>2, <2>3 DEF TakeTick, TakeEntry, EndRun
  <2> QED
    BY <1>3, <2>1, <2>2, <2>3 DEF RunSelect
<1>4. ASSUME NEW d \in Deliverer, ProcessMessage(d)
      PROVE  MessageTypes'
  BY <1>1, <1>4 DEF ProcessMessage, DropMessage, Enqueue, StartResponse, messageVars, MessageTypes
<1>5. Fire \/ Ticker \/ RunHandles \/ ApplyLoop \/ Stop \/ UNCHANGED vars => UNCHANGED messageVars
  BY DEF Fire, Ticker, RunHandles, HandleTick, RefuseStale, HandleMessage, ApplyEntry, ApplyLoop,
     TakeToApply, Apply, Stop, vars
<1>6. ASSUME NEW d \in Deliverer, Responds(d)
      PROVE  UNCHANGED messageVars
  BY <1>6 DEF Responds, HandleVoteResponse, HandleAppendResponse
<1>7. ASSUME NEW g \in Handler, Notifies(g)
      PROVE  UNCHANGED messageVars
  BY <1>7 DEF Notifies, SendEntry, FinishNotify
<1> QED
  BY <1>2, <1>3, <1>4, <1>5, <1>6, <1>7 DEF Next

-----------------------------------------------------------------------------
(* What the steps do to the entries on their way *)

LEMMA QueueSteps ==
    ASSUME [Next]_vars
    PROVE  \/ UNCHANGED queueVars
           \/ TakeEntry /\ UNCHANGED <<lastApplied, machineVars>>
           \/ ApplyEntry
           \/ \E g \in Handler : SendEntry(g)
           \/ TakeToApply
           \/ Apply
<1>1. Fire \/ Ticker \/ Stop \/ UNCHANGED vars => UNCHANGED queueVars
  BY DEF Fire, Ticker, Stop, vars, nodeVars, machineVars, queueVars
<1>2. CASE RunSelect
  BY <1>2 DEF RunSelect, TakeTick, TakeAppendEntries, TakeRequestVote, EndRun, nodeVars, machineVars,
     queueVars
<1>3. HandleTick \/ RefuseStale \/ HandleMessage => UNCHANGED queueVars
  BY DEF HandleTick, RefuseStale, HandleMessage, nodeVars, machineVars, queueVars
<1>4. ASSUME NEW d \in Deliverer, ProcessMessage(d) \/ Responds(d)
      PROVE  UNCHANGED queueVars
  BY <1>4 DEF ProcessMessage, Responds, HandleVoteResponse, HandleAppendResponse, Enqueue, nodeVars,
     machineVars, queueVars
<1>5. ASSUME NEW g \in Handler, FinishNotify(g)
      PROVE  UNCHANGED queueVars
  BY <1>5 DEF FinishNotify, nodeVars, machineVars, queueVars
<1> QED
  BY <1>1, <1>2, <1>3, <1>4, <1>5 DEF Next, RunHandles, ApplyLoop, Notifies

\* The entries are given to the machine in the order of the log ...
OrderInv ==
    /\ \A i, j \in DOMAIN applied : i < j => applied[i] < applied[j]
    /\ \A i, j \in DOMAIN applyCh : i < j => applyCh[i] < applyCh[j]
    /\ \A i \in DOMAIN applied, j \in DOMAIN applyCh : applied[i] < applyCh[j]
    /\ applying # NoEntry => /\ \A i \in DOMAIN applied : applied[i] < applying
                             /\ \A j \in DOMAIN applyCh : applying < applyCh[j]

\* ... and are those counted that run has not taken.
Given(n) == n \in ToSet(applied) \/ (applying # NoEntry /\ n = applying) \/ n \in ToSet(applyCh)
GivenInv == \A n \in Index : Given(n) <=> n <= lastApplied /\ n \notin taken

QueueInv == QueueTypes /\ CountedInv /\ OrderInv /\ GivenInv

LEMMA Numbers == Len(Commands) \in Nat /\ Index \subseteq Nat \ {0} /\ NoEntry \notin Index
BY NodeLoopAssumption DEF Index, NoEntry

LEMMA CommandTyped ==
    ASSUME NEW i \in Index
    PROVE  /\ Commands[i].type \in {"put", "delete"} /\ Commands[i].key \in Key
           /\ Commands[i].value \in Nat
<1> DEFINE Command == [type : {"put", "delete"}, key : Key, value : Nat]
<1>1. Commands[i] \in Command
  <2>1. Commands \in Seq(Command) /\ i \in 1..Len(Commands)
    BY NodeLoopAssumption DEF Index
  <2> HIDE DEF Command
  <2> QED
    BY <2>1
<1> QED
  BY <1>1

LEMMA HeadAndTail ==
    ASSUME NEW s \in Seq(Index), s # <<>>
    PROVE  /\ Len(s) \in Nat \ {0} /\ DOMAIN s = 1..Len(s)
           /\ Head(s) = s[1] /\ s[1] \in Index
           /\ Tail(s) \in Seq(Index) /\ Len(Tail(s)) = Len(s) - 1
           /\ DOMAIN Tail(s) = 1..(Len(s) - 1)
           /\ \A i \in DOMAIN Tail(s) : Tail(s)[i] = s[i + 1] /\ i + 1 \in DOMAIN s /\ i \in Nat \ {0}
           /\ \A i \in DOMAIN s : i # 1 => i - 1 \in DOMAIN Tail(s) /\ s[i] = Tail(s)[i - 1]
OBVIOUS

LEMMA HeadAndTailSet ==
    ASSUME NEW s \in Seq(Index), s # <<>>
    PROVE  \A n : n \in ToSet(s) <=> n = s[1] \/ n \in ToSet(Tail(s))
<1>1. 1 \in DOMAIN s
  BY HeadAndTail
<1>2. ASSUME NEW n, n \in ToSet(s), n # s[1]
      PROVE  n \in ToSet(Tail(s))
  <2>1. PICK i \in DOMAIN s : n = s[i]
    BY <1>2 DEF ToSet
  <2>2. i - 1 \in DOMAIN Tail(s) /\ s[i] = Tail(s)[i - 1]
    BY <1>2, <2>1, HeadAndTail
  <2> QED
    BY <2>1, <2>2 DEF ToSet
<1>3. ASSUME NEW n, n \in ToSet(Tail(s))
      PROVE  n \in ToSet(s)
  <2>1. PICK i \in DOMAIN Tail(s) : n = Tail(s)[i]
    BY <1>3 DEF ToSet
  <2>2. Tail(s)[i] = s[i + 1] /\ i + 1 \in DOMAIN s
    BY HeadAndTail
  <2> QED
    BY <2>1, <2>2 DEF ToSet
<1> QED
  BY <1>1, <1>2, <1>3 DEF ToSet

LEMMA AddedLast ==
    ASSUME NEW s \in Seq(Index), NEW e \in Index
    PROVE  /\ Append(s, e) \in Seq(Index) /\ Len(Append(s, e)) = Len(s) + 1 /\ Len(s) \in Nat
           /\ DOMAIN s = 1..Len(s) /\ DOMAIN Append(s, e) = 1..(Len(s) + 1)
           /\ \A i \in DOMAIN s : Append(s, e)[i] = s[i] /\ s[i] \in Index
           /\ Append(s, e)[Len(s) + 1] = e
           /\ \A i \in DOMAIN Append(s, e) : i \in DOMAIN s \/ i = Len(s) + 1
           /\ \A i \in DOMAIN s : i < Len(s) + 1 /\ ~(Len(s) + 1 < i)
OBVIOUS

LEMMA AddedLastSet ==
    ASSUME NEW s \in Seq(Index), NEW e \in Index
    PROVE  \A n : n \in ToSet(Append(s, e)) <=> n = e \/ n \in ToSet(s)
<1>1. Len(s) + 1 \in DOMAIN Append(s, e) /\ \A i \in DOMAIN s : i \in DOMAIN Append(s, e)
  OBVIOUS
<1>2. ASSUME NEW n, n \in ToSet(Append(s, e)), n # e
      PROVE  n \in ToSet(s)
  BY <1>2, AddedLast DEF ToSet
<1>3. ASSUME NEW n, n = e \/ n \in ToSet(s)
      PROVE  n \in ToSet(Append(s, e))
  BY <1>1, <1>3, AddedLast DEF ToSet
<1> QED
  BY <1>2, <1>3

\* run takes an entry
LEMMA TakeEntryQueue ==
    ASSUME QueueInv, TakeEntry, UNCHANGED <<lastApplied, machineVars>>
    PROVE  QueueInv'
<1>1. PICK e, rest : e = applyCh[1] /\ rest = Tail(applyCh)
  OBVIOUS
<1>2. applyCh # <<>> /\ applyCh \in Seq(Index)
  BY DEF TakeEntry, RunTakes, QueueInv, QueueTypes
<1>3. /\ applyCh' = rest /\ runEntry' = e /\ taken' = taken \cup {e} /\ Head(applyCh) = e
      /\ UNCHANGED <<lastApplied, applying, data, applied>>
  BY <1>1, <1>2, HeadAndTail DEF TakeEntry, machineVars
<1>4. e \in Index /\ rest \in Seq(Index) /\ Len(rest) = Len(applyCh) - 1 /\ 1 \in DOMAIN applyCh
  BY <1>1, <1>2, HeadAndTail
<1>5. \A i \in DOMAIN rest : rest[i] = applyCh[i + 1] /\ i + 1 \in DOMAIN applyCh /\ i \in Nat \ {0}
  BY <1>1, <1>2, HeadAndTail
<1>6. QueueTypes'
  <2>1. Len(rest) <= ApplyCap
    BY <1>2, <1>4, NodeLoopAssumption, LenProperties DEF QueueInv, QueueTypes
  <2> QED
    BY <1>3, <1>4, <2>1 DEF QueueInv, QueueTypes
<1>7. CountedInv'
  <2>1. e <= lastApplied
    BY <1>1, <1>4 DEF QueueInv, CountedInv
  <2>2. \A i \in DOMAIN rest : rest[i] <= lastApplied
    BY <1>5 DEF QueueInv, CountedInv
  <2> QED
    BY <1>3, <2>1, <2>2 DEF QueueInv, CountedInv
<1>8. OrderInv'
  <2>1. ASSUME NEW i \in DOMAIN rest, NEW j \in DOMAIN rest, i < j
        PROVE  rest[i] < rest[j]
    <3>1. i + 1 < j + 1
      BY <1>5, <2>1
    <3> QED
      BY <1>5, <3>1 DEF QueueInv, OrderInv
  <2> QED
    BY <1>3, <1>5, <2>1 DEF QueueInv, OrderInv
<1>9. GivenInv'
  <2>1. e \notin ToSet(applied) /\ applying # e /\ e \notin ToSet(rest)
    <3>1. \A i \in DOMAIN applied : applied[i] < e
      BY <1>1, <1>4 DEF QueueInv, OrderInv
    <3>2. \A j \in DOMAIN rest : e < rest[j]
      BY <1>1, <1>4, <1>5 DEF QueueInv, OrderInv
    <3>3. applying # NoEntry => applying < e
      BY <1>1, <1>4 DEF QueueInv, OrderInv
    <3> QED
      BY <1>4, <3>1, <3>2, <3>3, Numbers DEF ToSet
  <2>2. \A n : n \in ToSet(applyCh) <=> n = e \/ n \in ToSet(rest)
    BY <1>1, <1>2, HeadAndTailSet
  <2> QED
    BY <1>3, <2>1, <2>2 DEF QueueInv, GivenInv, Given
<1> QED
  BY <1>6, <1>7, <1>8, <1>9 DEF QueueInv

\* run drops it
LEMMA ApplyEntryQueue ==
    ASSUME QueueInv, lastApplied \in Nat, ApplyEntry
    PROVE  /\ QueueInv'
           /\ UNCHANGED <<lastApplied, applyCh, data, applied, applying, taken>>
<1>1. runEntry <= lastApplied
  BY DEF QueueInv, CountedInv
<1>2. runEntry' = NoEntry /\ UNCHANGED <<lastApplied, applyCh, data, applied, applying, taken>>
  BY <1>1 DEF ApplyEntry, machineVars
<1>3. CountedInv' /\ QueueTypes'
  BY <1>2 DEF QueueInv, CountedInv, QueueTypes, NoEntry
<1> QED
  BY <1>2, <1>3 DEF QueueInv, OrderInv, GivenInv, Given

\* notifyReady sends one
LEMMA SendEntryQueue ==
    ASSUME QueueInv, CommitTypes, NEW g \in Handler, SendEntry(g)
    PROVE  QueueInv'
<1>1. PICK e : e = lastApplied + 1
  OBVIOUS
<1>2. /\ applyCh' = Append(applyCh, e) /\ lastApplied' = e /\ Len(applyCh) < ApplyCap
      /\ UNCHANGED <<runEntry, applying, data, applied, taken>>
  BY <1>1 DEF SendEntry, machineVars
<1>3. e \in Index /\ lastApplied \in Nat /\ lastApplied < e
  BY <1>1, Numbers DEF SendEntry, CommitTypes, Index
<1>4. applyCh \in Seq(Index) /\ applied \in Seq(Index) /\ applying \in Index \cup {NoEntry}
  BY DEF QueueInv, QueueTypes
<1>5. QueueTypes'
  <2>1. Append(applyCh, e) \in Seq(Index) /\ Len(Append(applyCh, e)) <= ApplyCap
    BY <1>2, <1>3, <1>4, AddedLast, NodeLoopAssumption
  <2> QED
    BY <1>2, <2>1 DEF QueueInv, QueueTypes
<1>6. \A n \in Index : Given(n) => n <= lastApplied
  BY DEF QueueInv, GivenInv
<1>7. \A n \in Nat : n <= lastApplied => n < e /\ n <= e
  BY <1>1, <1>3
<1>8. \A i \in DOMAIN applyCh : applyCh[i] \in Index /\ applyCh[i] < e /\ applyCh[i] <= e
  <2>1. \A i \in DOMAIN applyCh : applyCh[i] \in Index /\ applyCh[i] \in Nat
    BY <1>4, AddedLast, <1>3, Numbers
  <2> QED
    BY <1>7, <2>1 DEF QueueInv, CountedInv
<1>9. \A i \in DOMAIN applied : applied[i] \in Index /\ applied[i] < e
  <2> SUFFICES ASSUME NEW i \in DOMAIN applied
               PROVE  applied[i] \in Index /\ applied[i] < e
    OBVIOUS
  <2>1. applied[i] \in Index /\ applied[i] \in ToSet(applied) /\ applied[i] \in Nat
    <3>1. applied[i] \in Index
      BY <1>3, <1>4, AddedLast
    <3> QED
      BY <3>1, Numbers DEF ToSet
  <2>2. applied[i] <= lastApplied
    BY <1>6, <2>1 DEF Given
  <2> QED
    BY <1>7, <2>1, <2>2
<1>10. applying # NoEntry => applying < e
  BY <1>3, <1>4, <1>6, Numbers DEF Given
<1>11. CountedInv'
  <2>1. ASSUME NEW i \in DOMAIN Append(applyCh, e)
        PROVE  Append(applyCh, e)[i] <= e
    <3>1. e <= e
      BY <1>3, Numbers
    <3> QED
      BY <1>3, <1>4, <1>8, <3>1, AddedLast
  <2>2. runEntry <= e
    <3>1. runEntry \in Nat /\ runEntry <= lastApplied
      BY Numbers DEF QueueInv, CountedInv, QueueTypes, NoEntry
    <3> QED
      BY <1>7, <3>1
  <2>3. \A n \in taken : n <= e
    <3>1. taken \subseteq Nat
      BY Numbers DEF QueueInv, QueueTypes
    <3> QED
      BY <1>7, <3>1 DEF QueueInv, CountedInv
  <2> QED
    BY <1>2, <2>1, <2>2, <2>3 DEF CountedInv
<1>12. OrderInv'
  <2>1. ASSUME NEW i \in DOMAIN Append(applyCh, e), NEW j \in DOMAIN Append(applyCh, e), i < j
        PROVE  Append(applyCh, e)[i] < Append(applyCh, e)[j]
    <3>1. i \in DOMAIN applyCh
      BY <1>3, <1>4, <2>1, AddedLast
    <3>2. CASE j \in DOMAIN applyCh
      BY <1>3, <1>4, <2>1, <3>1, <3>2, AddedLast DEF QueueInv, OrderInv
    <3>3. CASE j = Len(applyCh) + 1
      BY <1>3, <1>4, <1>8, <3>1, <3>3, AddedLast
    <3> QED
      BY <1>3, <1>4, <3>2, <3>3, AddedLast
  <2>2. ASSUME NEW i \in DOMAIN applied, NEW j \in DOMAIN Append(applyCh, e)
        PROVE  applied[i] < Append(applyCh, e)[j]
    BY <1>3, <1>4, <1>9, AddedLast DEF QueueInv, OrderInv
  <2>3. ASSUME applying # NoEntry, NEW j \in DOMAIN Append(applyCh, e)
        PROVE  applying < Append(applyCh, e)[j]
    BY <1>3, <1>4, <1>10, <2>3, AddedLast DEF QueueInv, OrderInv
  <2> QED
    BY <1>2, <2>1, <2>2, <2>3 DEF QueueInv, OrderInv
<1>13. GivenInv'
  <2>1. \A n : n \in ToSet(applyCh') <=> n = e \/ n \in ToSet(applyCh)
    BY <1>2, <1>3, <1>4, AddedLastSet
  <2>2. e \notin taken
    <3>1. ~(e <= lastApplied)
      BY <1>3, Numbers
    <3> QED
      BY <3>1 DEF QueueInv, CountedInv
  <2>3. \A n \in Index : n <= e <=> n <= lastApplied \/ n = e
    BY <1>1, <1>3, Numbers
  <2> QED
    BY <1>2, <2>1, <2>2, <2>3 DEF QueueInv, GivenInv, Given
<1> QED
  BY <1>5, <1>11, <1>12, <1>13 DEF QueueInv

\* applyLoop takes an entry
LEMMA TakeToApplyQueue ==
    ASSUME QueueInv, TakeToApply
    PROVE  QueueInv'
<1>1. PICK e, rest : e = applyCh[1] /\ rest = Tail(applyCh)
  OBVIOUS
<1>2. applyCh # <<>> /\ applyCh \in Seq(Index) /\ applying = NoEntry
  BY DEF TakeToApply, QueueInv, QueueTypes
<1>3. /\ applyCh' = rest /\ applying' = e
      /\ UNCHANGED <<lastApplied, runEntry, data, applied, taken>>
  BY <1>1, <1>2, HeadAndTail DEF TakeToApply, nodeVars
<1>4. e \in Index /\ rest \in Seq(Index) /\ Len(rest) = Len(applyCh) - 1 /\ 1 \in DOMAIN applyCh
  BY <1>1, <1>2, HeadAndTail
<1>5. \A i \in DOMAIN rest : rest[i] = applyCh[i + 1] /\ i + 1 \in DOMAIN applyCh /\ i \in Nat \ {0}
  BY <1>1, <1>2, HeadAndTail
<1>6. QueueTypes'
  <2>1. Len(rest) <= ApplyCap
    BY <1>2, <1>4, NodeLoopAssumption, LenProperties DEF QueueInv, QueueTypes
  <2> QED
    BY <1>3, <1>4, <2>1 DEF QueueInv, QueueTypes
<1>7. CountedInv'
  BY <1>3, <1>5 DEF QueueInv, CountedInv
<1>8. OrderInv'
  <2>1. ASSUME NEW i \in DOMAIN rest, NEW j \in DOMAIN rest, i < j
        PROVE  rest[i] < rest[j]
    <3>1. i + 1 < j + 1
      BY <1>5, <2>1
    <3> QED
      BY <1>5, <3>1 DEF QueueInv, OrderInv
  <2>2. \A i \in DOMAIN applied : applied[i] < e
    BY <1>1, <1>4 DEF QueueInv, OrderInv
  <2>3. \A j \in DOMAIN rest : e < rest[j]
    BY <1>1, <1>4, <1>5 DEF QueueInv, OrderInv
  <2> QED
    BY <1>3, <1>5, <2>1, <2>2, <2>3 DEF QueueInv, OrderInv
<1>9. GivenInv'
  <2>1. \A n : n \in ToSet(applyCh) <=> n = e \/ n \in ToSet(rest)
    BY <1>1, <1>2, HeadAndTailSet
  <2>2. e # NoEntry
    BY <1>4, Numbers
  <2> QED
    BY <1>2, <1>3, <2>1, <2>2 DEF QueueInv, GivenInv, Given
<1> QED
  BY <1>6, <1>7, <1>8, <1>9 DEF QueueInv

\* The state machine gets it
LEMMA ApplyQueue ==
    ASSUME QueueInv, Apply
    PROVE  QueueInv'
<1>1. PICK e : e = applying
  OBVIOUS
<1>2. applied \in Seq(Index) /\ e \in Index /\ e # NoEntry
  BY <1>1 DEF Apply, QueueInv, QueueTypes
<1>3. /\ applied' = Append(applied, e) /\ applying' = NoEntry
      /\ UNCHANGED <<lastApplied, applyCh, runEntry, taken>>
  BY <1>1 DEF Apply, nodeVars
<1>4. QueueTypes'
  <2>1. Commands[e].value \in Nat
    BY <1>2, CommandTyped
  <2>2. data' \in [Key -> Nat \cup {None}]
    BY <1>1, <2>1 DEF Apply, AfterCommand, QueueInv, QueueTypes
  <2>3. applied' \in Seq(Index)
    BY <1>2, <1>3, AddedLast
  <2> QED
    BY <1>3, <2>2, <2>3 DEF QueueInv, QueueTypes
<1>5. CountedInv'
  BY <1>3 DEF QueueInv, CountedInv
<1>6. OrderInv'
  <2>1. ASSUME NEW i \in DOMAIN Append(applied, e), NEW j \in DOMAIN Append(applied, e), i < j
        PROVE  Append(applied, e)[i] < Append(applied, e)[j]
    <3>1. i \in DOMAIN applied
      BY <1>2, <2>1, AddedLast
    <3>2. CASE j \in DOMAIN applied
      BY <1>2, <2>1, <3>1, <3>2, AddedLast DEF QueueInv, OrderInv
    <3>3. CASE j = Len(applied) + 1
      BY <1>1, <1>2, <3>1, <3>3, AddedLast DEF QueueInv, OrderInv
    <3> QED
      BY <1>2, <3>2, <3>3, AddedLast
  <2>2. ASSUME NEW i \in DOMAIN Append(applied, e), NEW j \in DOMAIN applyCh
        PROVE  Append(applied, e)[i] < applyCh[j]
    BY <1>1, <1>2, AddedLast DEF QueueInv, OrderInv
  <2> QED
    BY <1>3, <2>1, <2>2 DEF QueueInv, OrderInv
<1>7. GivenInv'
  <2>1. \A n : n \in ToSet(applied') <=> n = e \/ n \in ToSet(applied)
    BY <1>2, <1>3, AddedLastSet
  <2> QED
    BY <1>1, <1>2, <1>3, <2>1 DEF QueueInv, GivenInv, Given
<1> QED
  BY <1>4, <1>5, <1>6, <1>7 DEF QueueInv

LEMMA NextQueue ==
    ASSUME QueueInv, CommitTypes, [Next]_vars
    PROVE  QueueInv'
<1>1. CASE UNCHANGED queueVars
  BY <1>1 DEF queueVars, QueueInv, QueueTypes, CountedInv, OrderInv, GivenInv, Given
<1>2. lastApplied \in Nat
  BY Numbers DEF CommitTypes
<1> QED
  BY <1>1, <1>2, QueueSteps, TakeEntryQueue, ApplyEntryQueue, SendEntryQueue, TakeToApplyQueue,
     ApplyQueue

\* The commit index stays within the log, and entries are counted up to it.
LEMMA NextCommit ==
    ASSUME CommitTypes, QueueInv, [Next]_vars
    PROVE  CommitTypes'
<1>1. /\ commitIndex \in Nat /\ commitIndex <= Len(Commands)
      /\ lastApplied \in Nat /\ lastApplied <= commitIndex /\ Len(Commands) \in Nat
  BY Numbers DEF CommitTypes
<1>2. CASE UNCHANGED <<commitIndex, lastApplied, mu>>
  BY <1>2 DEF CommitTypes
<1>3. ASSUME lastApplied' = lastApplied, NEW g \in Handler,
             Same \/ \E c \in commitIndex + 1..Len(Commands) : Commit(g, c)
      PROVE  CommitTypes'
  <2>1. CASE Same
    BY <1>2, <1>3, <2>1 DEF Same
  <2>2. ASSUME NEW c \in commitIndex + 1..Len(Commands), Commit(g, c)
        PROVE  CommitTypes'
    <3>1. c \in 0..Len(Commands) /\ lastApplied \in 0..c
      BY <1>1, <2>2
    <3> QED
      BY <1>3, <2>2, <3>1 DEF Commit, CommitTypes
  <2> QED
    BY <1>3, <2>1, <2>2
<1>4. CASE RunHandles
  <2>1. "run" \in Handler
    BY DEF Handler
  <2>2. CASE HandleTick \/ RefuseStale
    BY <1>2, <2>2 DEF HandleTick, RefuseStale, BecomeCandidate, nodeVars, Same
  <2>3. CASE HandleMessage
    BY <1>3, <2>1, <2>3 DEF HandleMessage
  <2>4. CASE ApplyEntry
    BY <1>1, <1>2, <2>4, ApplyEntryQueue DEF ApplyEntry
  <2> QED
    BY <1>4, <2>2, <2>3, <2>4 DEF RunHandles
<1>5. ASSUME NEW d \in Deliverer, Responds(d)
      PROVE  CommitTypes'
  <2>1. d \in Handler
    BY DEF Handler
  <2>2. CASE HandleVoteResponse(d)
    BY <1>2, <2>2 DEF HandleVoteResponse, Same
  <2>3. CASE HandleAppendResponse(d)
    BY <1>3, <2>1, <2>3 DEF HandleAppendResponse
  <2> QED
    BY <1>5, <2>2, <2>3 DEF Responds
<1>6. ASSUME NEW g \in Handler, SendEntry(g)
      PROVE  CommitTypes'
  <2>1. lastApplied + 1 \in 0..commitIndex
    BY <1>1, <1>6 DEF SendEntry
  <2> QED
    BY <1>6, <2>1 DEF SendEntry, CommitTypes
<1>7. ASSUME NEW g \in Handler, FinishNotify(g)
      PROVE  CommitTypes'
  BY <1>7 DEF FinishNotify, nodeVars, CommitTypes
<1>8. ASSUME Fire \/ Ticker \/ RunSelect \/ ApplyLoop \/ Stop \/ UNCHANGED vars
      PROVE  CommitTypes'
  BY <1>2, <1>8 DEF Fire, Ticker, RunSelect, ApplyLoop, TakeToApply, Apply, Stop, vars, nodeVars
<1>9. ASSUME NEW d \in Deliverer, ProcessMessage(d)
      PROVE  CommitTypes'
  BY <1>2, <1>9 DEF ProcessMessage, nodeVars
<1> QED
  BY <1>4, <1>5, <1>6, <1>7, <1>8, <1>9 DEF Next, Notifies

-----------------------------------------------------------------------------
(* The data *)

\* What the last of these entries says of its key
Says(about) ==
    IF about = {} \/ Commands[Max(about)].type = "delete" THEN None ELSE Commands[Max(about)].value

AboutApplied(k) == {i \in ToSet(applied) : Commands[i].key = k}
DataInv == \A k \in Key : data[k] = Says(AboutApplied(k))

LEMMA GreatestOf ==
    ASSUME NEW S, S \subseteq Nat, NEW n \in S, \A i \in S : i <= n
    PROVE  Max(S) = n
<1>1. Max(S) \in S /\ \A i \in S : i <= Max(S)
  BY GreatestMember
<1>2. Max(S) \in Nat /\ n \in Nat /\ n <= Max(S) /\ Max(S) <= n
  BY <1>1
<1> QED
  BY <1>2

\* Among the entries applied none is later than the one being applied.
LEMMA ApplyData ==
    ASSUME QueueInv, DataInv, Apply
    PROVE  DataInv'
<1>1. PICK e : e = applying
  OBVIOUS
<1>2. applied \in Seq(Index) /\ e \in Index /\ e # NoEntry /\ data \in [Key -> Nat \cup {None}]
  BY <1>1 DEF Apply, QueueInv, QueueTypes
<1>3. applied' = Append(applied, e) /\ data' = AfterCommand(data, e)
  BY <1>1 DEF Apply
<1>4. \A n : n \in ToSet(applied') <=> n = e \/ n \in ToSet(applied)
  BY <1>2, <1>3, AddedLastSet
<1>5. ASSUME NEW k \in Key, Commands[e].key # k
      PROVE  data'[k] = Says(AboutApplied(k)')
  <2>1. AboutApplied(k)' = AboutApplied(k)
    BY <1>4, <1>5 DEF AboutApplied
  <2>2. data'[k] = data[k]
    BY <1>2, <1>3, <1>5 DEF AfterCommand
  <2> QED
    BY <2>1, <2>2 DEF DataInv
<1>6. ASSUME NEW k \in Key, Commands[e].key = k
      PROVE  data'[k] = Says(AboutApplied(k)')
  <2>1. AboutApplied(k)' = AboutApplied(k) \cup {e}
    BY <1>4, <1>6 DEF AboutApplied
  <2>2. AboutApplied(k) \cup {e} \subseteq Nat
    BY <1>2, Numbers, AddedLast DEF AboutApplied, ToSet
  <2>3. \A i \in AboutApplied(k) \cup {e} : i <= e
    <3>1. \A i \in AboutApplied(k) : i < e
      BY <1>1, <1>2 DEF AboutApplied, ToSet, QueueInv, OrderInv
    <3> QED
      BY <2>2, <3>1
  <2>4. Max(AboutApplied(k) \cup {e}) = e
    BY <2>2, <2>3, GreatestOf
  <2>5. data'[k] = IF Commands[e].type = "put" THEN Commands[e].value ELSE None
    BY <1>2, <1>3, <1>6 DEF AfterCommand
  <2>6. Commands[e].type \in {"put", "delete"}
    BY <1>2, CommandTyped
  <2> QED
    BY <2>1, <2>4, <2>5, <2>6 DEF Says
<1> QED
  BY <1>5, <1>6 DEF DataInv

LEMMA NextData ==
    ASSUME QueueInv, CommitTypes, DataInv, [Next]_vars
    PROVE  DataInv'
<1>1. ASSUME UNCHANGED <<data, applied>>
      PROVE  DataInv'
  BY <1>1 DEF DataInv, AboutApplied
<1>2. lastApplied \in Nat
  BY Numbers DEF CommitTypes
<1>3. CASE Apply
  BY <1>3, ApplyData
<1>4. ApplyEntry => UNCHANGED <<data, applied>>
  BY <1>2, ApplyEntryQueue
<1> QED
  BY <1>1, <1>3, <1>4, QueueSteps DEF queueVars, machineVars, SendEntry, TakeToApply

-----------------------------------------------------------------------------
(* Everything together *)

NodeInv ==
    /\ RoleTypes /\ FlagTypes /\ MessageTypes /\ CommitTypes
    /\ QueueInv
    /\ DataInv

LEMMA InitNode == Init => NodeInv
<1> SUFFICES ASSUME Init
             PROVE  NodeInv
  OBVIOUS
<1>1. RoleTypes /\ FlagTypes
  BY DEF Init, RoleTypes, FlagTypes, Timer
<1>2. MessageTypes /\ CommitTypes
  BY Numbers, NodeLoopAssumption DEF Init, MessageTypes, CommitTypes
<1>3. ToSet(applied) = {} /\ ToSet(applyCh) = {} /\ DOMAIN applied = {} /\ DOMAIN applyCh = {}
  BY DEF Init, ToSet
<1>4. QueueTypes
  <2>1. <<>> \in Seq(Index) /\ Len(<<>>) = 0 /\ 0 <= ApplyCap
    BY NodeLoopAssumption
  <2> QED
    BY <2>1 DEF Init, QueueTypes
<1>5. CountedInv /\ OrderInv
  BY <1>3 DEF Init, CountedInv, OrderInv, NoEntry
<1>6. GivenInv
  <2>1. \A n \in Index : ~(n <= lastApplied)
    BY Numbers DEF Init
  <2> QED
    BY <1>3, <2>1 DEF Init, GivenInv, Given
<1>7. DataInv
  <2>1. \A k \in Key : AboutApplied(k) = {}
    BY <1>3 DEF AboutApplied
  <2> QED
    BY <2>1 DEF Init, DataInv, Says
<1> QED
  BY <1>1, <1>2, <1>4, <1>5, <1>6, <1>7 DEF NodeInv, QueueInv

LEMMA NodeAlways == Spec => []NodeInv
<1>1. NodeInv /\ [Next]_vars => NodeInv'
  <2> SUFFICES ASSUME NodeInv, [Next]_vars
               PROVE  NodeInv'
    OBVIOUS
  <2> QED
    BY NextRoles, NextFlags, NextMessages, NextCommit, NextQueue, NextData DEF NodeInv
<1> QED
  BY <1>1, InitNode, PTL DEF Spec

\* The types hold for any log and capacities: no goroutine counts or commits an entry beyond the log
\* (raft.go:521-541, 586-599), and no channel holds more than its capacity.
THEOREM NodeTypesAlways == Spec => []TypeOK
<1>1. AtType /\ NodeInv => TypeOK
  BY DEF AtType, Places, NodeInv, RoleTypes, FlagTypes, MessageTypes, CommitTypes, QueueInv,
     QueueTypes, Timer, TypeOK
<1> QED
  BY <1>1, InitPlaces, NextTime, NodeAlways, PTL DEF Spec

LEMMA ConcatFacts ==
    ASSUME NEW s \in Seq(Index), NEW t \in Seq(Index)
    PROVE  /\ s \o t \in Seq(Index) /\ Len(s) \in Nat /\ Len(t) \in Nat
           /\ DOMAIN s = 1..Len(s) /\ DOMAIN t = 1..Len(t)
           /\ DOMAIN (s \o t) = 1..(Len(s) + Len(t))
           /\ \A i \in DOMAIN s : i \in DOMAIN (s \o t) /\ (s \o t)[i] = s[i]
           /\ \A j \in DOMAIN t : Len(s) + j \in DOMAIN (s \o t) /\ (s \o t)[Len(s) + j] = t[j]
           /\ \A n \in DOMAIN (s \o t) :
                 \/ n \in DOMAIN s
                 \/ ~(n <= Len(s)) /\ n - Len(s) \in DOMAIN t /\ (s \o t)[n] = t[n - Len(s)]
OBVIOUS

Increasing(s) == \A i, j \in DOMAIN s : i < j => s[i] < s[j]

LEMMA ConcatIncreasing ==
    ASSUME NEW s \in Seq(Index), NEW t \in Seq(Index), Increasing(s), Increasing(t),
           \A i \in DOMAIN s, j \in DOMAIN t : s[i] < t[j]
    PROVE  /\ s \o t \in Seq(Index)
           /\ Increasing(s \o t)
           /\ \A n : n \in ToSet(s \o t) <=> n \in ToSet(s) \/ n \in ToSet(t)
<1> DEFINE u == s \o t
<1>1. ASSUME NEW i \in DOMAIN u, NEW j \in DOMAIN u, i < j
      PROVE  u[i] < u[j]
  <2>1. CASE j \in DOMAIN s
    <3>1. i \in DOMAIN s
      BY <1>1, <2>1, ConcatFacts
    <3> QED
      BY <1>1, <2>1, <3>1, ConcatFacts DEF Increasing
  <2>2. CASE j \notin DOMAIN s /\ i \in DOMAIN s
    BY <2>2, ConcatFacts
  <2>3. CASE j \notin DOMAIN s /\ i \notin DOMAIN s
    <3>1. /\ i - Len(s) \in DOMAIN t /\ j - Len(s) \in DOMAIN t
          /\ u[i] = t[i - Len(s)] /\ u[j] = t[j - Len(s)]
      BY <2>3, ConcatFacts
    <3>2. i - Len(s) < j - Len(s)
      BY <1>1, ConcatFacts
    <3> QED
      BY <3>1, <3>2 DEF Increasing
  <2> QED
    BY <2>1, <2>2, <2>3
<1>2. ASSUME NEW n, n \in ToSet(u)
      PROVE  n \in ToSet(s) \/ n \in ToSet(t)
  <2>1. PICK i \in DOMAIN u : n = u[i]
    BY <1>2 DEF ToSet
  <2>2. CASE i \in DOMAIN s
    BY <2>1, <2>2, ConcatFacts DEF ToSet
  <2>3. CASE i \notin DOMAIN s
    <3>1. i - Len(s) \in DOMAIN t /\ u[i] = t[i - Len(s)]
      BY <2>3, ConcatFacts
    <3> QED
      BY <2>1, <3>1 DEF ToSet
  <2> QED
    BY <2>2, <2>3
<1>3. ASSUME NEW n, n \in ToSet(s)
      PROVE  n \in ToSet(u)
  BY <1>3, ConcatFacts DEF ToSet
<1>4. ASSUME NEW n, n \in ToSet(t)
      PROVE  n \in ToSet(u)
  <2>1. PICK j \in DOMAIN t : n = t[j]
    BY <1>4 DEF ToSet
  <2>2. Len(s) + j \in DOMAIN u /\ u[Len(s) + j] = t[j]
    BY ConcatFacts
  <2> QED
    BY <2>1, <2>2 DEF ToSet
<1> QED
  BY <1>1, <1>2, <1>3, <1>4, ConcatFacts DEF Increasing

\* However many goroutines deliver messages and commit, and however run and applyLoop race for
\* applyCh, the state machine is given the committed entries in order and once, less those that run
\* has taken, for any log and any capacity of the channel (raft.go:224, 586-599, 622-646).
THEOREM EntriesReachMachineOnceAlways == Spec => []EntriesReachMachineOnce
<1>1. ASSUME NodeInv
      PROVE  EntriesReachMachineOnce
  <2> DEFINE mid == IF applying = NoEntry THEN <<>> ELSE <<applying>>
             given == applied \o mid \o applyCh
  <2>1. applied \in Seq(Index) /\ applyCh \in Seq(Index) /\ applying \in Index \cup {NoEntry}
    BY <1>1 DEF NodeInv, QueueInv, QueueTypes
  <2>2. /\ mid \in Seq(Index)
        /\ \A j \in DOMAIN mid : j = 1 /\ applying # NoEntry /\ mid[j] = applying
        /\ applying # NoEntry => 1 \in DOMAIN mid
    BY <2>1
  <2>3. Increasing(mid) /\ \A n : n \in ToSet(mid) <=> applying # NoEntry /\ n = applying
    <3>1. Increasing(mid)
      <4>1. ~(1 < 1)
        OBVIOUS
      <4> QED
        BY <2>2, <4>1 DEF Increasing
    <3>2. \A n : n \in ToSet(mid) <=> applying # NoEntry /\ n = applying
      BY <2>2 DEF ToSet
    <3> QED
      BY <3>1, <3>2
  <2> HIDE DEF mid
  <2>4. Increasing(applied) /\ Increasing(applyCh)
    BY <1>1 DEF NodeInv, QueueInv, OrderInv, Increasing
  <2>5. /\ applied \o mid \in Seq(Index) /\ Increasing(applied \o mid)
        /\ \A n : n \in ToSet(applied \o mid) <=> n \in ToSet(applied) \/ n \in ToSet(mid)
    <3>1. \A i \in DOMAIN applied, j \in DOMAIN mid : applied[i] < mid[j]
      BY <1>1, <2>2 DEF NodeInv, QueueInv, OrderInv
    <3> QED
      BY <2>1, <2>2, <2>3, <2>4, <3>1, ConcatIncreasing
  <2>6. /\ given \in Seq(Index) /\ Increasing(given)
        /\ \A n : n \in ToSet(given) <=> n \in ToSet(applied \o mid) \/ n \in ToSet(applyCh)
    <3>1. ASSUME NEW i \in DOMAIN (applied \o mid), NEW j \in DOMAIN applyCh
          PROVE  (applied \o mid)[i] < applyCh[j]
      <4>1. CASE i \in DOMAIN applied
        BY <1>1, <2>1, <2>2, <4>1, ConcatFacts DEF NodeInv, QueueInv, OrderInv
      <4>2. CASE i \notin DOMAIN applied
        <5>1. i - Len(applied) \in DOMAIN mid /\ (applied \o mid)[i] = mid[i - Len(applied)]
          BY <2>1, <2>2, <4>2, ConcatFacts
        <5> QED
          BY <1>1, <2>2, <5>1 DEF NodeInv, QueueInv, OrderInv
      <4> QED
        BY <4>1, <4>2
    <3> QED
      BY <2>1, <2>4, <2>5, <3>1, ConcatIncreasing
  <2>7. \A n \in Index : n \in ToSet(given) <=> Given(n)
    BY <2>3, <2>5, <2>6 DEF Given
  <2>8. ToSet(given) \subseteq Index
    <3> HIDE DEF given
    <3> QED
      BY <2>6, AddedLast DEF ToSet
  <2>9. \A n : n \in LogLessTaken(lastApplied) <=> n \in Index /\ n <= lastApplied /\ n \notin taken
    BY <1>1, Numbers DEF NodeInv, CommitTypes, LogLessTaken, Index
  <2>10. ToSet(given) = LogLessTaken(lastApplied)
    <3> HIDE DEF given
    <3> QED
      BY <1>1, <2>7, <2>8, <2>9 DEF NodeInv, QueueInv, GivenInv
  <2> QED
    BY <2>6, <2>10 DEF EntriesReachMachineOnce, Increasing, mid
<1>2. NodeInv => EntriesReachMachineOnce
  BY <1>1
<1> QED
  BY <1>2, NodeAlways, PTL

\* The state machine holds of each key what the last command about it says, up to the last entry
\* applied and but for the entries that run took, for any log (statemachine.go:49-101).
THEOREM MachineAlwaysFollowsLog == Spec => []MachineFollowsLog
<1>1. ASSUME NodeInv, NEW k \in Key
      PROVE  LET last  == IF applied = <<>> THEN 0 ELSE Last(applied)
                 about == {i \in LogLessTaken(last) : Commands[i].key = k}
             IN  data[k] = Says(about)
  <2>1. PICK last : last = IF applied = <<>> THEN 0 ELSE Last(applied)
    OBVIOUS
  <2>2. applied \in Seq(Index) /\ lastApplied \in Nat /\ lastApplied <= Len(Commands)
    BY <1>1, Numbers DEF NodeInv, QueueInv, QueueTypes, CommitTypes
  <2>3. \A i : i \in ToSet(applied) <=> i \in LogLessTaken(last)
    <3>1. CASE applied = <<>>
      BY <2>1, <3>1 DEF ToSet, LogLessTaken
    <3>2. CASE applied # <<>>
      <4>1. last \in Index /\ last \in ToSet(applied)
        BY <2>2, <2>1, <3>2 DEF Last, ToSet
      <4>2. ASSUME NEW i \in ToSet(applied)
            PROVE  i \in Index /\ i <= last /\ i \notin taken /\ i <= lastApplied
        <5>1. PICK p \in DOMAIN applied : i = applied[p]
          BY DEF ToSet
        <5>2. i \in Index
          BY <2>2, <5>1, AddedLast, <4>1
        <5>3. i \notin taken /\ i <= lastApplied
          BY <1>1, <4>2, <5>2 DEF NodeInv, QueueInv, GivenInv, Given
        <5>4. p = Len(applied) \/ (p < Len(applied) /\ Len(applied) \in DOMAIN applied)
          BY <2>2, <3>2
        <5>5. i = last \/ i < last
          BY <1>1, <2>1, <3>2, <5>1, <5>4 DEF NodeInv, QueueInv, OrderInv, Last
        <5> QED
          <6>1. i \in Nat /\ last \in Nat
            BY <4>1, <5>2, Numbers
          <6> QED
            BY <5>2, <5>3, <5>5, <6>1
      <4>3. ASSUME NEW i \in Index, i <= last, i \notin taken
            PROVE  i \in ToSet(applied)
        <5>1. last <= lastApplied
          BY <4>1, <4>2
        <5>2. i <= lastApplied
          BY <2>2, <4>1, <4>3, <5>1, Numbers
        <5>3. Given(i)
          BY <1>1, <4>3, <5>2 DEF NodeInv, QueueInv, GivenInv
        <5>4. PICK p \in DOMAIN applied : last = applied[p]
          BY <4>1 DEF ToSet
        <5>5. ~(last < i)
          BY <4>1, <4>3, Numbers
        <5>6. applying # NoEntry => i # applying
          BY <1>1, <5>4, <5>5 DEF NodeInv, QueueInv, OrderInv
        <5>7. i \notin ToSet(applyCh)
          BY <1>1, <5>4, <5>5 DEF NodeInv, QueueInv, OrderInv, ToSet
        <5> QED
          BY <5>3, <5>6, <5>7 DEF Given
      <4>4. \A i : i \in LogLessTaken(last) <=> i \in Index /\ i <= last /\ i \notin taken
        BY <4>1, Numbers DEF LogLessTaken, Index
      <4> QED
        BY <4>2, <4>3, <4>4
    <3> QED
      BY <3>1, <3>2
  <2>4. AboutApplied(k) = {i \in LogLessTaken(last) : Commands[i].key = k}
    BY <2>3 DEF AboutApplied
  <2> QED
    BY <1>1, <2>4, <2>1 DEF NodeInv, DataInv
<1>2. NodeInv => MachineFollowsLog
  BY <1>1 DEF MachineFollowsLog, Says
<1> QED
  BY <1>2, NodeAlways, PTL

=============================================================================
