-------------------------------- MODULE Raft --------------------------------
(***************************************************************************)
(* The consensus node of src/internal/raft/raft.go, one copy per member of *)
(* ClusterNodes, and the HTTP transport between them.                      *)
(*                                                                         *)
(* Every handler of the code runs under n.mu, so a handler is one action.  *)
(* A message is sent by a goroutine of its own and posted at most once, so *)
(* the network is a bag: messages overtake each other and may be lost (a   *)
(* failed POST, a full channel, a ProcessMessage that finds a tick pending *)
(* and drops the message) but the transport never duplicates one.          *)
(*                                                                         *)
(* Time is not modelled: a tick may reach a node at any moment.  A log is  *)
(* the slice n.log without the placeholder at index 0, so Len(log[n]) is   *)
(* the code's len(n.log)-1.  The command of an entry is left out: term and *)
(* index identify the proposal it came from.                               *)
(***************************************************************************)
EXTENDS Naturals, Sequences, FiniteSets, Bags

CONSTANTS
    Server,      \* config.ClusterNodes
    None,        \* the empty VotedFor
    MaxTerm,     \* bound: no election starts a term above this one
    MaxLog,      \* bound: entries in a log
    MaxNet       \* bound: messages in flight

ASSUME ServerAssumption ==
    /\ IsFiniteSet(Server)
    /\ None \notin Server

ASSUME BoundAssumption ==
    /\ MaxTerm \in Nat
    /\ MaxLog \in Nat
    /\ MaxNet \in Nat

VARIABLES
    currentTerm,    \* persistentState.CurrentTerm
    votedFor,       \* persistentState.VotedFor
    state,          \* n.state
    log,            \* n.log[1:]
    commitIndex,    \* n.commitIndex
    lastApplied,    \* n.lastApplied
    applied,        \* the entries sent on n.applyCh, in order
    votesReceived,  \* n.votesReceived
    nextIndex,      \* leaderState.NextIndex
    matchIndex,     \* leaderState.MatchIndex
    net,            \* bag of messages in flight
    votes,          \* history: every vote ever cast
    elected         \* history: every <<term, leader>> ever elected

serverVars == <<currentTerm, votedFor, state>>
logVars == <<log, commitIndex, lastApplied, applied>>
leaderVars == <<nextIndex, matchIndex>>
historyVars == <<votes, elected>>
vars == <<serverVars, logVars, votesReceived, leaderVars, net, historyVars>>

States == {"Follower", "Candidate", "Leader"}
Entry == [term : Nat, index : Nat]
Vote == [voter : Server, term : Nat, for : Server]

RequestVoteMsg ==
    [type : {"RequestVote"}, term : Nat, from : Server, to : Server,
     lastLogIndex : Nat, lastLogTerm : Nat]
RequestVoteResponseMsg ==
    [type : {"RequestVoteResponse"}, term : Nat, from : Server, to : Server,
     voteGranted : BOOLEAN]
AppendEntriesMsg ==
    [type : {"AppendEntries"}, term : Nat, from : Server, to : Server,
     prevLogIndex : Nat, prevLogTerm : Nat, entries : Seq(Entry),
     leaderCommit : Nat]
AppendEntriesResponseMsg ==
    [type : {"AppendEntriesResponse"}, term : Nat, from : Server, to : Server,
     success : BOOLEAN, matchIndex : Nat]
Message ==
    RequestVoteMsg \cup RequestVoteResponseMsg \cup AppendEntriesMsg
        \cup AppendEntriesResponseMsg

-----------------------------------------------------------------------------
(* Helpers *)

Smaller(a, b) == IF a < b THEN a ELSE b

Others(n) == Server \ {n}

\* getLastLogInfo: the entry's own Index field, which need not be its position
LastIndex(n) == IF log[n] = <<>> THEN 0 ELSE log[n][Len(log[n])].index
LastTerm(n) == IF log[n] = <<>> THEN 0 ELSE log[n][Len(log[n])].term

NeededVotes == Cardinality(Server) \div 2 + 1

\* The network once the messages of `in' have been taken and those of `out' sent
Deliver(in, out) == (net (-) SetToBag(in)) (+) SetToBag(out)
Exchange(in, out) ==
    /\ net' = Deliver(in, out)
    /\ BagCardinality(net') <= MaxNet

\* Mutant: prevLogIndex names the first entry sent, not the one before it
AppendEntriesFrom(n, p, next, entryLog, commit) ==
    [type |-> "AppendEntries", term |-> currentTerm[n], from |-> n, to |-> p,
     prevLogIndex |-> next, prevLogTerm |-> 0,
     entries |-> SubSeq(entryLog, next, Len(entryLog)),
     leaderCommit |-> commit]
\* The message that sendHeartbeats, sendLogEntries and the retry in
\* handleAppendEntriesResponse all build for peer p.  The code puts a slice of n.log into it, which
\* a goroutine encodes once n.mu is free (raft.go:348-362).  Here the entries are copied at once:
\* left out is that the node, no longer leader, may have cut its log and appended a new leader's
\* entries to the same array before the goroutine comes to encode.
AppendEntries(n, p, next, entryLog, commit) ==
    [type |-> "AppendEntries", term |-> currentTerm[n], from |-> n, to |-> p,
     prevLogIndex |-> next - 1,
     prevLogTerm |-> IF next - 1 \in 1..Len(entryLog)
                       THEN entryLog[next - 1].term ELSE 0,
     entries |-> SubSeq(entryLog, next, Len(entryLog)),
     leaderCommit |-> commit]

\* sendHeartbeats / sendLogEntries
Broadcast(n, nexts, entryLog, commit) ==
    {AppendEntries(n, p, nexts[p], entryLog, commit) : p \in Others(n)}

\* startElection: what it sends, at the given term
VoteRequests(n, term) ==
    {[type |-> "RequestVote", term |-> term, from |-> n, to |-> p,
      lastLogIndex |-> LastIndex(n), lastLogTerm |-> LastTerm(n)]
        : p \in Others(n)}

\* notifyReady: commit up to c and queue for the state machine every entry of
\* entryLog that has not been queued before
CommitAndApply(n, entryLog, c) ==
    /\ commitIndex' = [commitIndex EXCEPT ![n] = c]
    /\ IF lastApplied[n] < c
         THEN /\ lastApplied' = [lastApplied EXCEPT ![n] = c]
              /\ applied' = [applied EXCEPT ![n] =
                    @ \o SubSeq(entryLog, lastApplied[n] + 1,
                                Smaller(c, Len(entryLog)))]
         ELSE UNCHANGED <<lastApplied, applied>>
-----------------------------------------------------------------------------
(* NewNode *)

Init ==
    /\ currentTerm = [n \in Server |-> 0]
    /\ votedFor = [n \in Server |-> None]
    /\ state = [n \in Server |-> "Follower"]
    /\ log = [n \in Server |-> <<>>]
    /\ commitIndex = [n \in Server |-> 0]
    /\ lastApplied = [n \in Server |-> 0]
    /\ applied = [n \in Server |-> <<>>]
    /\ votesReceived = [n \in Server |-> 0]
    /\ nextIndex = [n \in Server |-> [p \in Server |-> 1]]
    /\ matchIndex = [n \in Server |-> [p \in Server |-> 0]]
    /\ net = EmptyBag
    /\ votes = {}
    /\ elected = {}

-----------------------------------------------------------------------------
(* tick *)

\* A follower's election timer fires: becomeCandidate
BecomeCandidate(n) ==
    /\ state[n] = "Follower"
    /\ currentTerm[n] < MaxTerm
    /\ state' = [state EXCEPT ![n] = "Candidate"]
    /\ currentTerm' = [currentTerm EXCEPT ![n] = @ + 1]
    /\ votedFor' = [votedFor EXCEPT ![n] = n]
    /\ votesReceived' = [votesReceived EXCEPT ![n] = 1]
    /\ votes' = votes \cup {[voter |-> n, term |-> currentTerm'[n], for |-> n]}
    /\ Exchange({}, VoteRequests(n, currentTerm'[n]))
    /\ UNCHANGED <<logVars, leaderVars, elected>>

\* A candidate's election timer fires: the requests go out again, for the same
\* term, and the count of votes starts over
RestartElection(n) ==
    /\ state[n] = "Candidate"
    /\ votesReceived' = [votesReceived EXCEPT ![n] = 1]
    /\ Exchange({}, VoteRequests(n, currentTerm[n]))
    /\ UNCHANGED <<serverVars, logVars, leaderVars, historyVars>>

\* A leader's heartbeat (or leftover election) timer fires
SendHeartbeats(n) ==
    /\ state[n] = "Leader"
    /\ Exchange({}, Broadcast(n, nextIndex[n], log[n], commitIndex[n]))
    /\ UNCHANGED <<serverVars, logVars, votesReceived, leaderVars, historyVars>>

Tick(n) == BecomeCandidate(n) \/ RestartElection(n) \/ SendHeartbeats(n)

-----------------------------------------------------------------------------
(* RequestVote *)

VoteResponse(m, term, granted) ==
    [type |-> "RequestVoteResponse", term |-> term, from |-> m.to,
     to |-> m.from, voteGranted |-> granted]

\* The term check of handleRequestVote and handleAppendEntries, for the receiver
\* of m.  A receiver already in the message's term keeps its state and its vote.
VoteAfterTermCheck(m) ==
    IF m.term > currentTerm[m.to] THEN None ELSE votedFor[m.to]
\* Mutant: a higher term does not end a leadership
StateKept(m) == state[m.to]
StateAfterTermCheck(m) ==
    IF m.term > currentTerm[m.to] THEN "Follower" ELSE state[m.to]

UpToDate(m) ==
    \/ m.lastLogTerm > LastTerm(m.to)
    \/ /\ m.lastLogTerm = LastTerm(m.to)
       /\ m.lastLogIndex >= LastIndex(m.to)
\* Mutant: the vote already cast in this term is not looked at
GrantsVoteTwice(m) == UpToDate(m)
GrantsVote(m) ==
    /\ VoteAfterTermCheck(m) \in {None, m.from}
    /\ UpToDate(m)

RejectStaleRequestVote(m) ==
    /\ m.type = "RequestVote"
    /\ m.term < currentTerm[m.to]
    /\ Exchange({m}, {VoteResponse(m, currentTerm[m.to], FALSE)})
    /\ UNCHANGED <<serverVars, logVars, votesReceived, leaderVars, historyVars>>

HandleRequestVote(m) ==
    LET n == m.to
        granted == GrantsVote(m)
    IN  /\ m.type = "RequestVote"
        /\ m.term >= currentTerm[n]
        /\ currentTerm' = [currentTerm EXCEPT ![n] = m.term]
        /\ state' = [state EXCEPT ![n] = StateAfterTermCheck(m)]
        /\ votedFor' = [votedFor EXCEPT ![n] =
                           IF granted THEN m.from ELSE VoteAfterTermCheck(m)]
        /\ votes' = IF granted
                      THEN votes \cup {[voter |-> n, term |-> m.term, for |-> m.from]}
                      ELSE votes
        /\ Exchange({m}, {VoteResponse(m, m.term, granted)})
        /\ UNCHANGED <<logVars, votesReceived, leaderVars, elected>>

\* An answer of a higher term makes a candidate or leader step down.  The vote
\* it holds is not cleared.
StepDown(m) ==
    /\ \/ m.type = "RequestVoteResponse" /\ state[m.to] = "Candidate"
       \/ m.type = "AppendEntriesResponse" /\ state[m.to] = "Leader"
    /\ m.term > currentTerm[m.to]
    /\ currentTerm' = [currentTerm EXCEPT ![m.to] = m.term]
    /\ state' = [state EXCEPT ![m.to] = "Follower"]
    /\ Exchange({m}, {})
    /\ UNCHANGED <<votedFor, logVars, votesReceived, leaderVars, historyVars>>

\* An answer that handleRequestVoteResponse or handleAppendEntriesResponse ignores
IgnoreResponse(m) ==
    /\ \/ /\ m.type = "RequestVoteResponse"
          /\ \/ state[m.to] # "Candidate"
             \/ m.term < currentTerm[m.to]
             \/ m.term = currentTerm[m.to] /\ ~m.voteGranted
       \/ /\ m.type = "AppendEntriesResponse"
          /\ state[m.to] # "Leader" \/ m.term < currentTerm[m.to]
    /\ Exchange({m}, {})
    /\ UNCHANGED <<serverVars, logVars, votesReceived, leaderVars, historyVars>>

\* A granted vote that leaves the candidate short of NeededVotes
CountVote(m) ==
    LET n == m.to
    IN  /\ m.type = "RequestVoteResponse"
        /\ state[n] = "Candidate"
        /\ m.term = currentTerm[n]
        /\ m.voteGranted
        /\ votesReceived[n] + 1 < NeededVotes
        /\ votesReceived' = [votesReceived EXCEPT ![n] = @ + 1]
        /\ Exchange({m}, {})
        /\ UNCHANGED <<serverVars, logVars, leaderVars, historyVars>>

\* A granted vote that reaches NeededVotes: becomeLeader
BecomeLeader(m) ==
    LET n == m.to
    IN  /\ m.type = "RequestVoteResponse"
        /\ state[n] = "Candidate"
        /\ m.term = currentTerm[n]
        /\ m.voteGranted
        /\ votesReceived[n] + 1 >= NeededVotes
        /\ votesReceived' = [votesReceived EXCEPT ![n] = @ + 1]
        /\ state' = [state EXCEPT ![n] = "Leader"]
        /\ nextIndex' = [nextIndex EXCEPT ![n] =
                            [p \in Server |-> Len(log[n]) + 1]]
        /\ matchIndex' = [matchIndex EXCEPT ![n] = [p \in Server |-> 0]]
        /\ elected' = elected \cup {<<currentTerm[n], n>>}
        /\ Exchange({m}, Broadcast(n, nextIndex'[n], log[n], commitIndex[n]))
        /\ UNCHANGED <<currentTerm, votedFor, logVars, votes>>

-----------------------------------------------------------------------------
(* AppendEntries *)

AppendResponse(m, term, success, match) ==
    [type |-> "AppendEntriesResponse", term |-> term, from |-> m.to,
     to |-> m.from, success |-> success, matchIndex |-> match]

RejectStaleAppendEntries(m) ==
    /\ m.type = "AppendEntries"
    /\ m.term < currentTerm[m.to]
    /\ Exchange({m}, {AppendResponse(m, currentTerm[m.to], FALSE,
                                     commitIndex[m.to])})
    /\ UNCHANGED <<serverVars, logVars, votesReceived, leaderVars, historyVars>>

AdoptTerm(m) ==
    /\ currentTerm' = [currentTerm EXCEPT ![m.to] = m.term]
    /\ votedFor' = [votedFor EXCEPT ![m.to] = VoteAfterTermCheck(m)]
    /\ state' = [state EXCEPT ![m.to] = StateAfterTermCheck(m)]

PrevMatches(m) ==
    m.prevLogIndex > 0 =>
        /\ m.prevLogIndex <= Len(log[m.to])
        /\ log[m.to][m.prevLogIndex].term = m.prevLogTerm

RejectPrevMismatch(m) ==
    /\ m.type = "AppendEntries"
    /\ m.term >= currentTerm[m.to]
    /\ ~PrevMatches(m)
    /\ AdoptTerm(m)
    /\ Exchange({m}, {AppendResponse(m, m.term, FALSE, commitIndex[m.to])})
    /\ UNCHANGED <<logVars, votesReceived, leaderVars, historyVars>>

\* Positions of the receiver's log where an entry of m carries another term
Conflicts(m) ==
    {i \in m.prevLogIndex + 1 .. Len(log[m.to]) :
        /\ i - m.prevLogIndex <= Len(m.entries)
        /\ log[m.to][i].term # m.entries[i - m.prevLogIndex].term}

\* The log is cut at the first conflict, then ALL entries of the message are
\* appended at its end, those it already holds included
BeforeConflict(m) == {i \in 1..Len(log[m.to]) : \A j \in Conflicts(m) : i < j}
LogAfterAppend(m) ==
    SubSeq(log[m.to], 1, Cardinality(BeforeConflict(m))) \o m.entries

\* Mutant: the position matched, counted from 0
AckedOneLess(m) == m.prevLogIndex + Len(m.entries) - 1
\* Mutant: the position to send next instead of the position matched
AckedNext(m) == m.prevLogIndex + Len(m.entries) + 1
AckedIndex(m) == m.prevLogIndex + Len(m.entries)

AcceptAppendEntries(m) ==
    LET n == m.to
        newLog == LogAfterAppend(m)
    IN  /\ m.type = "AppendEntries"
        /\ m.term >= currentTerm[n]
        /\ PrevMatches(m)
        /\ Len(newLog) <= MaxLog
        /\ AdoptTerm(m)
        /\ log' = [log EXCEPT ![n] = newLog]
        /\ IF m.leaderCommit > commitIndex[n]
             THEN CommitAndApply(n, newLog, Smaller(m.leaderCommit, Len(newLog)))
             ELSE UNCHANGED <<commitIndex, lastApplied, applied>>
        /\ Exchange({m}, {AppendResponse(m, m.term, TRUE, AckedIndex(m))})
        /\ UNCHANGED <<votesReceived, leaderVars, historyVars>>

\* checkCommitIndex: the highest position replicated on a majority, whatever
\* the term of its entry, or the old commit index if there is none above it
Replicated(n, match, i) ==
    Cardinality({p \in Others(n) : match[p] >= i}) + 1 > Cardinality(Server) \div 2
IsNewCommitIndex(n, match, commit) ==
    /\ commit = commitIndex[n] \/ Replicated(n, match, commit)
    /\ \A i \in commit + 1 .. Len(log[n]) : ~Replicated(n, match, i)

HandleAppendSuccess(m) ==
    LET n == m.to
        match == [matchIndex[n] EXCEPT ![m.from] = m.matchIndex]
        next == [nextIndex[n] EXCEPT ![m.from] = m.matchIndex + 1]
    IN  /\ m.type = "AppendEntriesResponse"
        /\ state[n] = "Leader"
        /\ m.term = currentTerm[n]
        /\ m.success
        /\ matchIndex' = [matchIndex EXCEPT ![n] = match]
        /\ nextIndex' = [nextIndex EXCEPT ![n] = next]
        /\ \E commit \in {commitIndex[n]} \cup (commitIndex[n] + 1 .. Len(log[n])) :
              /\ IsNewCommitIndex(n, match, commit)
              /\ CommitAndApply(n, log[n], commit)
              /\ Exchange({m}, IF commit > 0
                                 THEN Broadcast(n, next, log[n], commit)
                                 ELSE {})
        /\ UNCHANGED <<serverVars, log, votesReceived, historyVars>>

HandleAppendFailure(m) ==
    LET n == m.to
    IN  /\ m.type = "AppendEntriesResponse"
        /\ state[n] = "Leader"
        /\ m.term = currentTerm[n]
        /\ ~m.success
        /\ nextIndex' = [nextIndex EXCEPT ![n][m.from] = IF @ > 1 THEN @ - 1 ELSE @]
        /\ Exchange({m}, {AppendEntries(n, m.from, nextIndex'[n][m.from],
                                        log[n], commitIndex[n])})
        /\ UNCHANGED <<serverVars, logVars, votesReceived, matchIndex, historyVars>>

-----------------------------------------------------------------------------
(* Clients and the network *)

\* Propose
Propose(n) ==
    LET newLog == Append(log[n], [term |-> currentTerm[n], index |-> Len(log[n]) + 1])
    IN  /\ state[n] = "Leader"
        /\ Len(log[n]) < MaxLog
        /\ log' = [log EXCEPT ![n] = newLog]
        /\ Exchange({}, Broadcast(n, nextIndex[n], newLog, commitIndex[n]))
        /\ UNCHANGED <<serverVars, commitIndex, lastApplied, applied,
                       votesReceived, leaderVars, historyVars>>

\* Transport.Send fails, or ProcessMessage drops the message
Lose(m) ==
    /\ Exchange({m}, {})
    /\ UNCHANGED <<serverVars, logVars, votesReceived, leaderVars, historyVars>>

Receive(m) ==
    \/ RejectStaleRequestVote(m)
    \/ HandleRequestVote(m)
    \/ StepDown(m)
    \/ IgnoreResponse(m)
    \/ CountVote(m)
    \/ BecomeLeader(m)
    \/ RejectStaleAppendEntries(m)
    \/ RejectPrevMismatch(m)
    \/ AcceptAppendEntries(m)
    \/ HandleAppendSuccess(m)
    \/ HandleAppendFailure(m)

Next ==
    \/ \E n \in Server : Tick(n) \/ Propose(n)
    \/ \E m \in BagToSet(net) : Receive(m) \/ Lose(m)

Spec == Init /\ [][Next]_vars

-----------------------------------------------------------------------------
(* Properties *)

TypeOK ==
    /\ currentTerm \in [Server -> Nat]
    /\ votedFor \in [Server -> Server \cup {None}]
    /\ state \in [Server -> States]
    /\ log \in [Server -> Seq(Entry)]
    /\ commitIndex \in [Server -> Nat]
    /\ lastApplied \in [Server -> Nat]
    /\ applied \in [Server -> Seq(Entry)]
    /\ votesReceived \in [Server -> Nat]
    /\ nextIndex \in [Server -> [Server -> Nat \ {0}]]
    /\ matchIndex \in [Server -> [Server -> Nat]]
    /\ BagToSet(net) \subseteq Message
    /\ votes \subseteq Vote
    /\ elected \subseteq Nat \X Server

\* Two elections of one term have one winner, however far apart they are
\* (raft.go:23).  Votes are counted per answer, not per voter, so this rests on
\* a majority needing no more than one vote besides the candidate's own.
ElectionSafety ==
    \A e, f \in elected : e[1] = f[1] => e[2] = f[2]

\* While a node leads a term its log only grows: no AppendEntries of that term
\* can reach it, although handleAppendEntries would let one overwrite the log.
LogKept(n) == SubSeq(log'[n], 1, Len(log[n])) = log[n]
LeaderAppendOnly ==
    [][\A n \in Server :
         state[n] = "Leader" /\ state'[n] = "Leader" /\ currentTerm'[n] = currentTerm[n]
           => LogKept(n)]_vars

Leads(n, term) == state[n] = "Leader" /\ currentTerm[n] = term

\* Whatever is in flight from the leader of a term is a section of the log that
\* leader has now, however late the message is (raft.go:341-361).
Reflected(m) ==
    m.type = "AppendEntries" /\ Leads(m.from, m.term) =>
        /\ m.prevLogIndex + Len(m.entries) <= Len(log[m.from])
        /\ \A i \in 1..Len(m.entries) : m.entries[i] = log[m.from][m.prevLogIndex + i]
AppendsReflectLeaderLog == \A m \in BagToSet(net) : Reflected(m)

\* A leader never credits a follower with entries it does not hold itself, nor
\* will when the acknowledgements in flight arrive, in whatever order: so
\* checkCommitIndex counts within the log and the slice sent next is one of the
\* log (raft.go:341-349, 779-780, 877).
AcksWithin(m) ==
    m.type = "AppendEntriesResponse" /\ m.success /\ Leads(m.to, m.term)
        => m.matchIndex <= Len(log[m.to])
CreditsWithin(n) ==
    state[n] = "Leader" =>
        \A p \in Others(n) : /\ matchIndex[n][p] <= Len(log[n])
                             /\ nextIndex[n][p] <= Len(log[n]) + 1
MatchWithinLeaderLog ==
    /\ \A n \in Server : CreditsWithin(n)
    /\ \A m \in BagToSet(net) : AcksWithin(m)

\* Entries queued for the state machines of two nodes are the same, position by
\* position (tests/raft_test.go:137).
StateMachineAgreement ==
    \A n, p \in Server : \A i \in 1..Len(applied[n]) :
        i <= Len(applied[p]) => applied[n][i] = applied[p][i]

-----------------------------------------------------------------------------
(* The inductive invariant behind ElectionSafety and the leader's log *)

SelfVote(n, term) == [voter |-> n, term |-> term, for |-> n]

\* A candidate or leader voted for itself in its term
ContenderVoted ==
    \A n \in Server : state[n] # "Follower" =>
        votedFor[n] = n /\ SelfVote(n, currentTerm[n]) \in votes

\* votedFor is the only vote a node cast in its term; it cast none above it
VotesRemembered ==
    \A v \in votes :
        /\ v.term <= currentTerm[v.voter]
        /\ v.term = currentTerm[v.voter] => votedFor[v.voter] = v.for

OneVotePerTerm ==
    \A v, w \in votes : v.voter = w.voter /\ v.term = w.term => v.for = w.for

\* Every message in flight is backed by votes or by an election
Backed(m) ==
    /\ m.from # m.to
    /\ m.type = "RequestVote" => SelfVote(m.from, m.term) \in votes
    /\ m.type = "RequestVoteResponse" /\ m.voteGranted =>
          [voter |-> m.from, term |-> m.term, for |-> m.to] \in votes
    /\ m.type = "AppendEntries" => <<m.term, m.from>> \in elected
    /\ m.type = "AppendEntriesResponse" /\ m.success => <<m.term, m.to>> \in elected
MessagesBacked == \A m \in BagToSet(net) : Backed(m)

\* A leader was elected with its own vote and somebody else's, and leads until
\* its term ends
ElectedBacked ==
    /\ \A e \in elected :
          /\ SelfVote(e[2], e[1]) \in votes
          /\ \E v \in Others(e[2]) : [voter |-> v, term |-> e[1], for |-> e[2]] \in votes
          /\ e[1] = currentTerm[e[2]] => state[e[2]] = "Leader"
    /\ \A n \in Server : state[n] = "Leader" => <<currentTerm[n], n>> \in elected

ElectionInv ==
    ContenderVoted /\ VotesRemembered /\ OneVotePerTerm /\ MessagesBacked /\ ElectedBacked
=============================================================================
