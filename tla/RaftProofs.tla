----------------------------- MODULE RaftProofs -----------------------------
(***************************************************************************)
(* What TLAPS proves of Raft, for every bound: the types and the elections *)
(* for every cluster, the replication of the leader's log for clusters of  *)
(* at most three nodes (a bigger cluster breaks it, see MCRaft).           *)
(***************************************************************************)
EXTENDS Raft, FiniteSetTheorems, SequenceTheorems, TLAPS

-----------------------------------------------------------------------------
(* The network *)

\* A message taken out of the network and messages put in: nothing else appears
LEMMA ExchangeBag ==
    ASSUME NEW in, NEW out, Exchange(in, out)
    PROVE  \A m \in BagToSet(net') : m \in BagToSet(net) \/ m \in out
<1>1. \A B1, B2 : BagToSet(B1 (+) B2) = BagToSet(B1) \cup BagToSet(B2)
  BY DEF BagToSet, (+)
<1>2. \A B1, B2 : BagToSet(B1 (-) B2) \subseteq BagToSet(B1)
  BY DEF BagToSet, (-)
<1>3. \A S : BagToSet(SetToBag(S)) = S
  BY DEF BagToSet, SetToBag
<1> QED
  BY <1>1, <1>2, <1>3 DEF Deliver, Exchange

-----------------------------------------------------------------------------
(* Types of the operators *)

LEMMA SubSeqType ==
    ASSUME NEW S, NEW s \in Seq(S), NEW a \in Nat \ {0}, NEW b \in Nat,
           b <= Len(s)
    PROVE  SubSeq(s, a, b) \in Seq(S)
<1>1. Len(s) \in Nat
  BY LenProperties
<1>2. \A i \in a .. b : s[i] \in S
  BY <1>1, ElementOfSeq
<1> QED
  BY <1>2, SubSeqProperties

LEMMA AppendEntriesType ==
    ASSUME TypeOK, NEW n \in Server, NEW p \in Server, NEW next \in Nat \ {0},
           NEW entryLog \in Seq(Entry), NEW commit \in Nat
    PROVE  AppendEntries(n, p, next, entryLog, commit) \in AppendEntriesMsg
<1>1. Len(entryLog) \in Nat
  BY LenProperties
<1>2. SubSeq(entryLog, next, Len(entryLog)) \in Seq(Entry)
  BY <1>1, SubSeqType
<1>3. ASSUME next - 1 \in 1..Len(entryLog)
      PROVE  entryLog[next - 1].term \in Nat
  <2>1. entryLog[next - 1] \in Entry
    BY <1>3, ElementOfSeq
  <2> QED
    BY <2>1 DEF Entry
<1> QED
  BY <1>2, <1>3 DEF AppendEntries, AppendEntriesMsg, TypeOK

LEMMA BroadcastType ==
    ASSUME TypeOK, NEW n \in Server, NEW nexts \in [Server -> Nat \ {0}],
           NEW entryLog \in Seq(Entry), NEW commit \in Nat
    PROVE  Broadcast(n, nexts, entryLog, commit) \subseteq Message
BY AppendEntriesType DEF Broadcast, Others, Message

LEMMA LastType ==
    ASSUME TypeOK, NEW n \in Server
    PROVE  LastIndex(n) \in Nat /\ LastTerm(n) \in Nat
<1>1. ASSUME log[n] # <<>>
      PROVE  log[n][Len(log[n])] \in Entry
  <2>1. Len(log[n]) \in 1..Len(log[n])
    BY <1>1, EmptySeq DEF TypeOK
  <2> QED
    BY <2>1, ElementOfSeq DEF TypeOK
<1> QED
  BY <1>1 DEF LastIndex, LastTerm, Entry

LEMMA VoteRequestsType ==
    ASSUME TypeOK, NEW n \in Server, NEW term \in Nat
    PROVE  VoteRequests(n, term) \subseteq Message
BY LastType DEF VoteRequests, Others, Message, RequestVoteMsg

LEMMA LogAfterAppendType ==
    ASSUME TypeOK, NEW m \in AppendEntriesMsg
    PROVE  LogAfterAppend(m) \in Seq(Entry)
<1>1. log[m.to] \in Seq(Entry) /\ Len(log[m.to]) \in Nat
  BY LenProperties DEF TypeOK, AppendEntriesMsg
<1>2. IsFiniteSet(1..Len(log[m.to])) /\ Cardinality(1..Len(log[m.to])) = Len(log[m.to])
  <2>1. \A k \in Nat : IsFiniteSet(1..k) /\ Cardinality(1..k) = k
    BY FS_Interval
  <2> QED
    BY <1>1, <2>1
<1>3. BeforeConflict(m) \in SUBSET (1..Len(log[m.to]))
  BY DEF BeforeConflict
<1>4. Cardinality(BeforeConflict(m)) \in Nat /\ Cardinality(BeforeConflict(m)) <= Len(log[m.to])
  BY <1>2, <1>3, FS_Subset, FS_CardinalityType
<1>5. SubSeq(log[m.to], 1, Cardinality(BeforeConflict(m))) \in Seq(Entry)
  BY <1>1, <1>4, SubSeqType
<1> QED
  BY <1>5, ConcatProperties DEF LogAfterAppend, AppendEntriesMsg

LEMMA CommitAndApplyType ==
    ASSUME TypeOK, NEW n \in Server, NEW entryLog \in Seq(Entry), NEW c \in Nat,
           CommitAndApply(n, entryLog, c)
    PROVE  /\ commitIndex' \in [Server -> Nat]
           /\ lastApplied' \in [Server -> Nat]
           /\ applied' \in [Server -> Seq(Entry)]
<1>1. Smaller(c, Len(entryLog)) \in Nat /\ Smaller(c, Len(entryLog)) <= Len(entryLog)
  BY LenProperties DEF Smaller
<1>2. SubSeq(entryLog, lastApplied[n] + 1, Smaller(c, Len(entryLog))) \in Seq(Entry)
  BY <1>1, SubSeqType DEF TypeOK
<1>3. applied[n] \o SubSeq(entryLog, lastApplied[n] + 1, Smaller(c, Len(entryLog))) \in Seq(Entry)
  BY <1>2, ConcatProperties DEF TypeOK
<1>4. commitIndex' \in [Server -> Nat]
  BY DEF CommitAndApply, TypeOK
<1>5. CASE lastApplied[n] < c
  <2>1. lastApplied' = [lastApplied EXCEPT ![n] = c]
    BY <1>5 DEF CommitAndApply
  <2>2. lastApplied' \in [Server -> Nat]
    BY <2>1 DEF TypeOK
  <2>3. PICK s \in Seq(Entry) : applied' = [applied EXCEPT ![n] = s]
    BY <1>3, <1>5 DEF CommitAndApply
  <2>4. applied' \in [Server -> Seq(Entry)]
    BY <2>3 DEF TypeOK
  <2> QED
    BY <1>4, <2>2, <2>4
<1>6. CASE ~(lastApplied[n] < c)
  BY <1>4, <1>6 DEF CommitAndApply, TypeOK
<1> QED
  BY <1>5, <1>6

LEMMA TermCheckType ==
    ASSUME TypeOK, NEW m \in Message
    PROVE  /\ m.term \in Nat /\ m.from \in Server /\ m.to \in Server
           /\ VoteAfterTermCheck(m) \in Server \cup {None}
           /\ StateAfterTermCheck(m) \in States
BY DEF Message, RequestVoteMsg, RequestVoteResponseMsg, AppendEntriesMsg,
       AppendEntriesResponseMsg, VoteAfterTermCheck, StateAfterTermCheck, TypeOK, States

LEMMA MessageTypes ==
    ASSUME NEW m \in Message
    PROVE  /\ m.type = "RequestVote" => m \in RequestVoteMsg
           /\ m.type = "RequestVoteResponse" => m \in RequestVoteResponseMsg
           /\ m.type = "AppendEntries" => m \in AppendEntriesMsg
           /\ m.type = "AppendEntriesResponse" => m \in AppendEntriesResponseMsg
BY DEF Message, RequestVoteMsg, RequestVoteResponseMsg, AppendEntriesMsg,
       AppendEntriesResponseMsg
-----------------------------------------------------------------------------
(* Type correctness *)

LEMMA NetType ==
    ASSUME TypeOK, NEW in, NEW out, out \subseteq Message, Exchange(in, out)
    PROVE  BagToSet(net') \subseteq Message
BY ExchangeBag DEF TypeOK

LEMMA ResponseTypes ==
    ASSUME TypeOK, NEW m \in Message, NEW term \in Nat, NEW ok \in BOOLEAN,
           NEW match \in Nat
    PROVE  /\ VoteResponse(m, term, ok) \in Message
           /\ AppendResponse(m, term, ok, match) \in Message
BY TermCheckType DEF VoteResponse, AppendResponse, Message,
       RequestVoteResponseMsg, AppendEntriesResponseMsg

LEMMA TickType ==
    ASSUME TypeOK, NEW n \in Server, Tick(n)
    PROVE  TypeOK'
<1>1. CASE BecomeCandidate(n)
  <2>1. currentTerm' = [currentTerm EXCEPT ![n] = @ + 1] /\ currentTerm'[n] \in Nat
    BY <1>1 DEF BecomeCandidate, TypeOK
  <2>2. VoteRequests(n, currentTerm'[n]) \subseteq Message
    BY <2>1, VoteRequestsType
  <2>3. BagToSet(net') \subseteq Message
    BY <1>1, <2>2, ExchangeBag DEF BecomeCandidate, TypeOK
  <2>4. votes' \subseteq Vote
    BY <1>1, <2>1 DEF BecomeCandidate, TypeOK, Vote
  <2> QED
    BY <1>1, <2>1, <2>3, <2>4
    DEF BecomeCandidate, TypeOK, States, logVars, leaderVars
<1>2. CASE RestartElection(n)
  <2>1. BagToSet(net') \subseteq Message
    BY <1>2, VoteRequestsType, ExchangeBag DEF RestartElection, TypeOK
  <2> QED
    BY <1>2, <2>1
    DEF RestartElection, TypeOK, serverVars, logVars, leaderVars, historyVars
<1>3. CASE SendHeartbeats(n)
  <2>1. Broadcast(n, nextIndex[n], log[n], commitIndex[n]) \subseteq Message
    BY BroadcastType DEF TypeOK
  <2>2. BagToSet(net') \subseteq Message
    BY <1>3, <2>1, ExchangeBag DEF SendHeartbeats, TypeOK
  <2> QED
    BY <1>3, <2>2
    DEF SendHeartbeats, TypeOK, serverVars, logVars, leaderVars, historyVars
<1> QED
  BY <1>1, <1>2, <1>3 DEF Tick

LEMMA ProposeType ==
    ASSUME TypeOK, NEW n \in Server, Propose(n)
    PROVE  TypeOK'
<1> DEFINE newLog == Append(log[n], [term |-> currentTerm[n], index |-> Len(log[n]) + 1])
<1>1. newLog \in Seq(Entry)
  <2>1. [term |-> currentTerm[n], index |-> Len(log[n]) + 1] \in Entry
    BY LenProperties DEF TypeOK, Entry
  <2> QED
    BY <2>1, AppendProperties DEF TypeOK
<1>2. Broadcast(n, nextIndex[n], newLog, commitIndex[n]) \subseteq Message
  BY <1>1, BroadcastType DEF TypeOK
<1>3. BagToSet(net') \subseteq Message
  BY <1>2, ExchangeBag DEF Propose, TypeOK
<1> QED
  BY <1>1, <1>3 DEF Propose, TypeOK, serverVars, leaderVars, historyVars

LEMMA RequestVoteType ==
    ASSUME TypeOK, NEW m \in Message, RejectStaleRequestVote(m) \/ HandleRequestVote(m)
    PROVE  TypeOK'
<1>1. CASE RejectStaleRequestVote(m)
  <2>1. VoteResponse(m, currentTerm[m.to], FALSE) \in Message
    BY ResponseTypes, TermCheckType DEF TypeOK
  <2>2. BagToSet(net') \subseteq Message
    <3>1. Exchange({m}, {VoteResponse(m, currentTerm[m.to], FALSE)})
      BY <1>1 DEF RejectStaleRequestVote
    <3> QED
      BY <2>1, <3>1, NetType
  <2> QED
    BY <1>1, <2>2
    DEF RejectStaleRequestVote, TypeOK, serverVars, logVars, leaderVars, historyVars
<1>2. CASE HandleRequestVote(m)
  <2>1. GrantsVote(m) \in BOOLEAN
    BY DEF GrantsVote
  <2>2. VoteResponse(m, m.term, GrantsVote(m)) \in Message
    BY <2>1, ResponseTypes, TermCheckType
  <2>3. BagToSet(net') \subseteq Message
    <3>1. Exchange({m}, {VoteResponse(m, m.term, GrantsVote(m))})
      BY <1>2 DEF HandleRequestVote
    <3> QED
      BY <2>2, <3>1, NetType
  <2>4. m.to \in Server /\ m.from \in Server /\ m.term \in Nat
    BY TermCheckType
  <2>5. [voter |-> m.to, term |-> m.term, for |-> m.from] \in Vote
    BY <2>4 DEF Vote
  <2>6. votes' \subseteq Vote
    BY <1>2, <2>5 DEF HandleRequestVote, TypeOK
  <2> QED
    BY <1>2, <2>3, <2>4, <2>6, TermCheckType
    DEF HandleRequestVote, TypeOK, logVars, leaderVars
<1> QED
  BY <1>1, <1>2

LEMMA ResponseType ==
    ASSUME TypeOK, NEW m \in Message,
           StepDown(m) \/ IgnoreResponse(m) \/ CountVote(m) \/ BecomeLeader(m)
    PROVE  TypeOK'
<1>0. m.to \in Server /\ m.term \in Nat /\ Len(log[m.to]) \in Nat
  BY TermCheckType, LenProperties DEF TypeOK
<1>1. CASE StepDown(m)
  <2>1. BagToSet(net') \subseteq Message
    BY <1>1, ExchangeBag DEF StepDown, TypeOK
  <2> QED
    BY <1>0, <1>1, <2>1
    DEF StepDown, TypeOK, States, logVars, leaderVars, historyVars
<1>2. CASE IgnoreResponse(m)
  <2>1. BagToSet(net') \subseteq Message
    BY <1>2, ExchangeBag DEF IgnoreResponse, TypeOK
  <2> QED
    BY <1>2, <2>1
    DEF IgnoreResponse, TypeOK, serverVars, logVars, leaderVars, historyVars
<1>3. CASE CountVote(m)
  <2>1. BagToSet(net') \subseteq Message
    BY <1>3, ExchangeBag DEF CountVote, TypeOK
  <2>2. votesReceived' \in [Server -> Nat]
    BY <1>0, <1>3 DEF CountVote, TypeOK
  <2>3. UNCHANGED <<serverVars, logVars, leaderVars, historyVars>>
    BY <1>3 DEF CountVote
  <2> QED
    BY <2>1, <2>2, <2>3 DEF TypeOK, serverVars, logVars, leaderVars, historyVars
<1>4. CASE BecomeLeader(m)
  <2>1. nextIndex' = [nextIndex EXCEPT ![m.to] = [p \in Server |-> Len(log[m.to]) + 1]]
    BY <1>4 DEF BecomeLeader
  <2>2. nextIndex' \in [Server -> [Server -> Nat \ {0}]] /\ nextIndex'[m.to] \in [Server -> Nat \ {0}]
    <3> DEFINE fresh == [p \in Server |-> Len(log[m.to]) + 1]
    <3>1. fresh \in [Server -> Nat \ {0}]
      BY <1>0
    <3> HIDE DEF fresh
    <3>2. nextIndex' = [nextIndex EXCEPT ![m.to] = fresh]
      BY <2>1 DEF fresh
    <3> QED
      BY <1>0, <3>1, <3>2 DEF TypeOK
  <2>3. Broadcast(m.to, nextIndex'[m.to], log[m.to], commitIndex[m.to]) \subseteq Message
    BY <1>0, <2>2, BroadcastType DEF TypeOK
  <2>4. BagToSet(net') \subseteq Message
    <3>1. Exchange({m}, Broadcast(m.to, nextIndex'[m.to], log[m.to], commitIndex[m.to]))
      BY <1>4 DEF BecomeLeader
    <3> QED
      BY <2>3, <3>1, NetType
  <2>5. elected' \subseteq Nat \X Server
    <3>1. elected' = elected \cup {<<currentTerm[m.to], m.to>>}
      BY <1>4 DEF BecomeLeader
    <3> QED
      BY <1>0, <3>1 DEF TypeOK
  <2>6. /\ state' \in [Server -> States]
        /\ votesReceived' \in [Server -> Nat]
        /\ matchIndex' \in [Server -> [Server -> Nat]]
    BY <1>0, <1>4 DEF BecomeLeader, TypeOK, States
  <2> QED
    BY <1>4, <2>2, <2>4, <2>5, <2>6 DEF BecomeLeader, TypeOK, logVars
<1> QED
  BY <1>1, <1>2, <1>3, <1>4

LEMMA AppendEntriesHandlerType ==
    ASSUME TypeOK, NEW m \in Message,
           \/ RejectStaleAppendEntries(m)
           \/ RejectPrevMismatch(m)
           \/ AcceptAppendEntries(m)
    PROVE  TypeOK'
<1>1. CASE RejectStaleAppendEntries(m)
  <2>1. AppendResponse(m, currentTerm[m.to], FALSE, commitIndex[m.to]) \in Message
    BY ResponseTypes, TermCheckType DEF TypeOK
  <2>2. BagToSet(net') \subseteq Message
    <3>1. Exchange({m}, {AppendResponse(m, currentTerm[m.to], FALSE, commitIndex[m.to])})
      BY <1>1 DEF RejectStaleAppendEntries
    <3> QED
      BY <2>1, <3>1, NetType
  <2> QED
    BY <1>1, <2>2
    DEF RejectStaleAppendEntries, TypeOK, serverVars, logVars, leaderVars, historyVars
<1>2. CASE RejectPrevMismatch(m)
  <2>1. AppendResponse(m, m.term, FALSE, commitIndex[m.to]) \in Message
    BY ResponseTypes, TermCheckType DEF TypeOK
  <2>2. BagToSet(net') \subseteq Message
    <3>1. Exchange({m}, {AppendResponse(m, m.term, FALSE, commitIndex[m.to])})
      BY <1>2 DEF RejectPrevMismatch
    <3> QED
      BY <2>1, <3>1, NetType
  <2> QED
    BY <1>2, <2>2, TermCheckType
    DEF RejectPrevMismatch, AdoptTerm, TypeOK, logVars, leaderVars, historyVars
<1>3. CASE AcceptAppendEntries(m)
  <2>1. m \in AppendEntriesMsg /\ m.to \in Server
    BY <1>3, MessageTypes, TermCheckType DEF AcceptAppendEntries
  <2>2. LogAfterAppend(m) \in Seq(Entry) /\ Len(LogAfterAppend(m)) \in Nat
    BY <2>1, LogAfterAppendType, LenProperties
  <2>3. AckedIndex(m) \in Nat /\ m.leaderCommit \in Nat
    BY <2>1, LenProperties DEF AckedIndex, AppendEntriesMsg
  <2>4. AppendResponse(m, m.term, TRUE, AckedIndex(m)) \in Message
    BY <2>3, ResponseTypes, TermCheckType
  <2>5. BagToSet(net') \subseteq Message
    <3>1. Exchange({m}, {AppendResponse(m, m.term, TRUE, AckedIndex(m))})
      BY <1>3 DEF AcceptAppendEntries
    <3> QED
      BY <2>4, <3>1, NetType
  <2>6. Smaller(m.leaderCommit, Len(LogAfterAppend(m))) \in Nat
    BY <2>2, <2>3 DEF Smaller
  <2>7. /\ commitIndex' \in [Server -> Nat]
        /\ lastApplied' \in [Server -> Nat]
        /\ applied' \in [Server -> Seq(Entry)]
    BY <1>3, <2>1, <2>2, <2>6, CommitAndApplyType DEF AcceptAppendEntries, TypeOK
  <2> QED
    BY <1>3, <2>1, <2>2, <2>5, <2>7, TermCheckType
    DEF AcceptAppendEntries, AdoptTerm, TypeOK, leaderVars, historyVars
<1> QED
  BY <1>1, <1>2, <1>3
LEMMA AppendResponseType ==
    ASSUME TypeOK, NEW m \in Message, HandleAppendSuccess(m) \/ HandleAppendFailure(m)
    PROVE  TypeOK'
<1>1. m.type = "AppendEntriesResponse"
  BY DEF HandleAppendSuccess, HandleAppendFailure
<1>2. m \in AppendEntriesResponseMsg
  BY <1>1, MessageTypes
<1>3. m.to \in Server /\ m.from \in Server /\ m.matchIndex \in Nat
  BY <1>2 DEF AppendEntriesResponseMsg
<1>4. /\ log[m.to] \in Seq(Entry) /\ Len(log[m.to]) \in Nat
      /\ commitIndex[m.to] \in Nat
      /\ nextIndex[m.to] \in [Server -> Nat \ {0}]
      /\ matchIndex[m.to] \in [Server -> Nat]
  BY <1>3, LenProperties DEF TypeOK
<1>5. CASE HandleAppendSuccess(m)
  <2> DEFINE match == [matchIndex[m.to] EXCEPT ![m.from] = m.matchIndex]
             next == [nextIndex[m.to] EXCEPT ![m.from] = m.matchIndex + 1]
  <2>1. match \in [Server -> Nat]
    BY <1>3, <1>4
  <2>2. next \in [Server -> Nat \ {0}]
    <3>1. m.matchIndex + 1 \in Nat \ {0}
      BY <1>3
    <3> QED
      BY <1>4, <3>1
  <2>3. PICK commit \in {commitIndex[m.to]} \cup (commitIndex[m.to] + 1 .. Len(log[m.to])) :
          /\ CommitAndApply(m.to, log[m.to], commit)
          /\ Exchange({m}, IF commit > 0 THEN Broadcast(m.to, next, log[m.to], commit)
                                         ELSE {})
    BY <1>5 DEF HandleAppendSuccess
  <2>4. /\ matchIndex' = [matchIndex EXCEPT ![m.to] = match]
        /\ nextIndex' = [nextIndex EXCEPT ![m.to] = next]
        /\ UNCHANGED <<serverVars, log, votesReceived, historyVars>>
    BY <1>5 DEF HandleAppendSuccess
  <2> HIDE DEF match, next
  <2>5. commit \in Nat
    BY <1>4, <2>3
  <2>6. Broadcast(m.to, next, log[m.to], commit) \subseteq Message
    BY <1>3, <1>4, <2>2, <2>5, BroadcastType
  <2>7. BagToSet(net') \subseteq Message
    BY <2>3, <2>6, NetType
  <2>8. /\ commitIndex' \in [Server -> Nat]
        /\ lastApplied' \in [Server -> Nat]
        /\ applied' \in [Server -> Seq(Entry)]
    BY <1>3, <1>4, <2>3, <2>5, CommitAndApplyType
  <2>9. /\ matchIndex' \in [Server -> [Server -> Nat]]
        /\ nextIndex' \in [Server -> [Server -> Nat \ {0}]]
    BY <1>3, <2>1, <2>2, <2>4 DEF TypeOK
  <2> QED
    BY <2>4, <2>7, <2>8, <2>9 DEF TypeOK, serverVars, historyVars
<1>6. CASE HandleAppendFailure(m)
  <2> DEFINE next == [nextIndex[m.to] EXCEPT ![m.from] = IF @ > 1 THEN @ - 1 ELSE @]
  <2>1. next \in [Server -> Nat \ {0}]
    <3>1. PICK old \in [Server -> Nat \ {0}] : old = nextIndex[m.to]
      BY <1>4
    <3>2. \A k \in Nat \ {0} : k > 1 => k - 1 \in Nat \ {0}
      OBVIOUS
    <3>3. (IF old[m.from] > 1 THEN old[m.from] - 1 ELSE old[m.from]) \in Nat \ {0}
      BY <1>3, <3>1, <3>2
    <3> QED
      BY <3>1, <3>3
  <2>2. /\ nextIndex' = [nextIndex EXCEPT ![m.to] = next]
        /\ UNCHANGED <<serverVars, logVars, votesReceived, matchIndex, historyVars>>
    BY <1>6 DEF HandleAppendFailure
  <2> HIDE DEF next
  <2>3. /\ nextIndex' \in [Server -> [Server -> Nat \ {0}]]
        /\ nextIndex'[m.to][m.from] \in Nat \ {0}
    BY <1>3, <2>1, <2>2 DEF TypeOK
  <2>4. AppendEntries(m.to, m.from, nextIndex'[m.to][m.from], log[m.to], commitIndex[m.to])
          \in Message
    BY <1>3, <1>4, <2>3, AppendEntriesType DEF Message
  <2>5. Exchange({m}, {AppendEntries(m.to, m.from, nextIndex'[m.to][m.from], log[m.to],
                                     commitIndex[m.to])})
    BY <1>6 DEF HandleAppendFailure
  <2>6. BagToSet(net') \subseteq Message
    BY <2>4, <2>5, NetType
  <2> QED
    BY <2>2, <2>3, <2>6 DEF TypeOK, serverVars, logVars, historyVars
<1> QED
  BY <1>5, <1>6

LEMMA InitType == Init => TypeOK
<1>1. BagToSet(EmptyBag) = {}
  BY DEF BagToSet, EmptyBag, SetToBag
<1>2. <<>> \in Seq(Entry)
  BY EmptySeq
<1> QED
  BY <1>1, <1>2 DEF Init, TypeOK, States

LEMMA LoseType ==
    ASSUME TypeOK, NEW m, Lose(m)
    PROVE  TypeOK'
<1>1. BagToSet(net') \subseteq Message
  BY NetType DEF Lose
<1> QED
  BY <1>1 DEF Lose, TypeOK, serverVars, logVars, leaderVars, historyVars

\* Every step keeps the types
LEMMA NextType == TypeOK /\ [Next]_vars => TypeOK'
<1> SUFFICES ASSUME TypeOK, [Next]_vars
             PROVE  TypeOK'
  OBVIOUS
<1>1. CASE \E n \in Server : Tick(n) \/ Propose(n)
  BY <1>1, TickType, ProposeType
<1>2. CASE \E m \in BagToSet(net) : Receive(m) \/ Lose(m)
  <2>1. PICK m \in BagToSet(net) : Receive(m) \/ Lose(m)
    BY <1>2
  <2>2. m \in Message
    BY DEF TypeOK
  <2> QED
    BY <2>1, <2>2, RequestVoteType, ResponseType, AppendEntriesHandlerType,
       AppendResponseType, LoseType DEF Receive
<1>3. CASE UNCHANGED vars
  BY <1>3 DEF vars, serverVars, logVars, leaderVars, historyVars, TypeOK
<1> QED
  BY <1>1, <1>2, <1>3 DEF Next

\* The state keeps its types, on every cluster and under every bound
THEOREM TypeCorrect == Spec => []TypeOK
BY InitType, NextType, PTL DEF Spec
-----------------------------------------------------------------------------
(* Elections *)

LEMMA InitElection == Init => ElectionInv
<1>1. BagToSet(EmptyBag) = {}
  BY DEF BagToSet, EmptyBag, SetToBag
<1> QED
  BY <1>1 DEF Init, ElectionInv, ContenderVoted, VotesRemembered, OneVotePerTerm,
              MessagesBacked, ElectedBacked

\* What a step sends is backed
LEMMA SentVoteRequests ==
    ASSUME TypeOK, NEW n \in Server, NEW term \in Nat, SelfVote(n, term) \in votes',
           NEW m \in VoteRequests(n, term)
    PROVE  Backed(m)'
BY DEF VoteRequests, Others, Backed

LEMMA SentBroadcast ==
    ASSUME NEW n \in Server, NEW nexts, NEW entryLog, NEW commit,
           <<currentTerm[n], n>> \in elected', NEW m \in Broadcast(n, nexts, entryLog, commit)
    PROVE  Backed(m)'
BY DEF Broadcast, AppendEntries, Others, Backed

LEMMA SentVoteResponse ==
    ASSUME NEW m, m.from # m.to, NEW term, NEW granted,
           granted => [voter |-> m.to, term |-> term, for |-> m.from] \in votes',
           NEW k \in {VoteResponse(m, term, granted)}
    PROVE  Backed(k)'
BY DEF VoteResponse, Backed

LEMMA SentAppendResponse ==
    ASSUME NEW m, m.from # m.to, NEW term, NEW success, NEW match,
           success => <<term, m.from>> \in elected',
           NEW k \in {AppendResponse(m, term, success, match)}
    PROVE  Backed(k)'
BY DEF AppendResponse, Backed

\* Votes and elections are never forgotten, so what was backed stays backed
LEMMA StaysBacked ==
    ASSUME MessagesBacked, votes \subseteq votes', elected \subseteq elected',
           \A m \in BagToSet(net') : m \in BagToSet(net) \/ Backed(m)'
    PROVE  MessagesBacked'
BY DEF MessagesBacked, Backed

\* A step that neither votes nor changes a term or a role
LEMMA QuietElection ==
    ASSUME ElectionInv, UNCHANGED <<serverVars, historyVars>>,
           \A m \in BagToSet(net') : m \in BagToSet(net) \/ Backed(m)'
    PROVE  ElectionInv'
<1>1. MessagesBacked'
  BY StaysBacked DEF ElectionInv, historyVars
<1> QED
  BY <1>1 DEF ElectionInv, ContenderVoted, VotesRemembered, OneVotePerTerm,
              ElectedBacked, SelfVote, serverVars, historyVars

\* A node moves on to a later term, as a follower or as a candidate that votes
\* for itself, or it stays in its term and role and at most casts the vote it
\* still had
LEMMA TermStepElection ==
    ASSUME TypeOK, ElectionInv,
           NEW n \in Server, NEW term \in Nat, NEW vote, NEW role, NEW cast,
           currentTerm' = [currentTerm EXCEPT ![n] = term],
           votedFor' = [votedFor EXCEPT ![n] = vote],
           state' = [state EXCEPT ![n] = role],
           votes' = votes \cup cast,
           elected' = elected,
           cast \subseteq {[voter |-> n, term |-> term, for |-> vote]},
           \/ /\ term > currentTerm[n]
              /\ \/ role = "Follower"
                 \/ role = "Candidate" /\ vote = n /\ SelfVote(n, term) \in cast
           \/ /\ term = currentTerm[n]
              /\ role = state[n]
              /\ vote = votedFor[n] \/ votedFor[n] = None,
           \A m \in BagToSet(net') : m \in BagToSet(net) \/ Backed(m)'
    PROVE  ElectionInv'
<1>1. /\ \A p \in Server : currentTerm'[p] = IF p = n THEN term ELSE currentTerm[p]
      /\ \A p \in Server : votedFor'[p] = IF p = n THEN vote ELSE votedFor[p]
      /\ \A p \in Server : state'[p] = IF p = n THEN role ELSE state[p]
  BY DEF TypeOK
<1>2. /\ \A p \in Server : currentTerm[p] \in Nat
      /\ \A v \in votes : v.voter \in Server /\ v.term \in Nat /\ v.for \in Server
      /\ \A e \in elected : e[2] \in Server /\ e[1] \in Nat
  BY DEF TypeOK, Vote
\* the votes n has cast already
<1>3. ASSUME NEW v \in votes, v.voter = n
      PROVE  v.term <= term /\ (v.term = term => v.for = vote)
  BY <1>2, <1>3, ServerAssumption DEF ElectionInv, VotesRemembered
<1>4. ContenderVoted'
  <2>1. ASSUME role # "Follower"
        PROVE  vote = n /\ SelfVote(n, term) \in votes'
    BY <2>1, ServerAssumption DEF ElectionInv, ContenderVoted
  <2> QED
    BY <1>1, <2>1 DEF ElectionInv, ContenderVoted, SelfVote
<1>5. VotesRemembered'
  <2>1. ASSUME NEW v \in votes
        PROVE  /\ v.term <= currentTerm'[v.voter]
               /\ v.term = currentTerm'[v.voter] => votedFor'[v.voter] = v.for
    BY <1>1, <1>2, <1>3 DEF ElectionInv, VotesRemembered
  <2>2. ASSUME NEW v \in cast
        PROVE  /\ v.term <= currentTerm'[v.voter]
               /\ v.term = currentTerm'[v.voter] => votedFor'[v.voter] = v.for
    <3>1. v.voter = n /\ v.term = term /\ v.for = vote
      OBVIOUS
    <3> QED
      BY <1>1, <3>1
  <2> QED
    BY <2>1, <2>2 DEF VotesRemembered
<1>6. OneVotePerTerm'
  <2>1. ASSUME NEW v \in votes, NEW w \in cast, v.voter = w.voter, v.term = w.term
        PROVE  v.for = w.for
    BY <1>3, <2>1
  <2> QED
    BY <2>1 DEF ElectionInv, OneVotePerTerm
<1>7. MessagesBacked'
  BY StaysBacked DEF ElectionInv
<1>8. ElectedBacked'
  <2>1. ASSUME NEW e \in elected, e[1] = currentTerm'[e[2]]
        PROVE  state'[e[2]] = "Leader"
    <3>1. CASE e[2] = n
      <4>1. SelfVote(n, term) \in votes
        BY <1>1, <2>1, <3>1 DEF ElectionInv, ElectedBacked
      <4>2. term = currentTerm[n] /\ role = state[n]
        BY <1>2, <4>1 DEF ElectionInv, VotesRemembered, SelfVote
      <4> QED
        BY <1>1, <2>1, <3>1, <4>2 DEF ElectionInv, ElectedBacked
    <3>2. CASE e[2] # n
      BY <1>1, <1>2, <2>1, <3>2 DEF ElectionInv, ElectedBacked
    <3> QED
      BY <3>1, <3>2
  <2>2. ASSUME NEW p \in Server, state'[p] = "Leader"
        PROVE  <<currentTerm'[p], p>> \in elected
    BY <1>1, <2>2 DEF ElectionInv, ElectedBacked
  <2> QED
    BY <2>1, <2>2 DEF ElectionInv, ElectedBacked, SelfVote
<1> QED
  BY <1>4, <1>5, <1>6, <1>7, <1>8 DEF ElectionInv
LEMMA BecomeCandidateElection ==
    ASSUME TypeOK, ElectionInv, NEW n \in Server, BecomeCandidate(n)
    PROVE  ElectionInv'
<1> DEFINE term == currentTerm[n] + 1
<1>1. /\ currentTerm' = [currentTerm EXCEPT ![n] = term] /\ currentTerm'[n] = term
      /\ votedFor' = [votedFor EXCEPT ![n] = n]
      /\ state' = [state EXCEPT ![n] = "Candidate"]
      /\ votes' = votes \cup {SelfVote(n, term)}
      /\ elected' = elected
      /\ term \in Nat /\ term > currentTerm[n]
  BY DEF BecomeCandidate, TypeOK, SelfVote
<1>2. Exchange({}, VoteRequests(n, term))
  BY <1>1 DEF BecomeCandidate
<1> HIDE DEF term
<1>3. \A m \in VoteRequests(n, term) : Backed(m)'
  BY <1>1, SentVoteRequests
<1>4. \A m \in BagToSet(net') : m \in BagToSet(net) \/ Backed(m)'
  BY <1>2, <1>3, ExchangeBag
<1>5. {SelfVote(n, term)} \subseteq {[voter |-> n, term |-> term, for |-> n]}
  BY DEF SelfVote
<1> QED
  BY <1>1, <1>4, <1>5, TermStepElection

LEMMA HandleRequestVoteElection ==
    ASSUME TypeOK, ElectionInv, NEW m \in BagToSet(net), HandleRequestVote(m)
    PROVE  ElectionInv'
<1>1. /\ m.term \in Nat /\ m.to \in Server /\ currentTerm[m.to] \in Nat
      /\ m.from # m.to
  BY TermCheckType DEF TypeOK, ElectionInv, MessagesBacked, Backed
<1> DEFINE vote == IF GrantsVote(m) THEN m.from ELSE VoteAfterTermCheck(m)
           cast == IF GrantsVote(m)
                     THEN {[voter |-> m.to, term |-> m.term, for |-> m.from]} ELSE {}
<1>2. /\ m.term >= currentTerm[m.to]
      /\ currentTerm' = [currentTerm EXCEPT ![m.to] = m.term]
      /\ state' = [state EXCEPT ![m.to] = StateAfterTermCheck(m)]
      /\ votedFor' = [votedFor EXCEPT ![m.to] = vote]
      /\ elected' = elected
  BY DEF HandleRequestVote
<1>3. votes' = votes \cup cast
  BY DEF HandleRequestVote
<1>4. cast \subseteq {[voter |-> m.to, term |-> m.term, for |-> vote]}
  OBVIOUS
<1>5. \/ m.term > currentTerm[m.to] /\ StateAfterTermCheck(m) = "Follower"
      \/ /\ m.term = currentTerm[m.to]
         /\ StateAfterTermCheck(m) = state[m.to]
         /\ vote = votedFor[m.to] \/ votedFor[m.to] = None
  <2>1. CASE m.term > currentTerm[m.to]
    BY <2>1 DEF StateAfterTermCheck
  <2>2. CASE m.term = currentTerm[m.to]
    <3>1. StateAfterTermCheck(m) = state[m.to] /\ VoteAfterTermCheck(m) = votedFor[m.to]
      BY <1>1, <2>2 DEF StateAfterTermCheck, VoteAfterTermCheck
    <3>2. vote = votedFor[m.to] \/ votedFor[m.to] = None
      BY <3>1 DEF GrantsVote
    <3> QED
      BY <2>2, <3>1, <3>2
  <2> QED
    BY <1>1, <1>2, <2>1, <2>2
<1>6. GrantsVote(m) => [voter |-> m.to, term |-> m.term, for |-> m.from] \in votes'
  BY <1>3
<1> DEFINE answer == VoteResponse(m, m.term, GrantsVote(m))
<1>7. Exchange({m}, {answer})
  BY DEF HandleRequestVote
<1>8. /\ answer.type = "RequestVoteResponse"
      /\ answer.from = m.to /\ answer.to = m.from /\ answer.term = m.term
      /\ answer.voteGranted => GrantsVote(m)
  BY DEF VoteResponse
<1> HIDE DEF vote, cast, answer
<1>9. \A k \in {answer} : Backed(k)'
  BY <1>1, <1>6, <1>8 DEF Backed
<1>10. \A k \in BagToSet(net') : k \in BagToSet(net) \/ Backed(k)'
  BY <1>7, <1>9, ExchangeBag
<1> QED
  BY <1>1, <1>2, <1>3, <1>4, <1>5, <1>10, TermStepElection

LEMMA StepDownElection ==
    ASSUME TypeOK, ElectionInv, NEW m \in BagToSet(net), StepDown(m)
    PROVE  ElectionInv'
<1>1. m.term \in Nat /\ m.to \in Server
  BY TermCheckType DEF TypeOK
<1>2. /\ m.term > currentTerm[m.to]
      /\ currentTerm' = [currentTerm EXCEPT ![m.to] = m.term]
      /\ state' = [state EXCEPT ![m.to] = "Follower"]
      /\ votedFor' = [votedFor EXCEPT ![m.to] = votedFor[m.to]]
      /\ votes' = votes \cup {}
      /\ elected' = elected
      /\ Exchange({m}, {})
  BY <1>1 DEF StepDown, TypeOK, historyVars
<1>3. \A k \in BagToSet(net') : k \in BagToSet(net) \/ Backed(k)'
  BY <1>2, ExchangeBag
<1> QED
  BY <1>1, <1>2, <1>3, TermStepElection

\* The AppendEntries handler's term check
LEMMA AdoptTermElection ==
    ASSUME TypeOK, ElectionInv, NEW m \in BagToSet(net), m.term >= currentTerm[m.to],
           AdoptTerm(m), UNCHANGED historyVars,
           \A k \in BagToSet(net') : k \in BagToSet(net) \/ Backed(k)'
    PROVE  ElectionInv'
<1>1. m.term \in Nat /\ m.to \in Server /\ currentTerm[m.to] \in Nat
  BY TermCheckType DEF TypeOK
<1>2. /\ currentTerm' = [currentTerm EXCEPT ![m.to] = m.term]
      /\ state' = [state EXCEPT ![m.to] = StateAfterTermCheck(m)]
      /\ votedFor' = [votedFor EXCEPT ![m.to] = VoteAfterTermCheck(m)]
      /\ votes' = votes \cup {}
      /\ elected' = elected
  BY DEF AdoptTerm, historyVars
<1>3. \/ m.term > currentTerm[m.to] /\ StateAfterTermCheck(m) = "Follower"
      \/ /\ m.term = currentTerm[m.to]
         /\ StateAfterTermCheck(m) = state[m.to]
         /\ VoteAfterTermCheck(m) = votedFor[m.to]
  BY <1>1 DEF StateAfterTermCheck, VoteAfterTermCheck
<1> QED
  BY <1>1, <1>2, <1>3, TermStepElection

LEMMA BecomeLeaderElection ==
    ASSUME TypeOK, ElectionInv, NEW m \in BagToSet(net), BecomeLeader(m)
    PROVE  ElectionInv'
<1> DEFINE n == m.to
<1>1. n \in Server /\ m.from \in Server /\ m.term = currentTerm[n] /\ state[n] = "Candidate"
  BY TermCheckType DEF TypeOK, BecomeLeader
<1>2. m.from # n /\ [voter |-> m.from, term |-> currentTerm[n], for |-> n] \in votes
  BY <1>1 DEF ElectionInv, MessagesBacked, Backed, BecomeLeader
<1>3. SelfVote(n, currentTerm[n]) \in votes
  BY <1>1 DEF ElectionInv, ContenderVoted
<1>4. /\ state' = [state EXCEPT ![n] = "Leader"]
      /\ elected' = elected \cup {<<currentTerm[n], n>>}
      /\ UNCHANGED <<currentTerm, votedFor, votes>>
      /\ Exchange({m}, Broadcast(n, nextIndex'[n], log[n], commitIndex[n]))
  BY DEF BecomeLeader
<1> HIDE DEF n
<1>5. \A p \in Server : state'[p] = IF p = n THEN "Leader" ELSE state[p]
  BY <1>4 DEF TypeOK
<1>6. ContenderVoted'
  BY <1>1, <1>4, <1>5 DEF ElectionInv, ContenderVoted, SelfVote
<1>7. VotesRemembered' /\ OneVotePerTerm'
  BY <1>4 DEF ElectionInv, VotesRemembered, OneVotePerTerm
<1>8. MessagesBacked'
  <2>1. \A k \in Broadcast(n, nextIndex'[n], log[n], commitIndex[n]) : Backed(k)'
    BY <1>1, <1>4, SentBroadcast
  <2>2. \A k \in BagToSet(net') : k \in BagToSet(net) \/ Backed(k)'
    BY <1>4, <2>1, ExchangeBag
  <2> QED
    BY <1>4, <2>2, StaysBacked DEF ElectionInv
<1>9. ElectedBacked'
  <2>1. \A e \in elected' : SelfVote(e[2], e[1]) \in votes
    BY <1>3, <1>4 DEF ElectionInv, ElectedBacked
  <2>2. \A e \in elected' : \E v \in Others(e[2]) :
            [voter |-> v, term |-> e[1], for |-> e[2]] \in votes
    BY <1>1, <1>2, <1>4 DEF ElectionInv, ElectedBacked, Others
  <2>3. \A e \in elected' : e[1] = currentTerm[e[2]] => state'[e[2]] = "Leader"
    <3>1. \A e \in elected : e[2] \in Server
      BY DEF TypeOK
    <3> QED
      BY <1>1, <1>4, <1>5, <3>1 DEF ElectionInv, ElectedBacked
  <2>4. \A p \in Server : state'[p] = "Leader" => <<currentTerm[p], p>> \in elected'
    BY <1>4, <1>5 DEF ElectionInv, ElectedBacked
  <2> QED
    BY <1>4, <2>1, <2>2, <2>3, <2>4 DEF ElectedBacked, SelfVote, Others
<1> QED
  BY <1>6, <1>7, <1>8, <1>9 DEF ElectionInv

\* The other steps send only what is backed already, and touch no vote
LEMMA RequestStepsElection ==
    ASSUME TypeOK, ElectionInv, NEW n \in Server,
           RestartElection(n) \/ SendHeartbeats(n) \/ Propose(n)
    PROVE  ElectionInv'
<1>1. UNCHANGED <<serverVars, historyVars>>
  BY DEF RestartElection, SendHeartbeats, Propose
<1>2. CASE RestartElection(n)
  <2>1. Exchange({}, VoteRequests(n, currentTerm[n]))
    BY <1>2 DEF RestartElection
  <2>2. currentTerm[n] \in Nat /\ SelfVote(n, currentTerm[n]) \in votes'
    BY <1>1, <1>2 DEF TypeOK, RestartElection, ElectionInv, ContenderVoted, historyVars
  <2>3. \A k \in VoteRequests(n, currentTerm[n]) : Backed(k)'
    BY <2>2, SentVoteRequests
  <2>4. \A k \in BagToSet(net') : k \in BagToSet(net) \/ Backed(k)'
    BY <2>1, <2>3, ExchangeBag
  <2> QED
    BY <1>1, <2>4, QuietElection
<1>3. CASE SendHeartbeats(n) \/ Propose(n)
  <2>1. PICK entryLog : Exchange({}, Broadcast(n, nextIndex[n], entryLog, commitIndex[n]))
    BY <1>3 DEF SendHeartbeats, Propose
  <2>2. <<currentTerm[n], n>> \in elected'
    BY <1>1, <1>3 DEF SendHeartbeats, Propose, ElectionInv, ElectedBacked, historyVars
  <2>3. \A k \in Broadcast(n, nextIndex[n], entryLog, commitIndex[n]) : Backed(k)'
    BY <2>2, SentBroadcast
  <2>4. \A k \in BagToSet(net') : k \in BagToSet(net) \/ Backed(k)'
    BY <2>1, <2>3, ExchangeBag
  <2> QED
    BY <1>1, <2>4, QuietElection
<1> QED
  BY <1>2, <1>3

LEMMA RejectionElection ==
    ASSUME TypeOK, ElectionInv, NEW m \in BagToSet(net),
           RejectStaleRequestVote(m) \/ RejectStaleAppendEntries(m)
    PROVE  ElectionInv'
<1>1. UNCHANGED <<serverVars, historyVars>> /\ m.from # m.to
  BY DEF RejectStaleRequestVote, RejectStaleAppendEntries, ElectionInv, MessagesBacked, Backed
<1>2. PICK answer : Exchange({m}, {answer}) /\ \A k \in {answer} : Backed(k)'
  <2>1. CASE RejectStaleRequestVote(m)
    <3>1. \A k \in {VoteResponse(m, currentTerm[m.to], FALSE)} : Backed(k)'
      BY <1>1, SentVoteResponse
    <3> QED
      BY <2>1, <3>1 DEF RejectStaleRequestVote
  <2>2. CASE RejectStaleAppendEntries(m)
    <3>1. \A k \in {AppendResponse(m, currentTerm[m.to], FALSE, commitIndex[m.to])} :
              Backed(k)'
      BY <1>1, SentAppendResponse
    <3> QED
      BY <2>2, <3>1 DEF RejectStaleAppendEntries
  <2> QED
    BY <2>1, <2>2
<1>3. \A k \in BagToSet(net') : k \in BagToSet(net) \/ Backed(k)'
  BY <1>2, ExchangeBag
<1> QED
  BY <1>1, <1>3, QuietElection

LEMMA SilentElection ==
    ASSUME TypeOK, ElectionInv, NEW m \in BagToSet(net),
           IgnoreResponse(m) \/ CountVote(m) \/ Lose(m)
    PROVE  ElectionInv'
<1>1. UNCHANGED <<serverVars, historyVars>> /\ Exchange({m}, {})
  BY DEF IgnoreResponse, CountVote, Lose
<1>2. \A k \in BagToSet(net') : k \in BagToSet(net) \/ Backed(k)'
  BY <1>1, ExchangeBag
<1> QED
  BY <1>1, <1>2, QuietElection

LEMMA FollowerAppendElection ==
    ASSUME TypeOK, ElectionInv, NEW m \in BagToSet(net),
           RejectPrevMismatch(m) \/ AcceptAppendEntries(m)
    PROVE  ElectionInv'
<1>1. /\ m.term >= currentTerm[m.to] /\ AdoptTerm(m) /\ UNCHANGED historyVars
      /\ m.type = "AppendEntries"
  BY DEF RejectPrevMismatch, AcceptAppendEntries
<1>2. m.from # m.to /\ <<m.term, m.from>> \in elected'
  BY <1>1 DEF ElectionInv, MessagesBacked, Backed, historyVars
<1>3. PICK success, match : Exchange({m}, {AppendResponse(m, m.term, success, match)})
  BY DEF RejectPrevMismatch, AcceptAppendEntries
<1>4. \A k \in {AppendResponse(m, m.term, success, match)} : Backed(k)'
  BY <1>2, SentAppendResponse
<1>5. \A k \in BagToSet(net') : k \in BagToSet(net) \/ Backed(k)'
  BY <1>3, <1>4, ExchangeBag
<1> QED
  BY <1>1, <1>5, AdoptTermElection

LEMMA LeaderAnswerElection ==
    ASSUME TypeOK, ElectionInv, NEW m \in BagToSet(net),
           HandleAppendSuccess(m) \/ HandleAppendFailure(m)
    PROVE  ElectionInv'
<1> DEFINE n == m.to
<1>1. n \in Server /\ m.from \in Server /\ m.from # n
  BY TermCheckType DEF TypeOK, ElectionInv, MessagesBacked, Backed
<1>2. /\ UNCHANGED <<serverVars, historyVars>>
      /\ state[n] = "Leader"
  BY DEF HandleAppendSuccess, HandleAppendFailure
<1>3. <<currentTerm[n], n>> \in elected'
  BY <1>1, <1>2 DEF ElectionInv, ElectedBacked, historyVars
<1> HIDE DEF n
<1>4. PICK out : Exchange({m}, out) /\ \A k \in out : Backed(k)'
  <2>1. CASE HandleAppendSuccess(m)
    <3>1. PICK next, commit :
              Exchange({m}, IF commit > 0 THEN Broadcast(n, next, log[n], commit) ELSE {})
      BY <2>1 DEF HandleAppendSuccess, n
    <3>2. \A k \in Broadcast(n, next, log[n], commit) : Backed(k)'
      BY <1>1, <1>3, SentBroadcast
    <3> QED
      BY <3>1, <3>2
  <2>2. CASE HandleAppendFailure(m)
    <3>1. PICK next : Exchange({m}, {AppendEntries(n, m.from, next, log[n], commitIndex[n])})
      BY <2>2 DEF HandleAppendFailure, n
    <3>2. \A k \in {AppendEntries(n, m.from, next, log[n], commitIndex[n])} : Backed(k)'
      BY <1>1, <1>3 DEF AppendEntries, Backed
    <3> QED
      BY <3>1, <3>2
  <2> QED
    BY <2>1, <2>2
<1>5. \A k \in BagToSet(net') : k \in BagToSet(net) \/ Backed(k)'
  BY <1>4, ExchangeBag
<1> QED
  BY <1>2, <1>5, QuietElection

LEMMA NextElection == TypeOK /\ ElectionInv /\ [Next]_vars => ElectionInv'
<1> SUFFICES ASSUME TypeOK, ElectionInv, [Next]_vars
             PROVE  ElectionInv'
  OBVIOUS
<1>1. ASSUME NEW n \in Server, Tick(n) \/ Propose(n)
      PROVE  ElectionInv'
  BY <1>1, BecomeCandidateElection, RequestStepsElection DEF Tick
<1>2. ASSUME NEW m \in BagToSet(net), Receive(m) \/ Lose(m)
      PROVE  ElectionInv'
  BY <1>2, RejectionElection, HandleRequestVoteElection, StepDownElection, SilentElection,
     BecomeLeaderElection, FollowerAppendElection, LeaderAnswerElection DEF Receive
<1>3. ASSUME UNCHANGED vars
      PROVE  ElectionInv'
  BY <1>3, QuietElection DEF vars
<1> QED
  BY <1>1, <1>2, <1>3 DEF Next

\* However many nodes there are, a node votes once per term, and every leader won
\* its term with its own vote and somebody else's
THEOREM ElectionInvariant == Spec => []ElectionInv
BY TypeCorrect, InitElection, NextElection, PTL DEF Spec

LEMMA FourMembers ==
    ASSUME NEW T, IsFiniteSet(T), NEW a \in T, NEW b \in T, NEW c \in T, NEW d \in T,
           a # b, a # c, a # d, b # c, b # d, c # d
    PROVE  ~(Cardinality(T) <= 3)
<1> DEFINE two == {a, b}
           three == {a, b, c}
<1>1. IsFiniteSet({a}) /\ Cardinality({a}) = 1
  BY FS_Singleton
<1>2. two = {a} \cup {b} /\ three = two \cup {c}
  OBVIOUS
<1>3. b \notin {a} /\ c \notin two /\ d \notin three
  OBVIOUS
<1> HIDE DEF two, three
<1>4. IsFiniteSet(two) /\ Cardinality(two) = 2
  BY ONLY <1>1, <1>2, <1>3, FS_AddElement
<1>5. IsFiniteSet(three) /\ Cardinality(three) = 3
  BY ONLY <1>2, <1>3, <1>4, FS_AddElement
<1>6. Cardinality(three \cup {d}) = 4
  BY ONLY <1>3, <1>5, FS_AddElement
<1>7. three \cup {d} \subseteq T
  BY DEF three
<1>8. Cardinality(T) \in Nat /\ Cardinality(three \cup {d}) <= Cardinality(T)
  BY <1>7, FS_Subset, FS_CardinalityType
<1> QED
  BY <1>6, <1>8

\* Two leaders of one term would be two candidates that voted for themselves and
\* two more voters, one for each: four nodes.
LEMMA TwoLeadersNeedFour ==
    ASSUME TypeOK, ElectionInv, Cardinality(Server) <= 3
    PROVE  ElectionSafety
<1> SUFFICES ASSUME NEW e \in elected, NEW f \in elected, e[1] = f[1], e[2] # f[2]
             PROVE  FALSE
  BY DEF ElectionSafety
<1>1. e[2] \in Server /\ f[2] \in Server
  BY DEF TypeOK
<1>2. SelfVote(e[2], e[1]) \in votes /\ SelfVote(f[2], f[1]) \in votes
  BY DEF ElectionInv, ElectedBacked
<1>3. PICK v \in Others(e[2]) : [voter |-> v, term |-> e[1], for |-> e[2]] \in votes
  BY DEF ElectionInv, ElectedBacked
<1>4. PICK w \in Others(f[2]) : [voter |-> w, term |-> f[1], for |-> f[2]] \in votes
  BY DEF ElectionInv, ElectedBacked
<1>5. v # e[2] /\ v # f[2] /\ w # e[2] /\ w # f[2] /\ v # w
  BY <1>2, <1>3, <1>4 DEF ElectionInv, OneVotePerTerm, SelfVote, Others
<1>6. v \in Server /\ w \in Server
  BY <1>3, <1>4 DEF Others
<1> QED
  BY <1>1, <1>5, <1>6, ServerAssumption, FourMembers

\* A term of a cluster of at most three nodes has at most one leader, ever
THEOREM SmallClusterElectionSafety ==
    ASSUME Cardinality(Server) <= 3
    PROVE  Spec => []ElectionSafety
<1>1. TypeOK /\ ElectionInv => ElectionSafety
  BY TwoLeadersNeedFour
<1> QED
  BY <1>1, TypeCorrect, ElectionInvariant, PTL

-----------------------------------------------------------------------------
(* The leader's log *)

\* A log keeps what it holds when it does not change or when Propose extends it
LEMMA KeptLog ==
    ASSUME NEW s \in Seq(Entry), NEW t,
           t = s \/ \E e \in Entry : t = Append(s, e)
    PROVE  SubSeq(t, 1, Len(s)) = s
<1>1. Len(s) \in Nat /\ s \in Seq(Entry)
  BY LenProperties
<1>2. CASE t = s
  BY <1>1, <1>2
<1>3. CASE \E e \in Entry : t = Append(s, e)
  BY <1>1, <1>3
<1> QED
  BY <1>2, <1>3

LEMMA ProposeKeepsLog ==
    ASSUME TypeOK, NEW p \in Server, Propose(p), NEW n \in Server
    PROVE  LogKept(n)
<1> DEFINE e == [term |-> currentTerm[p], index |-> Len(log[p]) + 1]
<1>1. log' = [log EXCEPT ![p] = Append(log[p], e)]
  BY DEF Propose
<1>2. log[n] \in Seq(Entry) /\ Len(log[p]) \in Nat /\ currentTerm[p] \in Nat
  BY LenProperties DEF TypeOK
<1>3. e \in Entry
  BY <1>2 DEF Entry
<1> HIDE DEF e
<1>4. log'[n] = log[n] \/ log'[n] = Append(log[n], e)
  BY <1>1 DEF TypeOK
<1> QED
  BY <1>2, <1>3, <1>4, KeptLog DEF LogKept

\* A step that lets a leader lead on leaves its log alone or extends it
LEMMA LeaderStep ==
    ASSUME TypeOK, ElectionInv, ElectionSafety, [Next]_vars,
           NEW n \in Server, state[n] = "Leader", state'[n] = "Leader",
           currentTerm'[n] = currentTerm[n]
    PROVE  LogKept(n)
<1>1. log[n] \in Seq(Entry)
  BY DEF TypeOK
<1>2. CASE log'[n] = log[n]
  BY <1>1, <1>2, KeptLog DEF LogKept
<1>3. CASE \E p \in Server : Propose(p)
  BY <1>3, ProposeKeepsLog
\* an AppendEntries of the leader's term would come from a second leader of it
<1>4. ASSUME NEW m \in BagToSet(net), AcceptAppendEntries(m)
      PROVE  log'[n] = log[n]
  <2>1. /\ log' = [log EXCEPT ![m.to] = LogAfterAppend(m)]
        /\ state' = [state EXCEPT ![m.to] = StateAfterTermCheck(m)]
        /\ m.type = "AppendEntries"
        /\ m.term >= currentTerm[m.to]
        /\ m.term \in Nat /\ m.to \in Server /\ currentTerm[m.to] \in Nat
    BY <1>4, TermCheckType DEF AcceptAppendEntries, AdoptTerm, TypeOK
  <2>2. CASE m.to # n
    BY <2>1, <2>2 DEF TypeOK
  <2>3. CASE m.to = n
    <3>1. m.term = currentTerm[n]
      BY <2>1, <2>3 DEF StateAfterTermCheck, TypeOK
    <3>2. <<currentTerm[n], m.from>> \in elected /\ m.from # n
      BY <2>1, <2>3, <3>1 DEF ElectionInv, MessagesBacked, Backed
    <3>3. <<currentTerm[n], n>> \in elected
      BY DEF ElectionInv, ElectedBacked
    <3> QED
      BY <3>2, <3>3 DEF ElectionSafety
  <2> QED
    BY <2>2, <2>3
<1>5. CASE UNCHANGED vars
  BY <1>2, <1>5 DEF vars, logVars
<1>6. ASSUME NEW p \in Server, Tick(p)
      PROVE  UNCHANGED log
  BY <1>6 DEF Tick, BecomeCandidate, RestartElection, SendHeartbeats, logVars
<1>7. ASSUME NEW m \in BagToSet(net), Receive(m) \/ Lose(m), ~AcceptAppendEntries(m)
      PROVE  UNCHANGED log
  BY <1>7 DEF Receive, Lose, RejectStaleRequestVote, HandleRequestVote, StepDown,
     IgnoreResponse, CountVote, BecomeLeader, RejectStaleAppendEntries, RejectPrevMismatch,
     HandleAppendSuccess, HandleAppendFailure, logVars
<1> QED
  BY <1>2, <1>3, <1>4, <1>5, <1>6, <1>7 DEF Next

\* While a node of a cluster of at most three leads a term its log only grows
THEOREM SmallClusterLeaderAppendOnly ==
    ASSUME Cardinality(Server) <= 3
    PROVE  Spec => LeaderAppendOnly
<1>1. TypeOK /\ ElectionInv /\ ElectionSafety /\ [Next]_vars =>
        [\A n \in Server :
           state[n] = "Leader" /\ state'[n] = "Leader" /\ currentTerm'[n] = currentTerm[n]
             => LogKept(n)]_vars
  BY LeaderStep
<1> QED
  BY <1>1, TypeCorrect, ElectionInvariant, SmallClusterElectionSafety, PTL
     DEF Spec, LeaderAppendOnly

-----------------------------------------------------------------------------
(* The leader's log, as it is replicated *)

\* What leaders sent, and know of their followers, fits their logs
ReplicationInv == AppendsReflectLeaderLog /\ MatchWithinLeaderLog

-----------------------------------------------------------------------------
(* Steps after which every leader led before, in the same term, with a part of *)
(* its log                                                                     *)

Grown(n) ==
    /\ Len(log[n]) <= Len(log'[n])
    /\ \A i \in 1..Len(log[n]) : log'[n][i] = log[n][i]
LeadersGrown ==
    \A n \in Server : state'[n] = "Leader" =>
        state[n] = "Leader" /\ currentTerm'[n] = currentTerm[n] /\ Grown(n)

LEMMA StaysReflected ==
    ASSUME TypeOK, TypeOK', LeadersGrown, NEW m \in Message, Reflected(m)
    PROVE  Reflected(m)'
<1> SUFFICES ASSUME m.type = "AppendEntries", Leads(m.from, m.term)'
             PROVE  /\ m.prevLogIndex + Len(m.entries) <= Len(log'[m.from])
                    /\ \A i \in 1..Len(m.entries) :
                          m.entries[i] = log'[m.from][m.prevLogIndex + i]
  BY DEF Reflected
<1>1. m \in AppendEntriesMsg
  BY MessageTypes
<1>2. m.from \in Server /\ m.prevLogIndex \in Nat /\ Len(m.entries) \in Nat
  BY <1>1, LenProperties DEF AppendEntriesMsg
<1>3. Leads(m.from, m.term) /\ Grown(m.from)
  BY <1>2 DEF Leads, LeadersGrown
<1>4. Len(log[m.from]) \in Nat /\ Len(log'[m.from]) \in Nat
  BY <1>2, LenProperties DEF TypeOK
<1>5. /\ m.prevLogIndex + Len(m.entries) <= Len(log[m.from])
      /\ \A i \in 1..Len(m.entries) : m.entries[i] = log[m.from][m.prevLogIndex + i]
  BY <1>3 DEF Reflected
<1>6. ASSUME NEW i \in 1..Len(m.entries)
      PROVE  m.entries[i] = log'[m.from][m.prevLogIndex + i]
  <2>1. m.prevLogIndex + i \in 1..Len(log[m.from])
    BY <1>2, <1>4, <1>5
  <2> QED
    BY <1>3, <1>5, <2>1 DEF Grown
<1> QED
  BY <1>2, <1>3, <1>4, <1>5, <1>6 DEF Grown

LEMMA StaysAcked ==
    ASSUME TypeOK, TypeOK', LeadersGrown, NEW m \in Message, AcksWithin(m)
    PROVE  AcksWithin(m)'
<1> SUFFICES ASSUME m.type = "AppendEntriesResponse", m.success, Leads(m.to, m.term)'
             PROVE  m.matchIndex <= Len(log'[m.to])
  BY DEF AcksWithin
<1>1. m.to \in Server /\ m.matchIndex \in Nat
  BY MessageTypes DEF AppendEntriesResponseMsg
<1>2. Leads(m.to, m.term) /\ Grown(m.to)
  BY <1>1 DEF Leads, LeadersGrown
<1>3. Len(log[m.to]) \in Nat /\ Len(log'[m.to]) \in Nat
  BY <1>1, LenProperties DEF TypeOK
<1> QED
  BY <1>1, <1>2, <1>3 DEF AcksWithin, Grown

\* Such a step keeps the invariant if what it sends and what it notes down are as they should be
LEMMA GrownStep ==
    ASSUME TypeOK, TypeOK', ReplicationInv, LeadersGrown,
           \A m \in BagToSet(net') : m \in BagToSet(net) \/ (Reflected(m)' /\ AcksWithin(m)'),
           \A n \in Server : \/ nextIndex'[n] = nextIndex[n] /\ matchIndex'[n] = matchIndex[n]
                             \/ CreditsWithin(n)'
    PROVE  ReplicationInv'
<1>1. ASSUME NEW m \in BagToSet(net')
      PROVE  Reflected(m)' /\ AcksWithin(m)'
  <2>1. CASE m \in BagToSet(net)
    <3>1. m \in Message /\ Reflected(m) /\ AcksWithin(m)
      BY <2>1 DEF TypeOK, ReplicationInv, AppendsReflectLeaderLog, MatchWithinLeaderLog
    <3> QED
      BY <3>1, StaysReflected, StaysAcked
  <2> QED
    BY <1>1, <2>1
<1>2. ASSUME NEW n \in Server
      PROVE  CreditsWithin(n)'
  <2>1. CASE nextIndex'[n] = nextIndex[n] /\ matchIndex'[n] = matchIndex[n]
    <3> SUFFICES ASSUME state'[n] = "Leader", NEW p \in Others(n)
                 PROVE  /\ matchIndex[n][p] <= Len(log'[n])
                        /\ nextIndex[n][p] <= Len(log'[n]) + 1
      BY <2>1 DEF CreditsWithin, Others
    <3>1. state[n] = "Leader" /\ Grown(n)
      BY DEF LeadersGrown
    <3>2. p \in Server /\ Len(log[n]) \in Nat /\ Len(log'[n]) \in Nat
      BY LenProperties DEF TypeOK, Others
    <3>3. matchIndex[n][p] \in Nat /\ nextIndex[n][p] \in Nat
      BY <3>2 DEF TypeOK
    <3>4. matchIndex[n][p] <= Len(log[n]) /\ nextIndex[n][p] <= Len(log[n]) + 1
      BY <3>1 DEF ReplicationInv, MatchWithinLeaderLog, CreditsWithin
    <3> QED
      BY <3>1, <3>2, <3>3, <3>4 DEF Grown
  <2> QED
    BY <2>1
<1> QED
  BY <1>1, <1>2 DEF ReplicationInv, AppendsReflectLeaderLog, MatchWithinLeaderLog

-----------------------------------------------------------------------------
(* What is sent *)

LEMMA SentAppendEntries ==
    ASSUME TypeOK, TypeOK', NEW n \in Server, NEW p \in Server,
           NEW next \in Nat \ {0}, NEW commit, next <= Len(log'[n]) + 1,
           NEW s, s = log'[n], NEW m, m = AppendEntries(n, p, next, s, commit)
    PROVE  Reflected(m)' /\ AcksWithin(m)'
<1> DEFINE k == Len(s)
<1>1. s \in Seq(Entry) /\ k \in Nat
  BY LenProperties DEF TypeOK
<1>2. \A i \in next .. k : s[i] \in Entry
  BY <1>1, ElementOfSeq
<1>3. /\ Len(SubSeq(s, next, k)) = IF next <= k THEN k - next + 1 ELSE 0
      /\ \A i \in 1 .. k - next + 1 : SubSeq(s, next, k)[i] = s[next + i - 1]
  BY <1>1, <1>2, SubSeqProperties
<1>4. /\ m.type = "AppendEntries" /\ m.from = n /\ m.prevLogIndex = next - 1
      /\ m.entries = SubSeq(s, next, k)
  BY DEF AppendEntries
<1>5. m.prevLogIndex + Len(m.entries) <= k
  BY <1>1, <1>3, <1>4
<1>6. ASSUME NEW i \in 1..Len(m.entries)
      PROVE  m.entries[i] = s[m.prevLogIndex + i]
  <2>1. i \in 1 .. k - next + 1 /\ next + i - 1 = m.prevLogIndex + i
    BY <1>1, <1>3, <1>4
  <2> QED
    BY <1>3, <1>4, <2>1
<1> QED
  BY <1>4, <1>5, <1>6 DEF Reflected, AcksWithin

\* Messages of the other kinds say nothing of a leader's log, nor does a refusal
LEMMA SentOther ==
    ASSUME NEW m, m.type \in {"RequestVote", "RequestVoteResponse"} \/
                  (m.type = "AppendEntriesResponse" /\ ~m.success)
    PROVE  Reflected(m)' /\ AcksWithin(m)'
BY DEF Reflected, AcksWithin

LEMMA SentBroadcastReflected ==
    ASSUME TypeOK, TypeOK', NEW n \in Server, NEW nexts \in [Server -> Nat \ {0}],
           NEW commit, NEW s, s = log'[n], \A p \in Others(n) : nexts[p] <= Len(s) + 1,
           NEW m \in Broadcast(n, nexts, s, commit)
    PROVE  Reflected(m)' /\ AcksWithin(m)'
<1>1. PICK p \in Others(n) : m = AppendEntries(n, p, nexts[p], s, commit)
  BY DEF Broadcast
<1>2. p \in Server /\ nexts[p] \in Nat \ {0} /\ nexts[p] <= Len(s) + 1
  BY DEF Others
<1> QED
  BY <1>1, <1>2, SentAppendEntries

\* A leader's own nextIndex fits its log
LEMMA NextFits ==
    ASSUME TypeOK, ReplicationInv, NEW n \in Server, state[n] = "Leader"
    PROVE  /\ nextIndex[n] \in [Server -> Nat \ {0}]
           /\ \A p \in Others(n) : nextIndex[n][p] <= Len(log[n]) + 1
BY DEF TypeOK, ReplicationInv, MatchWithinLeaderLog, CreditsWithin

-----------------------------------------------------------------------------
(* The steps *)

\* Nothing changes but roles and terms, of nodes that end up as followers or candidates or stay as they
\* are
LEMMA QuietGrown ==
    ASSUME UNCHANGED log,
           \A n \in Server : state'[n] = "Leader" =>
               state[n] = "Leader" /\ currentTerm'[n] = currentTerm[n]
    PROVE  LeadersGrown
BY DEF LeadersGrown, Grown

LEMMA InitReplication == Init => ReplicationInv
<1>1. BagToSet(EmptyBag) = {}
  BY DEF BagToSet, EmptyBag, SetToBag
<1> QED
  BY <1>1 DEF Init, ReplicationInv, AppendsReflectLeaderLog, MatchWithinLeaderLog, CreditsWithin

LEMMA TickReplication ==
    ASSUME TypeOK, TypeOK', ReplicationInv, NEW n \in Server, Tick(n)
    PROVE  ReplicationInv'
<1>1. CASE BecomeCandidate(n) \/ RestartElection(n)
  <2>1. /\ UNCHANGED <<log, nextIndex, matchIndex>>
        /\ \A p \in Server : state'[p] = "Leader" =>
               state[p] = "Leader" /\ currentTerm'[p] = currentTerm[p]
    BY <1>1 DEF BecomeCandidate, RestartElection, logVars, leaderVars, serverVars, TypeOK
  <2>2. \E term : Exchange({}, VoteRequests(n, term))
    BY <1>1 DEF BecomeCandidate, RestartElection
  <2>3. \A m \in BagToSet(net') : m \in BagToSet(net) \/ m.type = "RequestVote"
    BY <2>2, ExchangeBag DEF VoteRequests
  <2> QED
    BY <2>1, <2>3, QuietGrown, SentOther, GrownStep
<1>2. CASE SendHeartbeats(n)
  <2>1. /\ UNCHANGED <<log, nextIndex, matchIndex, state, currentTerm>>
        /\ state[n] = "Leader"
        /\ Exchange({}, Broadcast(n, nextIndex[n], log[n], commitIndex[n]))
    BY <1>2 DEF SendHeartbeats, logVars, leaderVars, serverVars
  <2>2. ASSUME NEW m \in Broadcast(n, nextIndex[n], log[n], commitIndex[n])
        PROVE  Reflected(m)' /\ AcksWithin(m)'
    BY <2>1, <2>2, NextFits, SentBroadcastReflected
  <2>3. \A m \in BagToSet(net') : m \in BagToSet(net) \/ (Reflected(m)' /\ AcksWithin(m)')
    BY <2>1, <2>2, ExchangeBag
  <2> QED
    BY <2>1, <2>3, QuietGrown, GrownStep
<1> QED
  BY <1>1, <1>2 DEF Tick

LEMMA ProposeReplication ==
    ASSUME TypeOK, TypeOK', ReplicationInv, NEW n \in Server, Propose(n)
    PROVE  ReplicationInv'
<1> DEFINE e == [term |-> currentTerm[n], index |-> Len(log[n]) + 1]
           newLog == Append(log[n], e)
<1>1. /\ state[n] = "Leader"
      /\ log' = [log EXCEPT ![n] = newLog]
      /\ UNCHANGED <<state, currentTerm, nextIndex, matchIndex>>
      /\ Exchange({}, Broadcast(n, nextIndex[n], newLog, commitIndex[n]))
  BY DEF Propose, serverVars, leaderVars
<1>2. log[n] \in Seq(Entry) /\ Len(log[n]) \in Nat /\ e \in Entry
  BY LenProperties DEF TypeOK, Entry
<1> HIDE DEF e
<1>3. /\ Len(newLog) = Len(log[n]) + 1
      /\ \A i \in 1..Len(log[n]) : newLog[i] = log[n][i]
  BY <1>2, AppendProperties
<1>4. newLog = log'[n] /\ \A p \in Server : p # n => log'[p] = log[p]
  BY <1>1 DEF TypeOK
<1> HIDE DEF newLog
<1>5. LeadersGrown
  <2>1. ASSUME NEW p \in Server
        PROVE  Grown(p)
    <3>1. CASE p = n
      BY <1>2, <1>3, <1>4, <3>1 DEF Grown
    <3>2. CASE p # n
      <4>1. Len(log[p]) \in Nat /\ log'[p] = log[p]
        BY <1>4, <3>2, LenProperties DEF TypeOK
      <4> QED
        BY <4>1 DEF Grown
    <3> QED
      BY <3>1, <3>2
  <2> QED
    BY <1>1, <2>1 DEF LeadersGrown
<1>6. /\ nextIndex[n] \in [Server -> Nat \ {0}]
      /\ \A p \in Others(n) : nextIndex[n][p] <= Len(newLog) + 1
  <2>1. ASSUME NEW p \in Others(n)
        PROVE  nextIndex[n][p] <= Len(newLog) + 1
    <3>1. nextIndex[n][p] \in Nat /\ nextIndex[n][p] <= Len(log[n]) + 1
      BY <1>1, NextFits DEF Others
    <3> QED
      BY <1>2, <1>3, <3>1
  <2> QED
    BY <1>1, <2>1, NextFits
<1>7. ASSUME NEW m \in Broadcast(n, nextIndex[n], newLog, commitIndex[n])
      PROVE  Reflected(m)' /\ AcksWithin(m)'
  BY <1>4, <1>6, <1>7, SentBroadcastReflected
<1>8. \A m \in BagToSet(net') : m \in BagToSet(net) \/ (Reflected(m)' /\ AcksWithin(m)')
  BY <1>1, <1>7, ExchangeBag
<1> QED
  BY <1>1, <1>5, <1>8, GrownStep

\* Steps that send at most an answer of no consequence, and change no log
LEMMA QuietReplication ==
    ASSUME TypeOK, TypeOK', ReplicationInv, NEW m \in BagToSet(net),
           \/ RejectStaleRequestVote(m) \/ HandleRequestVote(m) \/ StepDown(m)
           \/ IgnoreResponse(m) \/ CountVote(m) \/ RejectStaleAppendEntries(m)
           \/ RejectPrevMismatch(m) \/ Lose(m)
    PROVE  ReplicationInv'
<1>1. m.to \in Server /\ m.term \in Nat /\ currentTerm[m.to] \in Nat
  BY TermCheckType DEF TypeOK
<1>2. UNCHANGED <<log, nextIndex, matchIndex>>
  BY DEF RejectStaleRequestVote, HandleRequestVote, StepDown, IgnoreResponse, CountVote,
         RejectStaleAppendEntries, RejectPrevMismatch, Lose, logVars, leaderVars
<1>3. \A k \in BagToSet(net') :
         \/ k \in BagToSet(net)
         \/ k.type = "RequestVoteResponse"
         \/ k.type = "AppendEntriesResponse" /\ ~k.success
  <2>1. \/ Exchange({m}, {})
        \/ \E term, granted : Exchange({m}, {VoteResponse(m, term, granted)})
        \/ \E term, match : Exchange({m}, {AppendResponse(m, term, FALSE, match)})
    BY DEF RejectStaleRequestVote, HandleRequestVote, StepDown, IgnoreResponse, CountVote,
           RejectStaleAppendEntries, RejectPrevMismatch, Lose
  <2>2. \A term, granted : VoteResponse(m, term, granted).type = "RequestVoteResponse"
    BY DEF VoteResponse
  <2>3. CASE Exchange({m}, {})
    BY <2>3, ExchangeBag
  <2>4. ASSUME NEW term, NEW granted, Exchange({m}, {VoteResponse(m, term, granted)})
        PROVE  \A k \in BagToSet(net') : k \in BagToSet(net) \/ k.type = "RequestVoteResponse"
    BY <2>2, <2>4, ExchangeBag
  <2>5. ASSUME NEW term, NEW match, Exchange({m}, {AppendResponse(m, term, FALSE, match)})
        PROVE  \A k \in BagToSet(net') :
                  k \in BagToSet(net) \/ (k.type = "AppendEntriesResponse" /\ ~k.success)
    <3> DEFINE r == AppendResponse(m, term, FALSE, match)
    <3>1. r.type = "AppendEntriesResponse" /\ ~r.success
      BY DEF AppendResponse
    <3>2. Exchange({m}, {r})
      BY <2>5
    <3> HIDE DEF r
    <3> QED
      BY <3>1, <3>2, ExchangeBag
  <2> QED
    BY <2>1, <2>3, <2>4, <2>5
<1>4. \A n \in Server : state'[n] = "Leader" =>
          state[n] = "Leader" /\ currentTerm'[n] = currentTerm[n]
  <2>1. CASE UNCHANGED serverVars
    BY <2>1 DEF serverVars
  <2>2. CASE StepDown(m)
    BY <1>1, <2>2 DEF StepDown, TypeOK
  <2>3. CASE /\ m.term >= currentTerm[m.to]
             /\ currentTerm' = [currentTerm EXCEPT ![m.to] = m.term]
             /\ state' = [state EXCEPT ![m.to] = StateAfterTermCheck(m)]
    <3>1. StateAfterTermCheck(m) = "Leader" => state[m.to] = "Leader" /\ m.term = currentTerm[m.to]
      BY <1>1, <2>3 DEF StateAfterTermCheck
    <3>2. \A n \in Server : state'[n] = IF n = m.to THEN StateAfterTermCheck(m) ELSE state[n]
      BY <2>3 DEF TypeOK
    <3>3. \A n \in Server : currentTerm'[n] = IF n = m.to THEN m.term ELSE currentTerm[n]
      BY <2>3 DEF TypeOK
    <3> QED
      BY <3>1, <3>2, <3>3
  <2> QED
    BY <2>1, <2>2, <2>3 DEF RejectStaleRequestVote, HandleRequestVote, IgnoreResponse, CountVote,
       RejectStaleAppendEntries, RejectPrevMismatch, AdoptTerm, Lose
<1> QED
  BY <1>2, <1>3, <1>4, QuietGrown, SentOther, GrownStep

\* A new leader has sent nothing in its term before, and nobody has answered
LEMMA BecomeLeaderReplication ==
    ASSUME TypeOK, TypeOK', ElectionInv, ReplicationInv, NEW m \in BagToSet(net), BecomeLeader(m)
    PROVE  ReplicationInv'
<1> DEFINE n == m.to
           first == [p \in Server |-> Len(log[n]) + 1]
<1>1. n \in Server /\ state[n] = "Candidate"
  BY TermCheckType DEF TypeOK, BecomeLeader
<1>2. /\ state' = [state EXCEPT ![n] = "Leader"]
      /\ nextIndex' = [nextIndex EXCEPT ![n] = first]
      /\ matchIndex' = [matchIndex EXCEPT ![n] = [p \in Server |-> 0]]
      /\ Exchange({m}, Broadcast(n, nextIndex'[n], log[n], commitIndex[n]))
      /\ UNCHANGED <<currentTerm, log>>
  BY DEF BecomeLeader, logVars
<1>3. Len(log[n]) \in Nat
  BY <1>1, LenProperties DEF TypeOK
<1> HIDE DEF n
<1>4. nextIndex'[n] = first /\ first \in [Server -> Nat \ {0}]
  BY <1>1, <1>2, <1>3 DEF TypeOK
<1>5. \A p \in Server : p # n => /\ state'[p] = state[p]
                                 /\ nextIndex'[p] = nextIndex[p]
                                 /\ matchIndex'[p] = matchIndex[p]
  BY <1>2 DEF TypeOK
<1>6. ASSUME NEW k \in BagToSet(net)
      PROVE  Reflected(k)' /\ AcksWithin(k)'
  <2>1. /\ k \in Message /\ k.from \in Server /\ k.to \in Server
        /\ Reflected(k) /\ AcksWithin(k)
    BY TermCheckType DEF TypeOK, ReplicationInv, AppendsReflectLeaderLog, MatchWithinLeaderLog
  <2>2. <<currentTerm[n], n>> \notin elected
    BY <1>1 DEF ElectionInv, ElectedBacked
  <2>3. Backed(k)
    BY DEF ElectionInv, MessagesBacked
  <2>4. k.type = "AppendEntries" => ~(k.from = n /\ currentTerm[n] = k.term)
    BY <2>2, <2>3 DEF Backed
  <2>5. k.type = "AppendEntriesResponse" /\ k.success => ~(k.to = n /\ currentTerm[n] = k.term)
    BY <2>2, <2>3 DEF Backed
  <2>6. Reflected(k)'
    BY <1>2, <1>5, <2>1, <2>4 DEF Reflected, Leads
  <2>7. AcksWithin(k)'
    BY <1>2, <1>5, <2>1, <2>5 DEF AcksWithin, Leads
  <2> QED
    BY <2>6, <2>7
<1>7. ASSUME NEW k \in Broadcast(n, first, log[n], commitIndex[n])
      PROVE  Reflected(k)' /\ AcksWithin(k)'
  <2>1. \A p \in Others(n) : first[p] <= Len(log[n]) + 1
    BY <1>3 DEF Others
  <2> HIDE DEF first
  <2> QED
    BY <1>1, <1>2, <1>4, <1>7, <2>1, SentBroadcastReflected
<1>8. ASSUME NEW p \in Server
      PROVE  CreditsWithin(p)'
  <2>1. CASE p = n
    BY <1>1, <1>2, <1>3, <1>4, <2>1 DEF CreditsWithin, Others, TypeOK
  <2>2. CASE p # n
    BY <1>2, <1>5, <2>2 DEF CreditsWithin, Others, ReplicationInv, MatchWithinLeaderLog
  <2> QED
    BY <2>1, <2>2
<1>9. \A k \in BagToSet(net') : Reflected(k)' /\ AcksWithin(k)'
  BY <1>2, <1>4, <1>6, <1>7, ExchangeBag
<1> QED
  BY <1>8, <1>9 DEF ReplicationInv, AppendsReflectLeaderLog, MatchWithinLeaderLog

\* A leader receives no AppendEntries of its term: the receiver ends as no leader, and acknowledges
\* to the leader of the term what that leader has sent
LEMMA AcceptReplication ==
    ASSUME TypeOK, TypeOK', ElectionInv, ElectionSafety, ReplicationInv,
           NEW m \in BagToSet(net), AcceptAppendEntries(m)
    PROVE  ReplicationInv'
<1> DEFINE n == m.to
           r == AppendResponse(m, m.term, TRUE, AckedIndex(m))
<1>1. /\ m \in AppendEntriesMsg /\ m.type = "AppendEntries"
      /\ n \in Server /\ m.from \in Server /\ m.term \in Nat /\ currentTerm[n] \in Nat
      /\ m.term >= currentTerm[n]
  BY MessageTypes, TermCheckType DEF AcceptAppendEntries, TypeOK
<1>2. /\ currentTerm' = [currentTerm EXCEPT ![n] = m.term]
      /\ state' = [state EXCEPT ![n] = StateAfterTermCheck(m)]
      /\ log' = [log EXCEPT ![n] = LogAfterAppend(m)]
      /\ Exchange({m}, {r})
      /\ UNCHANGED <<nextIndex, matchIndex>>
  BY DEF AcceptAppendEntries, AdoptTerm, leaderVars
<1>3. m.from # n /\ <<m.term, m.from>> \in elected
  BY <1>1 DEF ElectionInv, MessagesBacked, Backed
<1>4. StateAfterTermCheck(m) # "Leader"
  <2> SUFFICES ASSUME m.term = currentTerm[n], state[n] = "Leader"
               PROVE  FALSE
    BY <1>1 DEF StateAfterTermCheck
  <2>1. <<m.term, n>> \in elected
    BY <1>1 DEF ElectionInv, ElectedBacked
  <2> QED
    BY <1>3, <2>1 DEF ElectionSafety
<1>5. /\ r.type = "AppendEntriesResponse" /\ r.to = m.from /\ r.term = m.term
      /\ r.matchIndex = m.prevLogIndex + Len(m.entries)
  BY DEF AppendResponse, AckedIndex
<1> HIDE DEF n, r
<1>6. state'[n] # "Leader" /\ \A p \in Server : p # n =>
          state'[p] = state[p] /\ currentTerm'[p] = currentTerm[p] /\ log'[p] = log[p]
  BY <1>1, <1>2, <1>4 DEF TypeOK
<1>7. LeadersGrown
  <2> SUFFICES ASSUME NEW p \in Server, p # n
               PROVE  Grown(p)
    BY <1>6 DEF LeadersGrown
  <2>1. log'[p] = log[p] /\ Len(log[p]) \in Nat
    BY <1>6, LenProperties DEF TypeOK
  <2> QED
    BY <2>1 DEF Grown
<1>8. ASSUME NEW k, k = r
      PROVE  Reflected(k)' /\ AcksWithin(k)'
  <2>1. Reflected(m)
    BY DEF ReplicationInv, AppendsReflectLeaderLog
  <2>2. Leads(m.from, m.term)' => r.matchIndex <= Len(log'[m.from])
    BY <1>1, <1>3, <1>5, <1>6, <2>1 DEF Reflected, Leads
  <2> QED
    BY <1>5, <1>8, <2>2 DEF Reflected, AcksWithin
<1>9. \A k \in BagToSet(net') : k \in BagToSet(net) \/ (Reflected(k)' /\ AcksWithin(k)')
  BY <1>2, <1>8, ExchangeBag
<1> QED
  BY <1>2, <1>7, <1>9, GrownStep

\* What a leader notes down is an acknowledgement within its log
LEMMA SuccessReplication ==
    ASSUME TypeOK, TypeOK', ReplicationInv, NEW m \in BagToSet(net), HandleAppendSuccess(m)
    PROVE  ReplicationInv'
<1> DEFINE n == m.to
           match == [matchIndex[n] EXCEPT ![m.from] = m.matchIndex]
           next == [nextIndex[n] EXCEPT ![m.from] = m.matchIndex + 1]
<1>1. /\ m \in AppendEntriesResponseMsg /\ m.type = "AppendEntriesResponse"
      /\ n \in Server /\ m.from \in Server /\ m.matchIndex \in Nat
      /\ state[n] = "Leader" /\ m.term = currentTerm[n] /\ m.success
  BY MessageTypes, TermCheckType DEF HandleAppendSuccess, TypeOK, AppendEntriesResponseMsg
<1>2. m.matchIndex <= Len(log[n]) /\ Len(log[n]) \in Nat
  <2>1. AcksWithin(m)
    BY DEF ReplicationInv, MatchWithinLeaderLog
  <2> QED
    BY <1>1, <2>1, LenProperties DEF AcksWithin, Leads, TypeOK
<1>3. /\ matchIndex' = [matchIndex EXCEPT ![n] = match]
      /\ nextIndex' = [nextIndex EXCEPT ![n] = next]
      /\ UNCHANGED <<state, currentTerm, log>>
  BY DEF HandleAppendSuccess, serverVars
<1>4. PICK commit : Exchange({m}, IF commit > 0 THEN Broadcast(n, next, log[n], commit) ELSE {})
  BY DEF HandleAppendSuccess
<1>5. /\ matchIndex[n] \in [Server -> Nat]
      /\ nextIndex[n] \in [Server -> Nat \ {0}]
      /\ \A p \in Others(n) : matchIndex[n][p] <= Len(log[n]) /\ nextIndex[n][p] <= Len(log[n]) + 1
  BY <1>1 DEF TypeOK, ReplicationInv, MatchWithinLeaderLog, CreditsWithin
<1> HIDE DEF n
<1>6. /\ match \in [Server -> Nat]
      /\ next \in [Server -> Nat \ {0}]
  BY <1>1, <1>5
<1>7. ASSUME NEW p \in Others(n)
      PROVE  match[p] <= Len(log[n]) /\ next[p] <= Len(log[n]) + 1
  <2>1. CASE p = m.from
    BY <1>1, <1>2, <1>5, <2>1 DEF Others
  <2>2. CASE p # m.from
    BY <1>1, <1>5, <2>2 DEF Others
  <2> QED
    BY <2>1, <2>2
<1> HIDE DEF match, next
<1>8. LeadersGrown
  BY <1>3, QuietGrown
<1>9. ASSUME NEW k \in Broadcast(n, next, log[n], commit)
      PROVE  Reflected(k)' /\ AcksWithin(k)'
  BY <1>1, <1>3, <1>6, <1>7, <1>9, SentBroadcastReflected
<1>10. \A k \in BagToSet(net') : k \in BagToSet(net) \/ (Reflected(k)' /\ AcksWithin(k)')
  <2>1. CASE commit > 0
    BY <1>4, <1>9, <2>1, ExchangeBag
  <2>2. CASE ~(commit > 0)
    BY <1>4, <2>2, ExchangeBag
  <2> QED
    BY <2>1, <2>2
<1>11. ASSUME NEW p \in Server
       PROVE  \/ nextIndex'[p] = nextIndex[p] /\ matchIndex'[p] = matchIndex[p]
              \/ CreditsWithin(p)'
  <2>1. CASE p = n
    BY <1>1, <1>3, <1>7, <2>1 DEF CreditsWithin, Others, TypeOK
  <2>2. CASE p # n
    BY <1>3, <2>2 DEF TypeOK
  <2> QED
    BY <2>1, <2>2
<1> QED
  BY <1>8, <1>10, <1>11, GrownStep

\* A retry sends from one position earlier, still within the log
LEMMA FailureReplication ==
    ASSUME TypeOK, TypeOK', ElectionInv, ReplicationInv,
           NEW m \in BagToSet(net), HandleAppendFailure(m)
    PROVE  ReplicationInv'
<1> DEFINE n == m.to
           p == m.from
           old == nextIndex[n][p]
           next == IF old > 1 THEN old - 1 ELSE old
<1>1. /\ n \in Server /\ p \in Server /\ p # n /\ state[n] = "Leader"
  BY TermCheckType DEF TypeOK, HandleAppendFailure, ElectionInv, MessagesBacked, Backed
<1>2. UNCHANGED <<state, currentTerm, log, matchIndex>>
  BY DEF HandleAppendFailure, serverVars, logVars
<1>3. old \in Nat \ {0} /\ old <= Len(log[n]) + 1 /\ Len(log[n]) \in Nat
  BY <1>1, NextFits, LenProperties DEF Others, TypeOK
<1>4. nextIndex' = [nextIndex EXCEPT ![n] = [nextIndex[n] EXCEPT ![p] = next]]
  BY DEF HandleAppendFailure
<1>5. Exchange({m}, {AppendEntries(n, p, nextIndex'[n][p], log[n], commitIndex[n])})
  BY DEF HandleAppendFailure
<1> HIDE DEF n, p
<1>6. next \in Nat \ {0} /\ next <= Len(log[n]) + 1
  BY <1>3
<1>7. nextIndex'[n] = [nextIndex[n] EXCEPT ![p] = next]
  BY <1>1, <1>4 DEF TypeOK
<1>8. nextIndex'[n][p] = next
  BY <1>1, <1>7 DEF TypeOK
<1>9. ASSUME NEW k, k = AppendEntries(n, p, next, log[n], commitIndex[n])
      PROVE  Reflected(k)' /\ AcksWithin(k)'
  <2> HIDE DEF next
  <2> QED
    BY <1>1, <1>2, <1>6, <1>9, SentAppendEntries
<1>10. \A k \in BagToSet(net') : k \in BagToSet(net) \/ (Reflected(k)' /\ AcksWithin(k)')
  <2> DEFINE r == AppendEntries(n, p, next, log[n], commitIndex[n])
  <2>1. Exchange({m}, {r})
    BY <1>5, <1>8
  <2>2. \A k \in BagToSet(net') : k \in BagToSet(net) \/ k = r
    <3> HIDE DEF r
    <3> QED
      BY <2>1, ExchangeBag
  <2> QED
    BY <1>9, <2>2
<1>11. ASSUME NEW q \in Server
      PROVE  \/ nextIndex'[q] = nextIndex[q] /\ matchIndex'[q] = matchIndex[q]
             \/ CreditsWithin(q)'
  <2>1. CASE q = n
    <3> SUFFICES ASSUME NEW o \in Others(n)
                 PROVE  matchIndex[n][o] <= Len(log[n]) /\ nextIndex'[n][o] <= Len(log[n]) + 1
      BY <1>2, <2>1 DEF CreditsWithin, Others
    <3>1. matchIndex[n][o] <= Len(log[n]) /\ nextIndex[n][o] <= Len(log[n]) + 1
      BY <1>1 DEF ReplicationInv, MatchWithinLeaderLog, CreditsWithin
    <3>2. CASE o = p
      BY <1>6, <1>8, <3>1, <3>2
    <3>3. CASE o # p
      BY <1>1, <1>7, <3>1, <3>3 DEF Others, TypeOK
    <3> QED
      BY <3>2, <3>3
  <2>2. CASE q # n
    BY <1>2, <1>4, <2>2 DEF TypeOK
  <2> QED
    BY <2>1, <2>2
<1> QED
  BY <1>2, <1>10, <1>11, QuietGrown, GrownStep

LEMMA NextReplication ==
    TypeOK /\ TypeOK' /\ ElectionInv /\ ElectionSafety /\ ReplicationInv /\ [Next]_vars
        => ReplicationInv'
<1> SUFFICES ASSUME TypeOK, TypeOK', ElectionInv, ElectionSafety, ReplicationInv, [Next]_vars
             PROVE  ReplicationInv'
  OBVIOUS
<1>1. ASSUME NEW n \in Server, Tick(n)
      PROVE  ReplicationInv'
  BY <1>1, TickReplication
<1>2. ASSUME NEW n \in Server, Propose(n)
      PROVE  ReplicationInv'
  BY <1>2, ProposeReplication
<1>3. ASSUME NEW m \in BagToSet(net), Receive(m)
      PROVE  ReplicationInv'
  BY <1>3, QuietReplication, BecomeLeaderReplication, AcceptReplication, SuccessReplication,
     FailureReplication DEF Receive
<1>4. ASSUME NEW m \in BagToSet(net), Lose(m)
      PROVE  ReplicationInv'
  BY <1>4, QuietReplication
<1>5. CASE UNCHANGED vars
  BY <1>5 DEF vars, serverVars, logVars, leaderVars, ReplicationInv, AppendsReflectLeaderLog,
     MatchWithinLeaderLog, CreditsWithin, Reflected, AcksWithin, Leads
<1> QED
  BY <1>1, <1>2, <1>3, <1>4, <1>5 DEF Next

-----------------------------------------------------------------------------
(* The theorems *)

LEMMA SmallClusterReplication ==
    ASSUME Cardinality(Server) <= 3
    PROVE  Spec => []ReplicationInv
<1>1. Spec => []ElectionSafety
  BY SmallClusterElectionSafety
<1> QED
  BY <1>1, TypeCorrect, ElectionInvariant, InitReplication, NextReplication, PTL DEF Spec

\* With at most three nodes, what is in flight from the leader of a term is a section of the log that
\* leader has now, however late it is (raft.go:341-361).
THEOREM SmallClusterAppends ==
    ASSUME Cardinality(Server) <= 3
    PROVE  Spec => []AppendsReflectLeaderLog
<1>1. ReplicationInv => AppendsReflectLeaderLog
  BY DEF ReplicationInv
<1> QED
  BY <1>1, SmallClusterReplication, PTL

\* With at most three nodes, a leader never credits a follower with entries it does not hold itself, in
\* whatever order acknowledgements arrive: checkCommitIndex counts within the log, and the slice sent
\* next is one of the log (raft.go:341-349, 779-780, 877).
THEOREM SmallClusterMatch ==
    ASSUME Cardinality(Server) <= 3
    PROVE  Spec => []MatchWithinLeaderLog
<1>1. ReplicationInv => MatchWithinLeaderLog
  BY DEF ReplicationInv
<1> QED
  BY <1>1, SmallClusterReplication, PTL

=============================================================================
