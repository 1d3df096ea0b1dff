--------------------------- MODULE WatcherProofs ----------------------------
(* What TLAPS proves of Watcher, for any keys, patterns, capacities and bounds. *)
EXTENDS Watcher, TLAPS, SequenceTheorems, WellFoundedInduction

(***************************************************************************)
(* No panic before Stop                                                    *)
(***************************************************************************)

(* A registered watch has an open channel until Stop, and nobody has panicked.  A
   new watch is open since only ids handed out before are ever closed. *)
OpenUntilStop ==
    /\ patterns \in Seq(Pattern)
    /\ watches \cup chanClosed \subseteq Created
    /\ ~stopped => watches \cap chanClosed = {} /\ ~panicked
    /\ stopped \in BOOLEAN

LEMMA OpenInit == Init => OpenUntilStop
<1>1. Init => /\ patterns \in Seq(Pattern)
              /\ watches \cup chanClosed = {}
  BY DEF Init
<1>2. Init => stopped = FALSE /\ panicked = FALSE
  BY DEF Init
<1> QED
  BY <1>1, <1>2 DEF OpenUntilStop

\* Of the actions only these four write what OpenUntilStop is about; Distribute and
\* SendEvent may panic.
LEMMA OpenStep ==
    ASSUME OpenUntilStop, [Next]_vars
    PROVE  OpenUntilStop'
<1> USE DEF OpenUntilStop
<1>1. ASSUME NEW p \in Pattern, Watch(p), ~panicked
      PROVE  OpenUntilStop'
  <2> DEFINE id == Len(patterns) + 1
  <2>1. /\ patterns' \in Seq(Pattern)
        /\ Len(patterns') = id
        /\ id \in Nat \ Created
        /\ Created' = Created \cup {id}
    BY <1>1 DEF Watch, Created
  <2>2. /\ watches' = watches \cup {id}
        /\ UNCHANGED <<chanClosed, panicked, stopped>>
    BY <1>1 DEF Watch, chanVars, closeVars
  <2> HIDE DEF id
  <2> QED
    BY <2>1, <2>2
<1>2. ASSUME NEW id \in WatchId, Cancel(id) \/ CleanupWatch(id), ~panicked
      PROVE  OpenUntilStop'
  <2>1. /\ id \in watches
        /\ chanClosed' = chanClosed \cup {id}
        /\ panicked' = ({id} \cap chanClosed # {})
        /\ watches' = watches \ {id}
        /\ UNCHANGED <<patterns, stopped>>
    BY <1>2 DEF Cancel, CleanupWatch, CloseWatch, Unregister, Registered, closeVars
  <2> QED
    BY <2>1 DEF Created
<1>3. ASSUME SendEvent \/ Distribute, ~panicked
      PROVE  OpenUntilStop'
  <2>1. /\ UNCHANGED <<patterns, watches, chanClosed, stopped>>
        /\ ~stopped => panicked' = FALSE
    BY <1>3 DEF SendEvent, Distribute, Recipients, watchVars, chanVars, closeVars
  <2> QED
    BY <2>1 DEF Created
<1>4. ASSUME Stop, ~panicked
      PROVE  OpenUntilStop'
  <2>1. /\ stopped' = TRUE
        /\ chanClosed' = chanClosed \cup watches
        /\ UNCHANGED <<patterns, watches>>
    BY <1>4 DEF Stop, CloseWatch, watchVars
  <2> QED
    BY <2>1 DEF Created
<1>5. ASSUME UNCHANGED <<patterns, watches, chanClosed, stopped, panicked>>
      PROVE  OpenUntilStop'
  BY <1>5 DEF Created
<1>6. CASE UNCHANGED vars
  BY <1>5, <1>6 DEF vars, watchVars, chanVars, closeVars
<1>7. ASSUME NEW id \in WatchId, Forwarder(id) \/ Client(id)
      PROVE  OpenUntilStop'
  BY <1>5, <1>7 DEF Forwarder, Client, Forward, PutResult, EndForwarding, Receive,
                    watchVars, chanVars, closeVars
<1>8. CASE EventLoop
  BY <1>3, <1>5, <1>8 DEF EventLoop, TakeEvent, EndLoop, watchVars, chanVars, closeVars
<1>9. CASE EngineCalls
  BY <1>1, <1>2, <1>3, <1>4, <1>5, <1>9
     DEF EngineCalls, StartNotify, CloseEngine, watchVars, chanVars, closeVars
<1>10. ASSUME NEW id \in WatchId, Cleanup(id)
       PROVE  OpenUntilStop'
  BY <1>2, <1>10 DEF Cleanup
<1> QED
  BY <1>6, <1>7, <1>8, <1>9, <1>10 DEF Next

\* As long as the watcher is not stopped no goroutine panics, with any number of
\* watches and events.
THEOREM NoPanicBeforeStop == Spec => []PanicOnlyOnceStopped
<1>1. OpenUntilStop => PanicOnlyOnceStopped
  BY DEF OpenUntilStop, PanicOnlyOnceStopped
<1> QED
  BY <1>1, OpenInit, OpenStep, PTL DEF Spec

(***************************************************************************)
(* The library's RemoveFirst                                               *)
(***************************************************************************)

\* Min, a CHOOSE, of a set of numbers that is not empty
LEMMA LeastMember ==
    ASSUME NEW S, S \subseteq Nat, S # {}
    PROVE  /\ Min(S) \in S
           /\ \A y \in S : Min(S) <= y
<1>1. \E x \in S : \A y \in S : ~(<<y, x>> \in OpToRel(<, Nat))
  BY NatLessThanWellFounded, WFMin
<1>2. \E x \in S : \A y \in S : x <= y
  <2>1. PICK x \in S : \A y \in S : ~(<<y, x>> \in OpToRel(<, Nat))
    BY <1>1
  <2>2. ASSUME NEW y \in S, ~(x <= y)
        PROVE  FALSE
    <3>1. x \in Nat /\ y \in Nat /\ y < x
      BY <2>2
    <3>2. <<y, x>> \in OpToRel(<, Nat)
      BY <3>1 DEF OpToRel
    <3> QED
      BY <3>2, <2>1
  <2> QED
    BY <2>2
<1> QED
  BY <1>2 DEF Min

\* removeFromMapping takes out one id and leaves the others
LEMMA RemoveFirstKeepsOthers ==
    ASSUME NEW S, NEW s \in Seq(S), NEW e
    PROVE  /\ RemoveFirst(s, e) \in Seq(S)
           /\ \A x \in ToSet(s) \ {e} : x \in ToSet(RemoveFirst(s, e))
<1> DEFINE I == {i \in 1..Len(s) : s[i] = e}
           k == Min(I)
           a == SubSeq(s, 1, k - 1)
           b == SubSeq(s, k + 1, Len(s))
<1>1. CASE I = {}
  BY <1>1 DEF RemoveFirst
<1>2. CASE I # {}
  <2>1. RemoveFirst(s, e) = a \o b
    <3>1. SelectInSeq(s, LAMBDA v : v = e) = k
      BY <1>2, Zenon DEF SelectInSeq
    <3>2. \E i \in 1..Len(s) : s[i] = e
      BY <1>2
    <3>3. RemoveFirst(s, e) = RemoveAt(s, SelectInSeq(s, LAMBDA v : v = e))
      BY <3>2, Zenon DEF RemoveFirst
    <3>4. RemoveAt(s, k) = a \o b
      BY DEF RemoveAt
    <3> HIDE DEF k
    <3> QED
      BY <3>1, <3>3, <3>4, Zenon
  <2>2. /\ k \in 1..Len(s)
        /\ s[k] = e
    <3>1. I \subseteq Nat
      OBVIOUS
    <3>2. k \in I
      <4> HIDE DEF I
      <4> QED
        BY <1>2, <3>1, LeastMember
    <3> HIDE DEF k
    <3> QED
      BY <3>2
  <2> HIDE DEF k
  <2>3. /\ Len(s) \in Nat
        /\ \A i \in 1..Len(s) : s[i] \in S
        /\ DOMAIN s = 1..Len(s)
    BY ElementOfSeq, LenProperties
  <2>4. /\ a \in Seq(S) /\ Len(a) = k - 1
        /\ \A i \in 1..(k - 1) : a[i] = s[i]
    <3>1. \A i \in 1..(k - 1) : s[i] \in S
      BY <2>2, <2>3
    <3>2. /\ a \in Seq(S)
          /\ Len(a) = IF 1 <= k - 1 THEN (k - 1) - 1 + 1 ELSE 0
          /\ \A i \in 1..((k - 1) - 1 + 1) : a[i] = s[1 + i - 1]
      BY <3>1, <2>2, SubSeqProperties
    <3> HIDE DEF a
    <3> QED
      BY <3>2, <2>2, <2>3
  <2>5. /\ b \in Seq(S) /\ Len(b) = Len(s) - k
        /\ \A i \in 1..(Len(s) - k) : b[i] = s[k + i]
    <3>1. \A i \in (k + 1)..Len(s) : s[i] \in S
      BY <2>2, <2>3
    <3>2. /\ b \in Seq(S)
          /\ Len(b) = IF k + 1 <= Len(s) THEN Len(s) - (k + 1) + 1 ELSE 0
          /\ \A i \in 1..(Len(s) - (k + 1) + 1) : b[i] = s[(k + 1) + i - 1]
      BY <3>1, <2>2, <2>3, SubSeqProperties
    <3> HIDE DEF b
    <3>3. Len(b) = Len(s) - k
      <4>1. CASE k + 1 <= Len(s)
        <5>1. Len(b) = Len(s) - (k + 1) + 1
          BY <3>2, <4>1
        <5> QED
          BY <5>1, <2>2, <2>3
      <4>2. CASE ~(k + 1 <= Len(s))
        <5>1. Len(b) = 0
          BY <3>2, <4>2
        <5>2. k = Len(s)
          <6>1. k \in Int /\ k <= Len(s) /\ Len(s) \in Int
            BY <2>2, <2>3
          <6> QED
            BY <6>1, <4>2
        <5> QED
          BY <5>1, <5>2, <2>3
      <4> QED
        BY <4>1, <4>2
    <3>4. ASSUME NEW i \in 1..(Len(s) - k)
          PROVE  b[i] = s[k + i]
      <4>1. i \in 1..(Len(s) - (k + 1) + 1) /\ (k + 1) + i - 1 = k + i
        BY <2>2, <2>3
      <4> QED
        BY <4>1, <3>2
    <3> QED
      BY <3>2, <3>3, <3>4
  <2> HIDE DEF a, b
  <2>6. /\ a \o b \in Seq(S)
        /\ Len(a \o b) = Len(a) + Len(b)
        /\ \A i \in 1..Len(a) + Len(b) :
               (a \o b)[i] = IF i <= Len(a) THEN a[i] ELSE b[i - Len(a)]
    BY <2>4, <2>5, ConcatProperties
  <2>7. ASSUME NEW x \in ToSet(s) \ {e}
        PROVE  x \in ToSet(a \o b)
    <3>1. PICK i \in 1..Len(s) : x = s[i] /\ i # k
      BY <2>7, <2>2, <2>3 DEF ToSet
    <3>2. DOMAIN (a \o b) = 1..(Len(s) - 1)
      BY <2>4, <2>5, <2>6, <2>2, <2>3, LenProperties
    <3>3. CASE i < k
      <4>1. (a \o b)[i] = x /\ i \in 1..(Len(s) - 1)
        BY <3>1, <3>3, <2>2, <2>3, <2>4, <2>5, <2>6
      <4> QED
        BY <4>1, <3>2 DEF ToSet
    <3>4. CASE i > k
      <4>1. /\ i - 1 \in 1..(Len(s) - 1) /\ ~(i - 1 <= Len(a))
            /\ (i - 1) - Len(a) = i - k /\ i - k \in 1..(Len(s) - k) /\ k + (i - k) = i
            /\ Len(a) + Len(b) = Len(s) - 1
        BY <3>4, <2>2, <2>3, <2>4, <2>5
      <4>2. (a \o b)[i - 1] = x
        BY <4>1, <3>1, <2>5, <2>6
      <4> QED
        BY <4>1, <4>2, <3>2 DEF ToSet
    <3> QED
      BY <3>1, <3>3, <3>4, <2>2
  <2> QED
    BY <2>1, <2>6, <2>7
<1> QED
  BY <1>1, <1>2

(***************************************************************************)
(* Types                                                                   *)
(***************************************************************************)

\* The event of a Notify under way has a number
WatcherTypes == TypeOK /\ (notifying # None => Len(notified) < MaxEvents)

\* What a channel holds after an offer, and after its head is taken
LEMMA OfferTypes ==
    ASSUME NEW S, NEW chan \in Seq(S), NEW event \in S, NEW cap \in Nat, Len(chan) <= cap
    PROVE  /\ Offer(chan, event, cap) \in Seq(S)
           /\ Len(Offer(chan, event, cap)) <= cap
<1>1. /\ Len(chan) \in Nat
      /\ Append(chan, event) \in Seq(S)
      /\ Len(Append(chan, event)) = Len(chan) + 1
  BY LenProperties, AppendProperties
<1>2. CASE Len(chan) < cap
  BY <1>1, <1>2 DEF Offer
<1>3. CASE ~(Len(chan) < cap)
  BY <1>3 DEF Offer
<1> QED
  BY <1>2, <1>3

LEMMA ReceivedTypes ==
    ASSUME NEW S, NEW chan \in Seq(S), chan # <<>>, NEW cap \in Nat, Len(chan) <= cap
    PROVE  /\ Head(chan) \in S
           /\ Received(chan) \in Seq(S)
           /\ Len(Received(chan)) <= cap
<1>1. /\ Head(chan) \in S
      /\ Tail(chan) \in Seq(S)
      /\ Len(Tail(chan)) = Len(chan) - 1
      /\ Len(chan) \in Nat
  BY HeadTailProperties, LenProperties
<1> QED
  BY <1>1 DEF Received

\* The types hold at first, and no step breaks them
LEMMA TypesInit == Init => WatcherTypes
<1> SUFFICES ASSUME Init
             PROVE  WatcherTypes
  OBVIOUS
<1> USE WatcherAssumption DEF Init, WatchId, Event, Created
<1>1. /\ patterns \in Seq(Pattern) /\ Created \subseteq WatchId /\ watches \subseteq Created
      /\ chanClosed \subseteq Created /\ resultClosed \subseteq chanClosed
  BY EmptySeq
<1>2. /\ watchers \in [Pattern -> Seq(WatchId)]
      /\ watchChan \in [WatchId -> Seq(Event)]
      /\ \A id \in WatchId : Len(watchChan[id]) <= WatchCap
      /\ eventChan \in Seq(Event) /\ Len(eventChan) <= EventCap
  BY EmptySeq
<1>3. /\ distributing \in Event \cup {NoEvent}
      /\ notifying \in Key \cup {None}
      /\ forwarding \in [WatchId -> Event \cup {NoEvent}]
  OBVIOUS
<1>4. /\ resultChan \in [WatchId -> Seq(Event)]
      /\ \A id \in WatchId : Len(resultChan[id]) <= ResultCap
      /\ received \in [WatchId -> Seq(Event)]
  BY EmptySeq
<1>5. {stopped, looping, engineClosed, panicked} \subseteq BOOLEAN
  OBVIOUS
<1>6. /\ notified \in Seq(Key) /\ Len(notified) <= MaxEvents
      /\ missed \in [WatchId -> SUBSET Event]
  BY EmptySeq
<1>7. notifying = None
  OBVIOUS
<1> QED
  BY <1>1, <1>2, <1>3, <1>4, <1>5, <1>6, <1>7 DEF TypeOK, WatcherTypes

LEMMA TypesStep ==
    ASSUME WatcherTypes, [Next]_vars
    PROVE  WatcherTypes'
<1> USE WatcherAssumption DEF WatcherTypes, TypeOK
<1>1. ASSUME NEW p \in Pattern, Watch(p)
      PROVE  WatcherTypes'
  <2> DEFINE id == Len(patterns) + 1
  <2>1. /\ patterns' \in Seq(Pattern)
        /\ Len(patterns') = id
        /\ id \in WatchId
        /\ Created' = Created \cup {id}
        /\ Created' \subseteq WatchId
    <3>1. patterns \in Seq(Pattern) /\ patterns' = Append(patterns, p) /\ id \in WatchId
      BY <1>1 DEF Watch, WatchId
    <3>2. PICK n \in Nat : n = Len(patterns)
      BY <3>1, LenProperties
    <3>3. patterns' \in Seq(Pattern) /\ Len(patterns') = n + 1
      BY <3>1, <3>2, AppendProperties
    <3>4. Created = 1..n /\ Created' = 1..(n + 1)
      BY <3>2, <3>3 DEF Created
    <3>5. 1..(n + 1) = 1..n \cup {n + 1}
      BY ONLY n \in Nat
    <3>6. 1..(n + 1) \subseteq WatchId
      BY <3>1, <3>2 DEF WatchId
    <3> QED
      BY <3>1, <3>2, <3>3, <3>4, <3>5, <3>6
  <2>2. /\ watches' = watches \cup {id}
        /\ UNCHANGED <<chanVars, queueVars, notifyVars, clientVars, closeVars, panicked>>
        /\ watchers' = [watchers EXCEPT ![p] = Append(@, id)]
        /\ missed' = [missed EXCEPT ![id] = 1..Len(notified)]
    BY <1>1 DEF Watch
  <2>3. watchers' \in [Pattern -> Seq(WatchId)]
    BY <2>1, <2>2, AppendProperties
  <2>4. missed' \in [WatchId -> SUBSET Event]
    <3>1. 1..Len(notified) \subseteq Event
      BY LenProperties DEF Event
    <3> QED
      BY <3>1, <2>1, <2>2
  <2> HIDE DEF id
  <2> QED
    BY <2>1, <2>2, <2>3, <2>4 DEF chanVars, queueVars, notifyVars, clientVars, closeVars
<1>2. ASSUME NEW id \in WatchId, Cancel(id) \/ CleanupWatch(id)
      PROVE  WatcherTypes'
  <2>1. /\ id \in watches
        /\ chanClosed' = chanClosed \cup {id}
        /\ panicked' = ({id} \cap chanClosed # {})
        /\ watches' = watches \ {id}
        /\ watchers' = [watchers EXCEPT ![patterns[id]] = RemoveFirst(@, id)]
        /\ UNCHANGED <<patterns, watchChan, queueVars, notifyVars, clientVars, closeVars,
                       missed>>
    BY <1>2 DEF Cancel, CleanupWatch, CloseWatch, Unregister, Registered
  <2>2. watchers' \in [Pattern -> Seq(WatchId)]
    BY <2>1, RemoveFirstKeepsOthers
  <2>3. panicked' \in BOOLEAN
    BY <2>1
  <2> QED
    BY <2>1, <2>2, <2>3 DEF Created, queueVars, notifyVars, clientVars, closeVars
<1>3. ASSUME NEW key \in Key, StartNotify(key)
      PROVE  WatcherTypes'
  BY <1>3 DEF StartNotify, Created, watchVars, chanVars, queueVars, clientVars, closeVars
<1>4. CASE SendEvent
  <2> DEFINE event == Len(notified) + 1
  <2>1. /\ notified' = Append(notified, notifying)
        /\ notifying \in Key
        /\ notifying' = None
        /\ panicked' = stopped
        /\ eventChan' = IF stopped THEN eventChan ELSE Offer(eventChan, event, EventCap)
        /\ missed' = [i \in WatchId |->
                         IF i \in Created /\ Len(eventChan) >= EventCap
                           THEN missed[i] \cup {event} ELSE missed[i]]
        /\ UNCHANGED <<watchVars, chanVars, distributing, looping, clientVars, closeVars>>
    BY <1>4 DEF SendEvent
  <2>2. /\ event \in Event
        /\ notified' \in Seq(Key)
        /\ Len(notified') <= MaxEvents
    BY <1>4, <2>1, LenProperties, AppendProperties DEF SendEvent, Event
  <2> HIDE DEF event
  <2>3. eventChan' \in Seq(Event) /\ Len(eventChan') <= EventCap
    BY <2>1, <2>2, OfferTypes
  <2>4. missed' \in [WatchId -> SUBSET Event]
    BY <2>1, <2>2
  <2>5. panicked' \in BOOLEAN
    BY <2>1
  <2> QED
    BY <2>1, <2>2, <2>3, <2>4, <2>5 DEF Created, watchVars, chanVars, clientVars, closeVars
<1>5. CASE TakeEvent
  <2>1. eventChan' \in Seq(Event) /\ Len(eventChan') <= EventCap /\ distributing' \in Event
    <3>1. /\ Head(eventChan) \in Event
          /\ Received(eventChan) \in Seq(Event)
          /\ Len(Received(eventChan)) <= EventCap
      BY <1>5, ReceivedTypes DEF TakeEvent
    <3> QED
      BY <3>1, <1>5 DEF TakeEvent
  <2> QED
    BY <2>1, <1>5 DEF TakeEvent, Created, watchVars, chanVars, notifyVars, clientVars, closeVars
<1>6. CASE EndLoop
  BY <1>6 DEF EndLoop, Created, watchVars, chanVars, notifyVars, clientVars, closeVars
<1>7. CASE Distribute
  <2> DEFINE to == Recipients(distributing)
             full == {i \in to : Len(watchChan[i]) >= WatchCap}
  <2>1. /\ distributing \in Event
        /\ panicked' = (to \cap chanClosed # {})
        /\ watchChan' = [i \in WatchId |-> IF i \in to \ chanClosed
                                           THEN Offer(watchChan[i], distributing, WatchCap)
                                           ELSE watchChan[i]]
        /\ missed' = [i \in WatchId |-> IF i \in full THEN missed[i] \cup {distributing}
                                         ELSE missed[i]]
        /\ distributing' = NoEvent
        /\ UNCHANGED <<watchVars, chanClosed, eventChan, looping, notifyVars, clientVars,
                       closeVars>>
    BY <1>7 DEF Distribute
  <2> HIDE DEF to, full
  <2>2. /\ watchChan' \in [WatchId -> Seq(Event)]
        /\ \A id \in WatchId : Len(watchChan'[id]) <= WatchCap
    BY <2>1, OfferTypes
  <2>3. missed' \in [WatchId -> SUBSET Event]
    BY <2>1
  <2>4. panicked' \in BOOLEAN
    BY <2>1
  <2> QED
    BY <2>1, <2>2, <2>3, <2>4 DEF Created, watchVars, notifyVars, clientVars, closeVars
<1>8. ASSUME NEW id \in WatchId, Forward(id)
      PROVE  WatcherTypes'
  <2>1. /\ Head(watchChan[id]) \in Event
        /\ Received(watchChan[id]) \in Seq(Event)
        /\ Len(Received(watchChan[id])) <= WatchCap
    BY <1>8, ReceivedTypes DEF Forward
  <2> QED
    BY <2>1, <1>8 DEF Forward, Created, watchVars, queueVars, notifyVars, closeVars
<1>9. ASSUME NEW id \in WatchId, PutResult(id)
      PROVE  WatcherTypes'
  <2>1. /\ Append(resultChan[id], forwarding[id]) \in Seq(Event)
        /\ Len(Append(resultChan[id], forwarding[id])) <= ResultCap
    <3>1. resultChan[id] \in Seq(Event) /\ forwarding[id] \in Event
      BY <1>9 DEF PutResult
    <3> QED
      BY <1>9, <3>1, AppendProperties, LenProperties DEF PutResult
  <2> QED
    BY <2>1, <1>9 DEF PutResult, Created, watchVars, chanVars, queueVars, notifyVars, closeVars
<1>10. ASSUME NEW id \in WatchId, EndForwarding(id)
       PROVE  WatcherTypes'
  BY <1>10 DEF EndForwarding, Created, watchVars, chanVars, queueVars, notifyVars, closeVars
<1>11. ASSUME NEW id \in WatchId, Receive(id)
       PROVE  WatcherTypes'
  <2>1. /\ Head(resultChan[id]) \in Event
        /\ Received(resultChan[id]) \in Seq(Event)
        /\ Len(Received(resultChan[id])) <= ResultCap
    BY <1>11, ReceivedTypes DEF Receive
  <2>2. received' \in [WatchId -> Seq(Event)]
    <3>1. Append(received[id], Head(resultChan[id])) \in Seq(Event)
      BY <2>1, AppendProperties
    <3> QED
      BY <3>1, <1>11 DEF Receive
  <2> QED
    BY <2>1, <2>2, <1>11
       DEF Receive, Created, watchVars, chanVars, queueVars, notifyVars, closeVars
<1>12. CASE CloseEngine
  BY <1>12 DEF CloseEngine, Created, watchVars, chanVars, queueVars, notifyVars, clientVars
<1>13. CASE Stop
  <2>1. panicked' \in BOOLEAN
    BY <1>13 DEF Stop, CloseWatch
  <2> QED
    BY <2>1, <1>13 DEF Stop, CloseWatch, Created, watchVars, queueVars, notifyVars, clientVars
<1>14. CASE UNCHANGED vars
  BY <1>14 DEF vars, Created, watchVars, chanVars, queueVars, notifyVars, clientVars, closeVars
<1> QED
  BY <1>1, <1>2, <1>3, <1>4, <1>5, <1>6, <1>7, <1>8, <1>9, <1>10, <1>11, <1>12, <1>13, <1>14
     DEF Next, EngineCalls, EventLoop, Cleanup, Forwarder, Client

\* The types of the watcher's state: no channel ever holds more than its capacity.
THEOREM WatcherTypesAlways == Spec => []TypeOK
<1>1. WatcherTypes => TypeOK
  BY DEF WatcherTypes
<1> QED
  BY <1>1, TypesInit, TypesStep, PTL DEF Spec

(***************************************************************************)
(* Order                                                                   *)
(***************************************************************************)

Increasing(s) == \A i, j \in DOMAIN s : i < j => s[i] < s[j]

\* All that a watch has been sent or may still be sent, in this order
Flow(id) == SentTo(id) \o Undistributed

\* What an Append does to the order and to the elements
LEMMA AppendNext ==
    ASSUME NEW s \in Seq(Nat), NEW n \in Nat, Increasing(s), ToSet(s) \subseteq 1..n
    PROVE  /\ Increasing(Append(s, n + 1))
           /\ ToSet(Append(s, n + 1)) = ToSet(s) \cup {n + 1}
<1> DEFINE t == Append(s, n + 1)
<1>1. /\ Len(s) \in Nat
      /\ DOMAIN s = 1..Len(s)
      /\ DOMAIN t = 1..(Len(s) + 1)
      /\ \A i \in 1..Len(s) : t[i] = s[i]
      /\ t[Len(s) + 1] = n + 1
  BY AppendProperties, LenProperties
<1>2. ASSUME NEW i \in 1..Len(s)
      PROVE  s[i] \in Nat /\ s[i] < n + 1
  <2>1. s[i] \in 1..n
    BY <1>1 DEF ToSet
  <2> QED
    BY <2>1
<1> HIDE DEF t
<1>3. Increasing(t)
  <2> SUFFICES ASSUME NEW i \in 1..(Len(s) + 1), NEW j \in 1..(Len(s) + 1), i < j
               PROVE  t[i] < t[j]
    BY <1>1 DEF Increasing
  <2>1. i \in 1..Len(s) /\ t[i] = s[i]
    BY <1>1
  <2>2. CASE j \in 1..Len(s)
    BY <2>1, <2>2, <1>1 DEF Increasing
  <2>3. CASE j = Len(s) + 1
    BY <2>1, <2>3, <1>1, <1>2
  <2> QED
    BY <2>2, <2>3, <1>1
<1>4. ToSet(t) = ToSet(s) \cup {n + 1}
  <2>1. ASSUME NEW i \in 1..(Len(s) + 1)
        PROVE  t[i] \in ToSet(s) \cup {n + 1}
    <3>1. CASE i \in 1..Len(s)
      BY <3>1, <1>1 DEF ToSet
    <3>2. CASE i = Len(s) + 1
      BY <3>2, <1>1
    <3> QED
      BY <3>1, <3>2, <1>1
  <2>2. ASSUME NEW i \in 1..Len(s)
        PROVE  s[i] \in ToSet(t)
    BY <1>1 DEF ToSet
  <2>3. n + 1 \in ToSet(t)
    BY <1>1 DEF ToSet
  <2> QED
    BY <2>1, <2>2, <2>3, <1>1 DEF ToSet
<1> QED
  BY <1>3, <1>4 DEF t

\* An element left out changes neither the order nor the presence of the others
LEMMA LeaveOut ==
    ASSUME NEW s \in Seq(Nat), NEW d \in Nat, NEW t \in Seq(Nat)
    PROVE  /\ Increasing(s \o (<<d>> \o t)) => Increasing(s \o t)
           /\ ToSet(s \o t) \subseteq ToSet(s \o (<<d>> \o t))
           /\ ToSet(s \o (<<d>> \o t)) \subseteq ToSet(s \o t) \cup {d}
<1> DEFINE u == <<d>> \o t
           long == s \o u
           short == s \o t
           k == Len(s)
           at(i) == IF i <= k THEN i ELSE i + 1
<1>1. /\ k \in Nat /\ Len(t) \in Nat
      /\ <<d>> \in Seq(Nat) /\ Len(<<d>>) = 1 /\ <<d>>[1] = d
  BY LenProperties
<1>2. /\ u \in Seq(Nat)
      /\ Len(u) = 1 + Len(t)
      /\ \A i \in 1..(1 + Len(t)) : u[i] = IF i <= 1 THEN <<d>>[i] ELSE t[i - 1]
  BY <1>1, ConcatProperties
<1> HIDE DEF u
<1>3. /\ long \in Seq(Nat)
      /\ Len(long) = k + Len(u)
      /\ \A i \in 1..(k + Len(u)) : long[i] = IF i <= k THEN s[i] ELSE u[i - k]
  BY <1>2, ConcatProperties
<1>4. /\ short \in Seq(Nat)
      /\ Len(short) = k + Len(t)
      /\ \A i \in 1..(k + Len(t)) : short[i] = IF i <= k THEN s[i] ELSE t[i - k]
  BY ConcatProperties
<1>5. DOMAIN long = 1..(k + Len(t) + 1) /\ DOMAIN short = 1..(k + Len(t))
  BY <1>1, <1>2, <1>3, <1>4, LenProperties
<1> HIDE DEF long, short, k
<1>6. /\ \A i \in 1..k : long[i] = s[i] /\ short[i] = s[i]
      /\ long[k + 1] = d
      /\ \A i \in (k + 1)..(k + Len(t)) : long[i + 1] = short[i]
  <2>1. ASSUME NEW i \in 1..k
        PROVE  long[i] = s[i] /\ short[i] = s[i]
    <3>1. i \in 1..(k + Len(u)) /\ i \in 1..(k + Len(t)) /\ i <= k
      BY <1>1, <1>2
    <3> QED
      BY <3>1, <1>3, <1>4
  <2>2. long[k + 1] = d
    <3>1. k + 1 \in 1..(k + Len(u)) /\ ~(k + 1 <= k) /\ (k + 1) - k = 1 /\ 1 \in 1..(1 + Len(t))
      BY <1>1, <1>2
    <3>2. long[k + 1] = u[1]
      BY <3>1, <1>3
    <3> QED
      BY <3>1, <3>2, <1>1, <1>2
  <2>3. ASSUME NEW i \in (k + 1)..(k + Len(t))
        PROVE  long[i + 1] = short[i]
    <3>1. /\ i + 1 \in 1..(k + Len(u)) /\ ~(i + 1 <= k)
          /\ (i + 1) - k \in 1..(1 + Len(t)) /\ ~((i + 1) - k <= 1)
          /\ ((i + 1) - k) - 1 = i - k
          /\ i \in 1..(k + Len(t)) /\ ~(i <= k)
      BY <1>1, <1>2
    <3>2. long[i + 1] = u[(i + 1) - k]
      BY <3>1, <1>3
    <3>3. u[(i + 1) - k] = t[i - k]
      BY <3>1, <1>2
    <3>4. short[i] = t[i - k]
      BY <3>1, <1>4
    <3> QED
      BY <3>2, <3>3, <3>4
  <2> QED
    BY <2>1, <2>2, <2>3
<1>7. ASSUME NEW i \in 1..(k + Len(t))
       PROVE  at(i) \in 1..(k + Len(t) + 1) /\ short[i] = long[at(i)]
  <2>1. CASE i \in 1..k
    <3>1. at(i) = i
      BY <2>1, <1>1
    <3> HIDE DEF at
    <3> QED
      BY <2>1, <3>1, <1>1, <1>6
  <2>2. CASE i \in (k + 1)..(k + Len(t))
    <3>1. at(i) = i + 1
      BY <2>2, <1>1
    <3> HIDE DEF at
    <3> QED
      BY <2>2, <3>1, <1>1, <1>6
  <2> QED
    BY <2>1, <2>2, <1>1
<1>8. Increasing(long) => Increasing(short)
  <2> SUFFICES ASSUME Increasing(long),
                      NEW i \in 1..(k + Len(t)), NEW j \in 1..(k + Len(t)), i < j
               PROVE  short[i] < short[j]
    BY <1>5 DEF Increasing
  <2>1. /\ at(i) \in 1..(k + Len(t) + 1) /\ short[i] = long[at(i)]
        /\ at(j) \in 1..(k + Len(t) + 1) /\ short[j] = long[at(j)]
    BY <1>7
  <2>2. at(i) < at(j)
    BY <1>1
  <2> HIDE DEF at
  <2> QED
    BY <2>1, <2>2, <1>5 DEF Increasing
<1>9. ToSet(short) \subseteq ToSet(long)
  <2> HIDE DEF at
  <2> QED
    BY <1>5, <1>7 DEF ToSet
<1>10. ToSet(long) \subseteq ToSet(short) \cup {d}
  <2> SUFFICES ASSUME NEW i \in 1..(k + Len(t) + 1)
               PROVE  long[i] \in ToSet(short) \cup {d}
    BY <1>5 DEF ToSet
  <2>1. CASE i \in 1..k
    <3>1. i \in 1..(k + Len(t)) /\ long[i] = short[i]
      BY <2>1, <1>1, <1>6
    <3> QED
      BY <3>1, <1>5 DEF ToSet
  <2>2. CASE i = k + 1
    BY <2>2, <1>6
  <2>3. CASE i \in (k + 2)..(k + Len(t) + 1)
    <3>1. i - 1 \in (k + 1)..(k + Len(t)) /\ i - 1 \in 1..(k + Len(t)) /\ (i - 1) + 1 = i
      BY <2>3, <1>1
    <3>2. long[i] = short[i - 1]
      BY <3>1, <1>6
    <3> QED
      BY <3>1, <3>2, <1>5 DEF ToSet
  <2> QED
    BY <2>1, <2>2, <2>3, <1>1
<1> QED
  BY <1>8, <1>9, <1>10 DEF long, short, u

flowVars == <<received, resultChan, forwarding, watchChan, distributing, eventChan>>

\* The parts of a flow are sequences of events
LEMMA FlowTypes ==
    ASSUME TypeOK, NEW id \in WatchId
    PROVE  /\ received[id] \in Seq(Event) /\ resultChan[id] \in Seq(Event)
           /\ InHand(forwarding[id]) \in Seq(Event) /\ watchChan[id] \in Seq(Event)
           /\ InHand(distributing) \in Seq(Event) /\ eventChan \in Seq(Event)
           /\ SentTo(id) \in Seq(Event) /\ Undistributed \in Seq(Event)
           /\ Flow(id) \in Seq(Event)
<1>1. /\ received[id] \in Seq(Event) /\ resultChan[id] \in Seq(Event)
      /\ watchChan[id] \in Seq(Event) /\ eventChan \in Seq(Event)
      /\ forwarding[id] \in Event \cup {NoEvent} /\ distributing \in Event \cup {NoEvent}
  BY DEF TypeOK
<1>2. ASSUME NEW e \in Event \cup {NoEvent}
      PROVE  InHand(e) \in Seq(Event)
  <2>1. CASE e = NoEvent
    BY <2>1, EmptySeq DEF InHand
  <2>2. CASE e # NoEvent
    <3>1. InHand(e) = <<e>> /\ e \in Event
      BY <2>2 DEF InHand
    <3> QED
      BY <3>1
  <2> QED
    BY <2>1, <2>2
<1>3. InHand(forwarding[id]) \in Seq(Event) /\ InHand(distributing) \in Seq(Event)
  BY <1>1, <1>2
<1>4. SentTo(id) \in Seq(Event)
  BY <1>1, <1>3, ConcatProperties DEF SentTo
<1>5. Undistributed \in Seq(Event)
  BY <1>1, <1>3, ConcatProperties DEF Undistributed
<1>6. Flow(id) \in Seq(Event)
  BY <1>4, <1>5, ConcatProperties DEF Flow
<1> QED
  BY <1>1, <1>3, <1>4, <1>5, <1>6

\* Moving the head of one sequence to the end of the sequence before it
LEMMA MoveHead ==
    ASSUME NEW S, NEW s \in Seq(S), NEW t \in Seq(S), t # <<>>
    PROVE  /\ <<Head(t)>> \o Tail(t) = t
           /\ Append(s, Head(t)) \o Tail(t) = s \o t
<1>1. /\ Head(t) \in S /\ Tail(t) \in Seq(S)
      /\ Len(Tail(t)) = Len(t) - 1
      /\ \A i \in 1..Len(Tail(t)) : Tail(t)[i] = t[i + 1]
      /\ Head(t) = t[1] /\ Len(t) \in Nat \ {0}
  BY HeadTailProperties, EmptySeq
<1>2. <<Head(t)>> \in Seq(S)
  BY <1>1
<1>3. <<Head(t)>> \o Tail(t) = t
  <2>1. t = SubSeq(t, 1, Len(t))
    BY SubSeqFull
  <2>2. SubSeq(t, 1, Len(t)) = <<t[1]>> \o SubSeq(t, 2, Len(t))
    <3>1. 1 \in 1..Len(t) /\ Len(t) \in 1..Len(t) /\ 1 + 1 = 2
      BY <1>1
    <3> QED
      BY <3>1, SubSeqRecursiveFirst
  <2>3. Tail(t) = SubSeq(t, 2, Len(t))
    BY TailIsSubSeq
  <2> QED
    BY <2>1, <2>2, <2>3, <1>1
<1>4. Append(s, Head(t)) = s \o <<Head(t)>>
  BY <1>1, AppendIsConcat
<1>5. (s \o <<Head(t)>>) \o Tail(t) = s \o (<<Head(t)>> \o Tail(t))
  BY <1>1, <1>2, ConcatAssociative
<1> QED
  BY <1>3, <1>4, <1>5

\* A flow is made of these six
LEMMA FlowSame ==
    ASSUME UNCHANGED flowVars
    PROVE  \A id : Flow(id)' = Flow(id)
BY DEF flowVars, Flow, SentTo, Undistributed

\* The goroutines that take from a channel and the client move an event along
LEMMA FlowMoves ==
    ASSUME TypeOK, NEW i \in WatchId, Forward(i) \/ PutResult(i) \/ Receive(i) \/ TakeEvent,
           NEW id \in WatchId
    PROVE  Flow(id)' = Flow(id)
<1> DEFINE a == received[id]
           b == resultChan[id]
           f == InHand(forwarding[id])
           w == watchChan[id]
<1>1. /\ a \in Seq(Event) /\ b \in Seq(Event) /\ f \in Seq(Event) /\ w \in Seq(Event)
      /\ InHand(distributing) \in Seq(Event) /\ eventChan \in Seq(Event)
  BY FlowTypes
<1>2. CASE TakeEvent
  <2>1. /\ distributing = NoEvent /\ eventChan # <<>>
        /\ distributing' = Head(eventChan) /\ eventChan' = Tail(eventChan)
        /\ UNCHANGED <<received, resultChan, forwarding, watchChan>>
    BY <1>2 DEF TakeEvent, Received, chanVars, clientVars
  <2>2. Head(eventChan) \in Event
    BY <1>1, <2>1, HeadTailProperties
  <2>3. InHand(distributing)' = <<Head(eventChan)>> /\ InHand(distributing) = <<>>
    BY <2>1, <2>2 DEF InHand, Event, NoEvent
  <2>4. <<Head(eventChan)>> \o Tail(eventChan) = <<>> \o eventChan
    BY <1>1, <2>1, MoveHead, ConcatEmptySeq
  <2>5. Undistributed' = Undistributed
    BY <2>1, <2>3, <2>4 DEF Undistributed
  <2>6. SentTo(id)' = SentTo(id)
    BY <2>1 DEF SentTo
  <2> QED
    BY <2>5, <2>6 DEF Flow
<1>3. ASSUME id # i \/ SentTo(id)' = SentTo(id),
             Forward(i) \/ PutResult(i) \/ Receive(i)
      PROVE  Flow(id)' = Flow(id)
  <2>1. Undistributed' = Undistributed
    BY <1>3 DEF Forward, PutResult, Receive, queueVars, Undistributed
  <2>2. SentTo(id)' = SentTo(id)
    <3>1. CASE id # i
      <4>1. /\ received'[id] = received[id] /\ resultChan'[id] = resultChan[id]
            /\ forwarding'[id] = forwarding[id] /\ watchChan'[id] = watchChan[id]
        BY <1>3, <3>1 DEF Forward, PutResult, Receive, chanVars, TypeOK
      <4> QED
        BY <4>1 DEF SentTo
    <3> QED
      BY <3>1, <1>3
  <2> QED
    BY <2>1, <2>2 DEF Flow
<1>4. ASSUME Receive(i), id = i
      PROVE  SentTo(id)' = SentTo(id)
  <2>1. /\ b # <<>>
        /\ received'[id] = Append(a, Head(b)) /\ resultChan'[id] = Tail(b)
        /\ forwarding'[id] = forwarding[id] /\ watchChan'[id] = watchChan[id]
    BY <1>4 DEF Receive, Received, chanVars, TypeOK
  <2>2. Append(a, Head(b)) \o Tail(b) = a \o b
    BY <1>1, <2>1, MoveHead
  <2> QED
    BY <2>1, <2>2 DEF SentTo
<1>5. ASSUME PutResult(i), id = i
      PROVE  SentTo(id)' = SentTo(id)
  <2>1. /\ forwarding[id] # NoEvent /\ forwarding[id] \in Event
        /\ resultChan'[id] = Append(b, forwarding[id]) /\ forwarding'[id] = NoEvent
        /\ received'[id] = a /\ watchChan'[id] = w
    BY <1>5 DEF PutResult, chanVars, TypeOK
  <2>2. f = <<forwarding[id]>> /\ InHand(forwarding'[id]) = <<>>
    BY <2>1 DEF InHand
  <2>3. Append(b, forwarding[id]) = b \o f
    BY <1>1, <2>1, <2>2, AppendIsConcat
  <2>4. (a \o (b \o f)) \o <<>> = (a \o b) \o f
    <3> HIDE DEF a, b, f
    <3>1. (a \o b) \o f = a \o (b \o f)
      <4>1. a \in Seq(Event) /\ b \in Seq(Event) /\ f \in Seq(Event)
        BY <1>1
      <4> QED
        BY ONLY <4>1, ConcatAssociative
    <3>2. (a \o b) \o f \in Seq(Event)
      BY <1>1, ConcatProperties
    <3> QED
      BY <3>1, <3>2, ConcatEmptySeq
  <2> QED
    BY <2>1, <2>2, <2>3, <2>4 DEF SentTo
<1>6. ASSUME Forward(i), id = i
      PROVE  SentTo(id)' = SentTo(id)
  <2>1. /\ forwarding[id] = NoEvent /\ w # <<>>
        /\ forwarding'[id] = Head(w) /\ watchChan'[id] = Tail(w)
        /\ received'[id] = a /\ resultChan'[id] = b
    BY <1>6 DEF Forward, Received, TypeOK
  <2>2. Head(w) \in Event /\ Tail(w) \in Seq(Event)
    BY <1>1, <2>1, HeadTailProperties
  <2>3. f = <<>> /\ InHand(forwarding'[id]) = <<Head(w)>> /\ <<Head(w)>> \in Seq(Event)
    BY <2>1, <2>2 DEF InHand, Event, NoEvent
  <2>4. ((a \o b) \o <<Head(w)>>) \o Tail(w) = (a \o b) \o (<<Head(w)>> \o Tail(w))
    <3> HIDE DEF a, b, w
    <3>1. a \o b \in Seq(Event)
      BY <1>1, ConcatProperties
    <3> QED
      BY <3>1, <2>2, <2>3, ConcatAssociative
  <2>5. <<Head(w)>> \o Tail(w) = w
    BY <1>1, <2>1, MoveHead
  <2>6. (a \o b) \o <<>> = a \o b
    BY <1>1, ConcatProperties, ConcatEmptySeq
  <2> QED
    BY <2>1, <2>3, <2>4, <2>5, <2>6 DEF SentTo
<1> QED
  BY <1>2, <1>3, <1>4, <1>5, <1>6

\* A new event goes to the end of every flow, or is dropped
LEMMA FlowGrows ==
    ASSUME TypeOK, SendEvent, NEW id \in WatchId, Len(notified) + 1 \in Event
    PROVE  /\ ~stopped /\ Len(eventChan) < EventCap =>
                  Flow(id)' = Append(Flow(id), Len(notified) + 1)
           /\ stopped \/ ~(Len(eventChan) < EventCap) => Flow(id)' = Flow(id)
<1> DEFINE event == Len(notified) + 1
           d == InHand(distributing)
           s == SentTo(id)
<1>1. /\ SentTo(id)' = s /\ UNCHANGED distributing
      /\ eventChan' = IF stopped THEN eventChan ELSE Offer(eventChan, event, EventCap)
  BY DEF SendEvent, chanVars, clientVars, SentTo
<1>2. /\ s \in Seq(Event) /\ d \in Seq(Event) /\ eventChan \in Seq(Event)
      /\ event \in Event /\ <<event>> \in Seq(Event)
  BY FlowTypes
<1> HIDE DEF event, s, d
<1>3. ASSUME ~stopped, Len(eventChan) < EventCap
      PROVE  Flow(id)' = Append(Flow(id), event)
  <2>1. eventChan' = Append(eventChan, event)
    BY <1>1, <1>3 DEF Offer
  <2>2. Append(eventChan, event) = eventChan \o <<event>>
    BY <1>2, AppendIsConcat
  <2>3. /\ d \o (eventChan \o <<event>>) = (d \o eventChan) \o <<event>>
        /\ d \o eventChan \in Seq(Event)
    BY <1>2, ConcatAssociative, ConcatProperties
  <2>4. s \o ((d \o eventChan) \o <<event>>) = (s \o (d \o eventChan)) \o <<event>>
    BY <1>2, <2>3, ConcatAssociative
  <2>5. Flow(id) = s \o (d \o eventChan) /\ Flow(id) \in Seq(Event)
    BY FlowTypes DEF Flow, Undistributed, s, d
  <2>6. Append(Flow(id), event) = Flow(id) \o <<event>>
    BY <1>2, <2>5, AppendIsConcat
  <2>7. Flow(id)' = s \o (d \o Append(eventChan, event))
    BY <1>1, <2>1 DEF Flow, Undistributed, d
  <2> QED
    BY <2>2, <2>3, <2>4, <2>5, <2>6, <2>7
<1>4. ASSUME stopped \/ ~(Len(eventChan) < EventCap)
      PROVE  Flow(id)' = Flow(id)
  <2>1. eventChan' = eventChan
    BY <1>1, <1>4 DEF Offer
  <2> QED
    BY <1>1, <2>1 DEF Flow, Undistributed, s
<1> QED
  BY <1>3, <1>4 DEF event

\* A distributed event stays where it is in the flow of a watch that gets it, and
\* leaves the flows of the others
Gets(id) == id \in Recipients(distributing) \ chanClosed /\ Len(watchChan[id]) < WatchCap

LEMMA FlowDistributed ==
    ASSUME TypeOK, Distribute, NEW id \in WatchId
    PROVE  /\ distributing \in Event
           /\ Flow(id) = SentTo(id) \o (<<distributing>> \o eventChan)
           /\ Gets(id) => Flow(id)' = Flow(id)
           /\ ~Gets(id) => Flow(id)' = SentTo(id) \o eventChan
<1> DEFINE x == (received[id] \o resultChan[id]) \o InHand(forwarding[id])
           w == watchChan[id]
           d == distributing
<1>1. /\ d \in Event /\ InHand(d) = <<d>> /\ InHand(d') = <<>> /\ <<d>> \in Seq(Event)
      /\ UNCHANGED <<received, resultChan, forwarding, eventChan>>
      /\ watchChan'[id] = IF id \in Recipients(d) \ chanClosed THEN Offer(w, d, WatchCap) ELSE w
  BY DEF Distribute, TypeOK, InHand, clientVars
<1>2. /\ w \in Seq(Event) /\ eventChan \in Seq(Event) /\ SentTo(id) \in Seq(Event)
      /\ x \in Seq(Event)
  BY FlowTypes, ConcatProperties
<1>3. Flow(id) = SentTo(id) \o (<<d>> \o eventChan)
  BY <1>1 DEF Flow, Undistributed
<1>4. SentTo(id) = x \o w
  BY DEF SentTo
<1>5. <<>> \o eventChan = eventChan
  BY <1>2, ConcatEmptySeq
<1>6. Flow(id)' = (x \o watchChan'[id]) \o eventChan
  BY <1>1, <1>5 DEF Flow, SentTo, Undistributed
<1>7. ASSUME Gets(id)
      PROVE  Flow(id)' = Flow(id)
  <2>1. watchChan'[id] = w \o <<d>>
    BY <1>7, <1>1, <1>2, AppendIsConcat DEF Gets, Offer
  <2> HIDE DEF x, w, d
  <2>2. x \o (w \o <<d>>) = (x \o w) \o <<d>> /\ x \o w \in Seq(Event)
    BY <1>1, <1>2, ConcatAssociative, ConcatProperties
  <2>3. ((x \o w) \o <<d>>) \o eventChan = (x \o w) \o (<<d>> \o eventChan)
    BY <1>1, <1>2, <2>2, ConcatAssociative
  <2> QED
    BY <1>3, <1>4, <1>6, <2>1, <2>2, <2>3
<1>8. ASSUME ~Gets(id)
      PROVE  Flow(id)' = SentTo(id) \o eventChan
  <2>1. watchChan'[id] = w
    BY <1>8, <1>1 DEF Gets, Offer
  <2> QED
    BY <2>1, <1>4, <1>6
<1> QED
  BY <1>1, <1>3, <1>7, <1>8

\* Of every watch, also of one that is still to come: what may still be sent to it is in order
FlowsInOrder ==
    \A id \in WatchId : Increasing(Flow(id)) /\ ToSet(Flow(id)) \subseteq 1..Len(notified)

\* At first every flow is empty
LEMMA FlowsInit == Init => FlowsInOrder
<1> SUFFICES ASSUME Init, NEW id \in WatchId
             PROVE  Flow(id) = <<>>
  <2>1. Increasing(<<>>) /\ ToSet(<<>>) = {}
    BY DEF Increasing, ToSet
  <2> QED
    BY <2>1 DEF FlowsInOrder
<1>1. <<>> \o <<>> = <<>>
  BY ConcatEmptySeq, EmptySeq
<1>2. SentTo(id) = <<>> /\ Undistributed = <<>>
  BY <1>1 DEF Init, SentTo, Undistributed, InHand
<1> QED
  BY <1>1, <1>2 DEF Flow

\* Every step leaves a flow alone, adds the newest event, or drops one
LEMMA FlowsStep ==
    ASSUME WatcherTypes, FlowsInOrder, [Next]_vars
    PROVE  FlowsInOrder'
<1> SUFFICES ASSUME NEW id \in WatchId
             PROVE  Increasing(Flow(id)') /\ ToSet(Flow(id)') \subseteq 1..Len(notified')
  BY DEF FlowsInOrder, Increasing, ToSet
<1> DEFINE n == Len(notified)
<1>1. /\ Flow(id) \in Seq(Event) /\ Flow(id) \in Seq(Nat)
      /\ Increasing(Flow(id)) /\ ToSet(Flow(id)) \subseteq 1..n
      /\ n \in Nat
  <2>1. Flow(id) \in Seq(Event) /\ Event \subseteq Nat
    BY FlowTypes DEF WatcherTypes, Event
  <2> QED
    BY <2>1, SeqMonotonic, LenProperties DEF WatcherTypes, TypeOK, FlowsInOrder
<1>2. ASSUME Flow(id)' = Flow(id), UNCHANGED notified
      PROVE  Increasing(Flow(id)') /\ ToSet(Flow(id)') \subseteq 1..Len(notified')
  BY <1>1, <1>2
<1>3. CASE SendEvent
  <2>1. /\ Len(notified') = n + 1
        /\ n + 1 \in Event
    <3>1. notifying \in Key /\ notified \in Seq(Key) /\ n < MaxEvents
      BY <1>3 DEF SendEvent, WatcherTypes, TypeOK
    <3> QED
      BY <1>1, <1>3, <3>1, AppendProperties, WatcherAssumption DEF SendEvent, Event
  <2>2. Flow(id)' = Append(Flow(id), n + 1) \/ Flow(id)' = Flow(id)
    BY <1>3, <2>1, FlowGrows DEF WatcherTypes
  <2>3. /\ Increasing(Append(Flow(id), n + 1))
        /\ ToSet(Append(Flow(id), n + 1)) = ToSet(Flow(id)) \cup {n + 1}
    BY <1>1, AppendNext
  <2>4. 1..n \subseteq 1..(n + 1) /\ n + 1 \in 1..(n + 1)
    BY <1>1
  <2> HIDE DEF n
  <2> QED
    BY <2>1, <2>2, <2>3, <2>4, <1>1
<1>4. CASE Distribute
  <2>1. UNCHANGED notified
    BY <1>4 DEF Distribute, notifyVars
  <2>2. /\ distributing \in Event
        /\ Flow(id) = SentTo(id) \o (<<distributing>> \o eventChan)
        /\ Flow(id)' = Flow(id) \/ Flow(id)' = SentTo(id) \o eventChan
    BY <1>4, FlowDistributed DEF WatcherTypes
  <2>3. SentTo(id) \in Seq(Nat) /\ eventChan \in Seq(Nat) /\ distributing \in Nat
    <3>1. SentTo(id) \in Seq(Event) /\ eventChan \in Seq(Event) /\ Event \subseteq Nat
      BY FlowTypes DEF WatcherTypes, Event
    <3> QED
      BY <3>1, <2>2, SeqMonotonic
  <2>4. /\ Increasing(SentTo(id) \o eventChan)
        /\ ToSet(SentTo(id) \o eventChan) \subseteq ToSet(Flow(id))
    BY <1>1, <2>2, <2>3, LeaveOut
  <2> QED
    BY <1>2, <2>1, <2>2, <2>4, <1>1
<1>5. ASSUME NEW i \in WatchId, Forward(i) \/ PutResult(i) \/ Receive(i) \/ TakeEvent
      PROVE  Increasing(Flow(id)') /\ ToSet(Flow(id)') \subseteq 1..Len(notified')
  <2>1. Flow(id)' = Flow(id)
    BY <1>5, FlowMoves DEF WatcherTypes
  <2>2. UNCHANGED notified
    BY <1>5 DEF Forward, PutResult, Receive, TakeEvent, notifyVars
  <2> QED
    BY <1>2, <2>1, <2>2
<1>6. ASSUME UNCHANGED <<flowVars, notified>>
      PROVE  Increasing(Flow(id)') /\ ToSet(Flow(id)') \subseteq 1..Len(notified')
  BY <1>2, <1>6, FlowSame
<1>7. CASE UNCHANGED vars
  BY <1>6, <1>7 DEF vars, flowVars, chanVars, queueVars, notifyVars, clientVars
<1>8. CASE EventLoop
  BY <1>4, <1>5, <1>6, <1>8
     DEF EventLoop, EndLoop, flowVars, chanVars, notifyVars, clientVars
<1>9. CASE EngineCalls
  BY <1>3, <1>6, <1>9
     DEF EngineCalls, Watch, Cancel, StartNotify, CloseEngine, Stop,
         flowVars, chanVars, queueVars, notifyVars, clientVars
<1>10. ASSUME NEW i \in WatchId, Cleanup(i) \/ Forwarder(i) \/ Client(i)
       PROVE  Increasing(Flow(id)') /\ ToSet(Flow(id)') \subseteq 1..Len(notified')
  BY <1>5, <1>6, <1>10
     DEF Cleanup, CleanupWatch, Forwarder, Client, EndForwarding,
         flowVars, chanVars, queueVars, notifyVars, clientVars
<1> QED
  BY <1>7, <1>8, <1>9, <1>10 DEF Next

\* A client sees events in the order of the writes and none twice, with any number of
\* watches and any capacities of the three channels (watcher.go:190-237, engine.go:664-671).
THEOREM EventsAlwaysInOrder == Spec => []EventsInOrder
<1>1. Init => WatcherTypes /\ FlowsInOrder
  BY TypesInit, FlowsInit
<1>2. WatcherTypes /\ FlowsInOrder /\ [Next]_vars => (WatcherTypes /\ FlowsInOrder)'
  BY TypesStep, FlowsStep
<1>3. WatcherTypes /\ FlowsInOrder => EventsInOrder
  BY DEF WatcherTypes, TypeOK, FlowsInOrder, Flow, EventsInOrder, Increasing
<1> QED
  BY <1>1, <1>2, <1>3, PTL DEF Spec

(***************************************************************************)
(* Loss                                                                    *)
(***************************************************************************)

\* A registered watch is listed under its pattern, so that distributeEvent finds it
Listed == \A id \in watches : id \in ToSet(watchers[patterns[id]])

\* What LostOnlyWhenFull says
Kept ==
    \A id \in watches : \A event \in DOMAIN notified \ missed[id] :
        Findable(patterns[id]) /\ Watched(patterns[id], notified[event]) =>
            event \in ToSet(Flow(id))

LossInv == Listed /\ (~stopped => Kept)

\* Only Watch, which lists the new id, and Unregister, which takes out one, change the lists
LEMMA ListedStep ==
    ASSUME WatcherTypes, Listed, [Next]_vars
    PROVE  Listed'
<1> USE DEF WatcherTypes, TypeOK
<1>1. ASSUME NEW p \in Pattern, Watch(p)
      PROVE  Listed'
  <2> DEFINE new == Len(patterns) + 1
  <2>1. /\ patterns' = Append(patterns, p) /\ watches' = watches \cup {new}
        /\ watchers' = [watchers EXCEPT ![p] = Append(@, new)]
        /\ new \in WatchId
    BY <1>1, LenProperties DEF Watch, WatchId
  <2>2. /\ Len(patterns) \in Nat /\ patterns'[new] = p
        /\ \A id \in 1..Len(patterns) : patterns'[id] = patterns[id] /\ patterns[id] \in Pattern
    BY <2>1, AppendProperties, LenProperties, ElementOfSeq
  <2> HIDE DEF new
  <2>3. ASSUME NEW q \in Pattern
        PROVE  ToSet(watchers[q]) \subseteq ToSet(watchers'[q])
    <3>1. CASE q # p
      BY <2>1, <3>1
    <3>2. CASE q = p
      <4>1. /\ watchers[p] \in Seq(WatchId) /\ watchers'[p] = Append(watchers[p], new)
            /\ DOMAIN watchers[p] = 1..Len(watchers[p])
            /\ DOMAIN watchers'[p] = 1..(Len(watchers[p]) + 1)
            /\ Len(watchers[p]) \in Nat
            /\ \A i \in 1..Len(watchers[p]) : watchers'[p][i] = watchers[p][i]
        BY <2>1, AppendProperties, LenProperties
      <4> QED
        BY <3>2, <4>1 DEF ToSet
    <3> QED
      BY <3>1, <3>2
  <2>4. new \in ToSet(watchers'[p])
    <3>1. /\ watchers[p] \in Seq(WatchId) /\ watchers'[p] = Append(watchers[p], new)
          /\ Len(watchers[p]) + 1 \in DOMAIN watchers'[p]
          /\ watchers'[p][Len(watchers[p]) + 1] = new
      BY <2>1, AppendProperties, LenProperties
    <3> QED
      BY <3>1 DEF ToSet
  <2>5. ASSUME NEW id \in watches'
        PROVE  id \in ToSet(watchers'[patterns'[id]])
    <3>1. CASE id = new
      BY <2>2, <2>4, <3>1
    <3>2. CASE id \in watches
      <4>1. id \in ToSet(watchers[patterns[id]])
        BY <3>2 DEF Listed
      <4>2. patterns'[id] = patterns[id] /\ patterns[id] \in Pattern
        BY <3>2, <2>2 DEF Created
      <4> QED
        BY <4>1, <4>2, <2>3
    <3> QED
      BY <3>1, <3>2, <2>1
  <2> QED
    BY <2>5 DEF Listed
<1>2. ASSUME NEW gone \in WatchId, Cancel(gone) \/ CleanupWatch(gone)
      PROVE  Listed'
  <2>1. /\ watches' = watches \ {gone}
        /\ watchers' = [watchers EXCEPT ![patterns[gone]] = RemoveFirst(@, gone)]
        /\ UNCHANGED patterns
    BY <1>2 DEF Cancel, CleanupWatch, Unregister
  <2>2. ASSUME NEW id \in watches \ {gone}
        PROVE  id \in ToSet(watchers'[patterns[id]])
    <3>1. id \in ToSet(watchers[patterns[id]]) /\ patterns[id] \in Pattern
      BY ElementOfSeq DEF Listed, Created
    <3>2. CASE patterns[id] = patterns[gone]
      <4>1. watchers[patterns[id]] \in Seq(WatchId) /\ id # gone
        BY <3>1
      <4>2. id \in ToSet(RemoveFirst(watchers[patterns[id]], gone))
        BY <3>1, <4>1, RemoveFirstKeepsOthers
      <4> QED
        BY <2>1, <3>1, <3>2, <4>2
    <3>3. CASE patterns[id] # patterns[gone]
      BY <2>1, <3>1, <3>3
    <3> QED
      BY <3>2, <3>3
  <2> QED
    BY <2>1, <2>2 DEF Listed
<1>3. ASSUME UNCHANGED watchVars
      PROVE  Listed'
  BY <1>3 DEF watchVars, Listed
<1> QED
  BY <1>1, <1>2, <1>3
     DEF Next, EngineCalls, EventLoop, Cleanup, Forwarder, Client, StartNotify, SendEvent,
         CloseEngine, Stop, TakeEvent, Distribute, EndLoop, Forward, PutResult, EndForwarding,
         Receive, vars

\* An event leaves the flow of a watch that is for it only to be counted as missed
LEMMA KeptStep ==
    ASSUME WatcherTypes, WatcherTypes', OpenUntilStop, LossInv, [Next]_vars, ~stopped'
    PROVE  Kept'
<1> USE DEF WatcherTypes
<1>1. ASSUME UNCHANGED <<patterns, notified, missed>>, watches' \subseteq watches, ~stopped,
             \A id \in watches : Flow(id)' = Flow(id)
      PROVE  Kept'
  BY <1>1 DEF Kept, LossInv
<1>2. ASSUME NEW p \in Pattern, Watch(p)
      PROVE  Kept'
  <2> DEFINE new == Len(patterns) + 1
  <2>1. /\ patterns' = Append(patterns, p) /\ watches' = watches \cup {new}
        /\ missed' = [missed EXCEPT ![new] = 1..Len(notified)]
        /\ new \in WatchId /\ new \notin watches
        /\ UNCHANGED <<flowVars, notified, stopped>>
    BY <1>2, LenProperties
       DEF Watch, WatchId, TypeOK, Created, flowVars, chanVars, queueVars, notifyVars,
           clientVars, closeVars
  <2>2. ASSUME NEW id \in watches
        PROVE  patterns'[id] = patterns[id] /\ missed'[id] = missed[id]
    <3>1. id \in 1..Len(patterns) /\ id \in WatchId /\ id # new
      BY <2>1 DEF TypeOK, Created
    <3>2. patterns'[id] = patterns[id]
      BY <2>1, <3>1, AppendProperties DEF TypeOK
    <3>3. missed'[id] = missed[id]
      BY <2>1, <3>1 DEF TypeOK
    <3> QED
      BY <3>2, <3>3
  <2>3. DOMAIN notified' \ missed'[new] = {}
    BY <2>1, LenProperties DEF TypeOK
  <2>4. \A id : Flow(id)' = Flow(id)
    BY <2>1, FlowSame
  <2> HIDE DEF new
  <2>5. ASSUME NEW id \in watches', NEW event \in DOMAIN notified' \ missed'[id],
               Findable(patterns'[id]), Watched(patterns'[id], notified'[event])
        PROVE  event \in ToSet(Flow(id)')
    <3>1. id \in watches
      BY <2>1, <2>3, <2>5
    <3>2. event \in ToSet(Flow(id))
      BY <2>1, <2>2, <2>5, <3>1 DEF Kept, LossInv
    <3> QED
      BY <2>4, <3>2
  <2> QED
    BY <2>5 DEF Kept, ToSet
<1>3. CASE SendEvent
  <2> DEFINE n == Len(notified)
  <2>1. /\ notified' = Append(notified, notifying) /\ notifying \in Key
        /\ missed' = [i \in WatchId |->
                         IF i \in Created /\ Len(eventChan) >= EventCap
                           THEN missed[i] \cup {n + 1} ELSE missed[i]]
        /\ UNCHANGED <<patterns, watches, stopped>>
        /\ n < MaxEvents
    BY <1>3 DEF SendEvent, TypeOK, watchVars, closeVars
  <2>2. /\ n \in Nat /\ DOMAIN notified = 1..n /\ DOMAIN notified' = 1..(n + 1)
        /\ \A i \in 1..n : notified'[i] = notified[i]
        /\ n + 1 \in Event
    BY <2>1, AppendProperties, LenProperties, WatcherAssumption DEF TypeOK, Event
  <2> HIDE DEF n
  <2>3. SUFFICES ASSUME NEW id \in watches, NEW event \in (1..(n + 1)) \ missed'[id],
                        Findable(patterns[id]), Watched(patterns[id], notified'[event])
                 PROVE  event \in ToSet(Flow(id)')
    BY <2>1, <2>2 DEF Kept, ToSet
  <2>4. id \in WatchId /\ id \in Created /\ Len(eventChan) \in Nat /\ EventCap \in Nat
    BY LenProperties, WatcherAssumption DEF TypeOK
  <2>5. /\ Len(eventChan) < EventCap => Flow(id)' = Append(Flow(id), n + 1)
        /\ ~(Len(eventChan) < EventCap) => Flow(id)' = Flow(id)
    BY <1>3, <2>1, <2>2, <2>4, FlowGrows DEF n
  <2>6. Flow(id) \in Seq(Event) /\ DOMAIN Flow(id) = 1..Len(Flow(id)) /\ Len(Flow(id)) \in Nat
    BY <2>4, FlowTypes, LenProperties
  <2>7. /\ DOMAIN Append(Flow(id), n + 1) = 1..(Len(Flow(id)) + 1)
        /\ \A i \in 1..Len(Flow(id)) : Append(Flow(id), n + 1)[i] = Flow(id)[i]
        /\ Append(Flow(id), n + 1)[Len(Flow(id)) + 1] = n + 1
    BY <2>2, <2>6, AppendProperties, LenProperties
  <2>8. /\ ToSet(Flow(id)) \subseteq ToSet(Append(Flow(id), n + 1))
        /\ n + 1 \in ToSet(Append(Flow(id), n + 1))
    BY <2>6, <2>7 DEF ToSet
  <2>9. CASE event \in 1..n
    <3>1. event \notin missed[id]
      BY <2>1, <2>4, <2>3
    <3>2. Findable(patterns[id]) /\ Watched(patterns[id], notified[event])
      BY <2>2, <2>3, <2>9
    <3>3. event \in ToSet(Flow(id))
      BY <2>1, <2>2, <2>9, <3>1, <3>2 DEF Kept, LossInv
    <3> QED
      BY <2>5, <2>8, <3>3
  <2>10. CASE event = n + 1
    <3>1. Len(eventChan) < EventCap
      BY <2>1, <2>3, <2>4, <2>10
    <3> QED
      BY <2>5, <2>8, <2>10, <3>1
  <2> QED
    BY <2>2, <2>9, <2>10
<1>4. CASE Distribute
  <2> DEFINE d == distributing
             full == {i \in Recipients(d) : Len(watchChan[i]) >= WatchCap}
  <2>1. /\ UNCHANGED <<patterns, watches, notified, stopped>>
        /\ missed' = [i \in WatchId |-> IF i \in full THEN missed[i] \cup {d} ELSE missed[i]]
    BY <1>4 DEF Distribute, watchVars, notifyVars, closeVars
  <2> HIDE DEF full
  <2>2. SUFFICES ASSUME NEW id \in watches, NEW event \in DOMAIN notified \ missed'[id],
                        Findable(patterns[id]), Watched(patterns[id], notified[event])
                 PROVE  event \in ToSet(Flow(id)')
    BY <2>1 DEF Kept, ToSet
  <2>3. /\ id \in WatchId /\ id \in Created /\ patterns[id] \in Pattern
        /\ Len(watchChan[id]) \in Nat /\ WatchCap \in Nat
    BY ElementOfSeq, LenProperties, WatcherAssumption DEF TypeOK, Created
  <2>4. event \in ToSet(Flow(id))
    <3>1. event \notin missed[id]
      BY <2>1, <2>2, <2>3
    <3> QED
      BY <2>1, <2>2, <3>1 DEF Kept, LossInv
  <2>5. /\ d \in Event
        /\ Flow(id) = SentTo(id) \o (<<d>> \o eventChan)
        /\ Gets(id) => Flow(id)' = Flow(id)
        /\ ~Gets(id) => Flow(id)' = SentTo(id) \o eventChan
    BY <1>4, <2>3, FlowDistributed
  <2>6. CASE Gets(id)
    BY <2>4, <2>5, <2>6
  <2>7. CASE ~Gets(id)
    <3>1. event # d
      <4> SUFFICES ASSUME event = d
                   PROVE  FALSE
        OBVIOUS
      <4>1. Matches(patterns[id], notified[d])
        BY <2>2, <2>3 DEF Watched, Matches, Findable
      <4>2. id \in Recipients(d)
        BY <2>3, <4>1 DEF Recipients, LossInv, Listed
      <4>3. id \notin chanClosed
        BY <2>1 DEF OpenUntilStop
      <4>4. id \in full
        BY <2>3, <2>7, <4>2, <4>3 DEF Gets, full
      <4> QED
        BY <2>1, <2>2, <2>3, <4>4
    <3>2. SentTo(id) \in Seq(Nat) /\ eventChan \in Seq(Nat) /\ d \in Nat
      <4>1. SentTo(id) \in Seq(Event) /\ eventChan \in Seq(Event) /\ Event \subseteq Nat
        BY <2>3, FlowTypes DEF Event
      <4> QED
        BY <4>1, <2>5, SeqMonotonic
    <3>3. ToSet(Flow(id)) \subseteq ToSet(SentTo(id) \o eventChan) \cup {d}
      BY <2>5, <3>2, LeaveOut
    <3> QED
      BY <2>4, <2>5, <2>7, <3>1, <3>3
  <2> QED
    BY <2>6, <2>7
<1>5. ASSUME TakeEvent \/ \E i \in WatchId : Forward(i) \/ PutResult(i) \/ Receive(i)
      PROVE  Kept'
  <2>1. \A id \in watches : Flow(id)' = Flow(id)
    BY <1>5, FlowMoves DEF TypeOK
  <2>2. UNCHANGED <<patterns, notified, missed, watches, stopped>>
    BY <1>5 DEF Forward, PutResult, Receive, TakeEvent, watchVars, notifyVars, closeVars
  <2> QED
    BY <1>1, <2>1, <2>2
<1>6. ASSUME NEW i \in WatchId, Cancel(i) \/ CleanupWatch(i)
      PROVE  Kept'
  <2>1. /\ UNCHANGED <<patterns, notified, missed, stopped, flowVars>>
        /\ watches' \subseteq watches
    BY <1>6 DEF Cancel, CleanupWatch, Unregister, flowVars, queueVars, notifyVars, clientVars,
                closeVars
  <2> QED
    BY <1>1, <2>1, FlowSame
<1>7. ASSUME UNCHANGED <<patterns, notified, missed, watches, stopped, flowVars>>
      PROVE  Kept'
  BY <1>1, <1>7, FlowSame
<1>8. CASE UNCHANGED vars
  BY <1>7, <1>8 DEF vars, flowVars, watchVars, chanVars, queueVars, notifyVars, clientVars,
                    closeVars
<1>9. CASE EventLoop
  BY <1>4, <1>5, <1>7, <1>9
     DEF EventLoop, EndLoop, flowVars, watchVars, chanVars, notifyVars, clientVars, closeVars
<1>10. CASE EngineCalls
  <2>1. CASE Stop
    BY <2>1 DEF Stop
  <2>2. ASSUME CloseEngine \/ \E key \in Key : StartNotify(key)
        PROVE  Kept'
    <3>1. UNCHANGED <<patterns, notified, missed, watches, stopped, flowVars>>
      BY <2>2 DEF StartNotify, CloseEngine, flowVars, watchVars, chanVars, queueVars,
                  notifyVars, clientVars, closeVars
    <3> QED
      BY <1>7, <3>1
  <2> QED
    <3>1. CASE \E p \in Pattern : Watch(p)
      BY <1>2, <3>1
    <3>2. CASE \E i \in WatchId : Cancel(i)
      BY <1>6, <3>2
    <3> QED
      BY <1>3, <1>10, <2>1, <2>2, <3>1, <3>2 DEF EngineCalls
<1>11. ASSUME NEW i \in WatchId, Cleanup(i) \/ Forwarder(i) \/ Client(i)
       PROVE  Kept'
  BY <1>5, <1>6, <1>7, <1>11
     DEF Cleanup, Forwarder, Client, EndForwarding,
         flowVars, watchVars, chanVars, queueVars, notifyVars, clientVars, closeVars
<1> QED
  BY <1>8, <1>9, <1>10, <1>11 DEF Next

\* A registered watch that distributeEvent can find gets every matching event notified
\* since it was created, unless a channel was full (watcher.go:182-186, 209-236).
THEOREM LossOnlyWhenFull == Spec => []LostOnlyWhenFull
<1> DEFINE Inv == WatcherTypes /\ OpenUntilStop /\ LossInv
<1>1. Init => Inv
  <2>1. Init => LossInv
    BY DEF Init, LossInv, Listed, Kept
  <2> QED
    BY <2>1, TypesInit, OpenInit
<1>2. Inv /\ [Next]_vars => Inv'
  <2> SUFFICES ASSUME Inv, [Next]_vars
               PROVE  Inv'
    OBVIOUS
  <2>1. WatcherTypes' /\ OpenUntilStop' /\ Listed'
    BY TypesStep, OpenStep, ListedStep DEF LossInv
  <2>2. ~stopped' => Kept'
    BY <2>1, KeptStep
  <2> QED
    BY <2>1, <2>2 DEF LossInv
<1>3. Inv => LostOnlyWhenFull
  BY DEF LossInv, Kept, LostOnlyWhenFull, Flow
<1> HIDE DEF Inv
<1> QED
  BY <1>1, <1>2, <1>3, PTL DEF Spec
=============================================================================
