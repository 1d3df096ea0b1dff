------------------------------ MODULE Watcher -------------------------------
(***************************************************************************)
(* The watch manager of src/internal/watch/watcher.go and the engine's     *)
(* side of it: an event goes from Notify through eventChan, the goroutine  *)
(* eventLoop, the channel of each matching watch and a forwarding          *)
(* goroutine of Engine.Watch to the channel a client reads.                *)
(*                                                                         *)
(* Channels are sequences with a capacity.  An event is its number in the  *)
(* order of the calls of Notify, which all hold e.mu.  Keys are sequences, *)
(* since a watch may be for a prefix.                                      *)
(***************************************************************************)
EXTENDS Naturals, Sequences, FiniteSets, SequencesExt

CONSTANTS
    Key,
    Pattern,      \* what a watch is for: [prefix |-> BOOLEAN, key |-> a sequence]
    None,         \* no key
    EventCap,     \* capacities of eventChan (1000 in the code),
    WatchCap,     \* of the channel of a watch (100)
    ResultCap,    \* and of the channel Engine.Watch returns (100)
    MaxWatch,     \* bound: watches created
    MaxEvents     \* bound: calls of Notify

ASSUME WatcherAssumption ==
    /\ {EventCap, WatchCap, ResultCap} \subseteq Nat \ {0}
    /\ {MaxWatch, MaxEvents} \subseteq Nat
    /\ None \notin Key

WatchId == 1..MaxWatch
Event == 1..MaxEvents
NoEvent == 0

VARIABLES
    patterns,     \* the pattern of each watch created so far
    watches,      \* w.watches: the ids of the watches that are registered
    watchers,     \* w.watchers: from pattern to the ids listed under it
    watchChan,    \* watch.Chan, by id
    chanClosed,   \* the ids whose watch.Chan is closed
    eventChan,    \* w.eventChan
    stopped,      \* w.closed; then w.ctx is cancelled and eventChan closed, too
    distributing, \* the event eventLoop has taken and not yet distributed
    looping,      \* eventLoop has not returned
    notifying,    \* the key of a Notify that has found w.closed false
    forwarding,   \* the event in the hands of each forwarding goroutine
    resultChan,   \* resultChan of Engine.Watch, by id
    resultClosed, \* the ids whose resultChan is closed
    received,     \* what the client of each watch has received
    engineClosed, \* e.closed
    panicked,     \* a goroutine sent on, or closed, a closed channel
    notified,     \* history: the key of each event
    missed        \* history: the events that each watch need not get: notified before it
                  \* was created, or lost to a full channel

watchVars == <<patterns, watches, watchers>>
chanVars == <<watchChan, chanClosed>>
queueVars == <<eventChan, distributing, looping>>
notifyVars == <<notifying, notified>>
clientVars == <<forwarding, resultChan, resultClosed, received>>
closeVars == <<stopped, engineClosed>>
vars == <<watchVars, chanVars, queueVars, notifyVars, clientVars, closeVars, panicked, missed>>

Init ==
    /\ patterns = <<>>
    /\ watches = {}
    /\ watchers = [p \in Pattern |-> <<>>]
    /\ watchChan = [i \in WatchId |-> <<>>]
    /\ chanClosed = {}
    /\ eventChan = <<>>
    /\ stopped = FALSE
    /\ distributing = NoEvent
    /\ looping = TRUE
    /\ notifying = None
    /\ forwarding = [i \in WatchId |-> NoEvent]
    /\ resultChan = [i \in WatchId |-> <<>>]
    /\ resultClosed = {}
    /\ received = [i \in WatchId |-> <<>>]
    /\ engineClosed = FALSE
    /\ panicked = FALSE
    /\ notified = <<>>
    /\ missed = [i \in WatchId |-> {}]

Created == 1..Len(patterns)

\* select with a default: what does not fit is dropped
\* Mutant: one event more than the channel holds
OfferOneMore(chan, event, cap) == IF Len(chan) <= cap THEN Append(chan, event) ELSE chan
Offer(chan, event, cap) == IF Len(chan) < cap THEN Append(chan, event) ELSE chan

\* Mutant: the event is read and stays in the channel
Peeked(chan) == chan
\* A channel after its first event has been received from it
Received(chan) == Tail(chan)

-----------------------------------------------------------------------------
(* Watch, Cancel, cleanupWatch *)

\* Engine.Watch and Engine.CancelWatch take e.mu, which a caller of Notify holds
EngineFree == ~engineClosed /\ notifying = None

Watch(p) ==
    LET id == Len(patterns) + 1
    IN  /\ EngineFree
        /\ id <= MaxWatch
        /\ patterns' = Append(patterns, p)
        /\ watches' = watches \cup {id}
        /\ watchers' = [watchers EXCEPT ![p] = Append(@, id)]
        /\ missed' = [missed EXCEPT ![id] = 1..Len(notified)]
        /\ UNCHANGED <<chanVars, queueVars, notifyVars, clientVars, closeVars, panicked>>

\* Mutant: the context of the watch is cancelled, its channel left open
CancelOnly(ids) == UNCHANGED <<chanClosed, panicked>>
\* closeWatch, of each of ids: closing a channel that is closed panics
CloseWatch(ids) ==
    /\ chanClosed' = chanClosed \cup ids
    /\ panicked' = (ids \cap chanClosed # {})

\* removeFromMapping and the deletion from w.watches
Unregister(id) ==
    /\ watches' = watches \ {id}
    /\ watchers' = [watchers EXCEPT ![patterns[id]] = RemoveFirst(@, id)]
    /\ UNCHANGED patterns

Cancel(id) ==
    /\ EngineFree
    /\ id \in watches
    /\ CloseWatch({id})
    /\ Unregister(id)
    /\ UNCHANGED <<watchChan, queueVars, notifyVars, clientVars, closeVars, missed>>

\* Mutant: the watch is not looked up again
StillThere(id) == id \in Created
Registered(id) == id \in watches
\* The goroutine of a watch whose context is cancelled, by closeWatch or by Stop.
\* (If the watch is gone it returns and has changed nothing.)
CleanupWatch(id) ==
    /\ Registered(id)
    /\ stopped \/ id \in chanClosed
    /\ CloseWatch({id})
    /\ Unregister(id)
    /\ UNCHANGED <<watchChan, queueVars, notifyVars, clientVars, closeVars, missed>>

-----------------------------------------------------------------------------
(* Notify, eventLoop *)

\* w.closed is read without w.mu.  A caller that deletes the keys of a lease does
\* not check e.closed, so this may happen after CloseEngine.  (A stale FALSE, read
\* after Stop, has the same outcome as one read just before.)
StartNotify(key) ==
    /\ notifying = None
    /\ ~stopped
    /\ Len(notified) < MaxEvents
    /\ notifying' = key
    /\ UNCHANGED <<watchVars, chanVars, queueVars, clientVars, closeVars, notified, panicked,
                   missed>>

SendEvent ==
    LET event == Len(notified) + 1
    IN  /\ notifying # None
        /\ notified' = Append(notified, notifying)
        /\ notifying' = None
        /\ panicked' = stopped
        /\ eventChan' = IF stopped THEN eventChan ELSE Offer(eventChan, event, EventCap)
        /\ missed' = [i \in WatchId |->
                         IF i \in Created /\ Len(eventChan) >= EventCap
                           THEN missed[i] \cup {event} ELSE missed[i]]
        /\ UNCHANGED <<watchVars, chanVars, distributing, looping, clientVars, closeVars>>

\* Events queued before Stop may still be taken after it: select picks any ready case
TakeEvent ==
    /\ looping
    /\ distributing = NoEvent
    /\ eventChan # <<>>
    /\ distributing' = Head(eventChan)
    /\ eventChan' = Received(eventChan)
    /\ UNCHANGED <<watchVars, chanVars, looping, notifyVars, clientVars, closeVars, panicked,
                   missed>>

EndLoop ==
    /\ looping
    /\ distributing = NoEvent
    /\ stopped
    /\ looping' = FALSE
    /\ UNCHANGED <<watchVars, chanVars, eventChan, distributing, notifyVars, clientVars,
                   closeVars, panicked, missed>>

\* Mutant: a key equal to the prefix does not match
MatchesLonger(p, key) ==
    IF p.prefix THEN p.key # <<>> /\ IsStrictPrefix(p.key, key) ELSE key = p.key
\* A watch for the empty prefix matches nothing ("prefix:" is not longer than 7)
Matches(p, key) ==
    IF p.prefix THEN p.key # <<>> /\ IsPrefix(p.key, key) ELSE key = p.key

Recipients(event) ==
    watches \cap UNION {ToSet(watchers[p]) : p \in {q \in Pattern : Matches(q, notified[event])}}

Distribute ==
    LET to == Recipients(distributing)
        full == {i \in to : Len(watchChan[i]) >= WatchCap}
    IN  /\ distributing # NoEvent
        /\ panicked' = (to \cap chanClosed # {})
        /\ watchChan' = [i \in WatchId |-> IF i \in to \ chanClosed
                                           THEN Offer(watchChan[i], distributing, WatchCap)
                                           ELSE watchChan[i]]
        /\ missed' = [i \in WatchId |-> IF i \in full THEN missed[i] \cup {distributing}
                                         ELSE missed[i]]
        /\ distributing' = NoEvent
        /\ UNCHANGED <<watchVars, chanClosed, eventChan, looping, notifyVars, clientVars,
                       closeVars>>

-----------------------------------------------------------------------------
(* The goroutine that Engine.Watch starts, and the client *)

Forward(id) ==
    /\ forwarding[id] = NoEvent
    /\ watchChan[id] # <<>>
    /\ forwarding' = [forwarding EXCEPT ![id] = Head(watchChan[id])]
    /\ watchChan' = [watchChan EXCEPT ![id] = Received(@)]
    /\ UNCHANGED <<watchVars, chanClosed, queueVars, notifyVars, resultChan, resultClosed,
                   received, closeVars, panicked, missed>>

PutResult(id) ==
    /\ forwarding[id] # NoEvent
    /\ Len(resultChan[id]) < ResultCap
    /\ resultChan' = [resultChan EXCEPT ![id] = Append(@, forwarding[id])]
    /\ forwarding' = [forwarding EXCEPT ![id] = NoEvent]
    /\ UNCHANGED <<watchVars, chanVars, queueVars, notifyVars, resultClosed, received,
                   closeVars, panicked, missed>>

EndForwarding(id) ==
    /\ id \in chanClosed \ resultClosed
    /\ forwarding[id] = NoEvent
    /\ watchChan[id] = <<>>
    /\ resultClosed' = resultClosed \cup {id}
    /\ UNCHANGED <<watchVars, chanVars, queueVars, notifyVars, forwarding, resultChan,
                   received, closeVars, panicked, missed>>

Receive(id) ==
    /\ resultChan[id] # <<>>
    /\ received' = [received EXCEPT ![id] = Append(@, Head(resultChan[id]))]
    /\ resultChan' = [resultChan EXCEPT ![id] = Received(@)]
    /\ UNCHANGED <<watchVars, chanVars, queueVars, notifyVars, forwarding, resultClosed,
                   closeVars, panicked, missed>>

-----------------------------------------------------------------------------
(* Engine.Close: it sets e.closed under e.mu, lets go of the lock, and calls Stop *)

CloseEngine ==
    /\ EngineFree
    /\ engineClosed' = TRUE
    /\ UNCHANGED <<watchVars, chanVars, queueVars, notifyVars, clientVars, stopped, panicked,
                   missed>>

\* Every watch is closed and stays registered
Stop ==
    /\ engineClosed
    /\ ~stopped
    /\ stopped' = TRUE
    /\ CloseWatch(watches)
    /\ UNCHANGED <<watchVars, watchChan, queueVars, notifyVars, clientVars, engineClosed,
                   missed>>

-----------------------------------------------------------------------------
(* The goroutines.  A panic ends the process. *)

EventLoop == ~panicked /\ (TakeEvent \/ Distribute \/ EndLoop)
Cleanup(id) == ~panicked /\ CleanupWatch(id)
Forwarder(id) == ~panicked /\ (Forward(id) \/ PutResult(id) \/ EndForwarding(id))
Client(id) == ~panicked /\ Receive(id)
EngineCalls ==
    /\ ~panicked
    /\ \/ \E p \in Pattern : Watch(p)
       \/ \E id \in WatchId : Cancel(id)
       \/ \E key \in Key : StartNotify(key)
       \/ SendEvent \/ CloseEngine \/ Stop

Next ==
    \/ EngineCalls \/ EventLoop
    \/ \E id \in WatchId : Cleanup(id) \/ Forwarder(id) \/ Client(id)

Spec == Init /\ [][Next]_vars

\* A forwarding goroutine goes on whenever it can, and a client reads until its
\* channel is closed (handleWatch ranges over it).  Nothing else need ever happen.
FairSpec == Spec /\ \A id \in WatchId : WF_vars(Forwarder(id)) /\ WF_vars(Client(id))

-----------------------------------------------------------------------------
(* Properties *)

TypeOK ==
    /\ patterns \in Seq(Pattern) /\ Created \subseteq WatchId
    /\ watches \subseteq Created
    /\ watchers \in [Pattern -> Seq(WatchId)]
    /\ watchChan \in [WatchId -> Seq(Event)]
    /\ \A id \in WatchId : Len(watchChan[id]) <= WatchCap
    /\ chanClosed \subseteq Created
    /\ eventChan \in Seq(Event) /\ Len(eventChan) <= EventCap
    /\ distributing \in Event \cup {NoEvent}
    /\ notifying \in Key \cup {None}
    /\ forwarding \in [WatchId -> Event \cup {NoEvent}]
    /\ resultChan \in [WatchId -> Seq(Event)]
    /\ \A id \in WatchId : Len(resultChan[id]) <= ResultCap
    /\ resultClosed \subseteq chanClosed
    /\ received \in [WatchId -> Seq(Event)]
    /\ {stopped, looping, engineClosed, panicked} \subseteq BOOLEAN
    /\ notified \in Seq(Key) /\ Len(notified) <= MaxEvents
    /\ missed \in [WatchId -> SUBSET Event]

InHand(event) == IF event = NoEvent THEN <<>> ELSE <<event>>

\* All that a watch has been sent, and all that is still to be distributed
SentTo(id) == received[id] \o resultChan[id] \o InHand(forwarding[id]) \o watchChan[id]
Undistributed == InHand(distributing) \o eventChan

\* A client sees events in the order of the writes, none twice, although they pass
\* through three channels and two goroutines that drop, block and end on their own
\* (watcher.go:190-237, engine.go:664-671).
EventsInOrder ==
    \A id \in Created :
        LET events == SentTo(id) \o Undistributed
        IN  \A i, j \in DOMAIN events : i < j => events[i] < events[j]

\* What a watch is created for
Watched(p, key) == IF p.prefix THEN IsPrefix(p.key, key) ELSE key = p.key

\* A registered watch gets every matching event notified since it was created, unless
\* a channel was full (watcher.go:182-186, 209-236) or the watch is for the empty
\* prefix, under which distributeEvent never finds it (watcher.go:219).
Findable(p) == p.prefix => p.key # <<>>
LostOnlyWhenFull ==
    ~stopped =>
        \A id \in watches : \A event \in DOMAIN notified \ missed[id] :
            Findable(patterns[id]) /\ Watched(patterns[id], notified[event]) =>
                event \in ToSet(SentTo(id) \o Undistributed)

\* As long as the watcher is not stopped no goroutine panics, however Cancel, the
\* cleanup goroutine it wakes and the event loop interleave (watcher.go:149-165, 268-279).
PanicOnlyOnceStopped == panicked => stopped

\* A client whose watch is cancelled sees its channel end (engine.go:666-671).
CancelledWatchEnds ==
    \A id \in WatchId :
        id \in Created \ watches ~> id \in resultClosed \/ panicked

\* What the watcher's introduction promises: an event for the key or prefix of a watch
\* that stays registered is on its way to the client from the call of Notify on, and is
\* not lost on that way (watcher.go:19-20, 29).
InFlow(id) == ToSet(SentTo(id) \o Undistributed)
EventsNotLost ==
    [][~stopped' =>
        \A id \in watches \cap watches' : \A event \in DOMAIN notified' :
            /\ event \in DOMAIN notified => event \in InFlow(id)
            /\ Watched(patterns[id], notified'[event])
            => event \in InFlow(id)']_vars
=============================================================================
