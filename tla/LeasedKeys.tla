----------------------------- MODULE LeasedKeys -----------------------------
(***************************************************************************)
(* The lease operations of src/internal/storage/engine.go on the lease     *)
(* manager, with the two goroutines that collect expired leases.           *)
(*                                                                         *)
(* AttachToLease, DetachFromLease and RevokeLease take the manager's lock  *)
(* and the engine's one after the other, several times, so each is several *)
(* steps of its client.  Put and Delete hold e.mu throughout and are one   *)
(* step; of them only the effect on keys and leases is modelled.           *)
(*                                                                         *)
(* A key holds an object (a *KeyValue), new each time the key is created:  *)
(* AttachToLease and DetachFromLease read the LeaseID of the object they   *)
(* found at first, even if the key has been deleted or created anew since. *)
(***************************************************************************)
EXTENDS Lease

CONSTANTS
    Client,
    MaxObject,    \* bound: objects ever created
    MaxListed     \* bound: times a key is listed in a lease

ASSUME LeasedKeysAssumption == MaxObject \in Nat /\ MaxListed \in Nat

VARIABLES
    lm,           \* e.leaseManager
    data,         \* e.data: the object of each key, or NoObject
    leaseOf,      \* LeaseID of each object
    created,      \* number of objects created so far
    call,         \* the operation each client is in, and how far it is
    collected,    \* expiredKeys of leaseCleanupRoutine, before it gets e.mu
    leasedBy      \* history: "put" or "attach", what gave each object its lease;
                  \* "none" once it has none, or an AttachToLease has detached the
                  \* object from it without attaching it to another

objects == <<data, leaseOf>>
vars == <<lm, objects, created, call, collected, leasedBy>>

Object == 1..MaxObject
NoObject == 0
Idle == [at |-> "idle"]

Exists(k) == data[k] # NoObject
LeaseOf(k) == leaseOf[data[k]]

Init ==
    /\ lm = NewLeaseManager
    /\ data = [k \in Key |-> NoObject]
    /\ leaseOf = [o \in Object |-> NoLease]
    /\ created = 0
    /\ call = [c \in Client |-> Idle]
    /\ collected = {}
    /\ leasedBy = [o \in Object |-> "none"]

-----------------------------------------------------------------------------
(* Put, and every way in which a key goes *)

ObjectFor(k) == IF Exists(k) THEN data[k] ELSE created + 1

\* Put in memory: a key that exists keeps its object
Store(k) ==
    /\ ObjectFor(k) <= MaxObject
    /\ data' = [data EXCEPT ![k] = ObjectFor(k)]
    /\ created' = IF Exists(k) THEN created ELSE created + 1

\* Put with ttl 0 of a new key.  A key that exists keeps its lease: nothing changes.
\* (The engine refuses puts before it closes its lease manager.)
Put(c, k) ==
    /\ call[c] = Idle
    /\ ~lm.closed
    /\ ~Exists(k)
    /\ Store(k)
    /\ UNCHANGED <<lm, leaseOf, call, collected, leasedBy>>

\* Put with ttl > 0: a lease of its own is granted and the key attached to it
PutWithTTL(c, k) ==
    LET lease == lm.nextLeaseID + 1
    IN  /\ call[c] = Idle
        /\ CanGrant(lm)
        /\ Store(k)
        /\ leaseOf' = [leaseOf EXCEPT ![ObjectFor(k)] = lease]
        /\ leasedBy' = [leasedBy EXCEPT ![ObjectFor(k)] = "put"]
        /\ lm' = Attach(Grant(lm), lease, k)
        /\ UNCHANGED <<call, collected>>

\* Delete, BatchDelete, and the deletion of keys past their own TTL: the lease
\* manager is told nothing (Delete looks for the lease of the key it has deleted)
Remove(k) ==
    /\ Exists(k)
    /\ data' = [data EXCEPT ![k] = NoObject]
    /\ UNCHANGED <<lm, leaseOf, created, call, collected, leasedBy>>

-----------------------------------------------------------------------------
(* GrantLease, KeepAliveLease *)

GrantLease(c) ==
    /\ call[c] = Idle
    /\ CanGrant(lm)
    /\ lm' = Grant(lm)
    /\ UNCHANGED <<objects, created, call, collected, leasedBy>>

KeepAliveLease(c, l) ==
    /\ call[c] = Idle
    /\ Found(lm, l)
    /\ lm' = KeepAlive(lm, l)
    /\ UNCHANGED <<objects, created, call, collected, leasedBy>>

-----------------------------------------------------------------------------
(* AttachToLease *)

StartAttach(c, l, k) ==
    /\ call[c] = Idle
    /\ Exists(k)
    /\ call' = [call EXCEPT ![c] = [at |-> "detach old", lease |-> l, key |-> k,
                                     object |-> data[k]]]
    /\ UNCHANGED <<lm, objects, created, collected, leasedBy>>

\* An object with a lease is detached from whatever lease the manager has it under
DetachOld(c) ==
    LET detaches == leaseOf[call[c].object] # NoLease /\ CanDetach(lm, call[c].key)
    IN  /\ call[c].at = "detach old"
        /\ lm' = IF detaches THEN Detach(lm, call[c].key) ELSE lm
        /\ call' = [call EXCEPT ![c].at = "attach new"]
        /\ UNCHANGED <<objects, created, collected, leasedBy>>

AttachNew(c) ==
    /\ call[c].at = "attach new"
    /\ Found(lm, call[c].lease)
    /\ lm.listed[call[c].lease][call[c].key] < MaxListed
    /\ lm' = Attach(lm, call[c].lease, call[c].key)
    /\ call' = [call EXCEPT ![c].at = "record"]
    /\ UNCHANGED <<objects, created, collected, leasedBy>>

\* The new lease is gone: the error is returned, the old lease stays detached
FailToAttach(c) ==
    /\ call[c].at = "attach new"
    /\ ~Found(lm, call[c].lease)
    /\ call' = [call EXCEPT ![c] = Idle]
    /\ leasedBy' = [leasedBy EXCEPT ![call[c].object] = "none"]
    /\ UNCHANGED <<lm, objects, created, collected>>

\* The last part of both operations: the key's object, if it has one, gets lease l
RecordLease(c, l, by) ==
    LET object == data[call[c].key]
    IN  /\ leaseOf' = [o \in Object |-> IF o = object THEN l ELSE leaseOf[o]]
        /\ leasedBy' = [o \in Object |-> IF o = object THEN by ELSE leasedBy[o]]
        /\ call' = [call EXCEPT ![c] = Idle]
        /\ UNCHANGED <<lm, data, created, collected>>

RecordAttached(c) == call[c].at = "record" /\ RecordLease(c, call[c].lease, "attach")

-----------------------------------------------------------------------------
(* DetachFromLease *)

StartDetach(c, k) ==
    /\ call[c] = Idle
    /\ Exists(k)
    /\ call' = [call EXCEPT ![c] = [at |-> "detach", key |-> k, object |-> data[k]]]
    /\ UNCHANGED <<lm, objects, created, collected, leasedBy>>

DetachKey(c) ==
    LET detaches == leaseOf[call[c].object] # NoLease /\ CanDetach(lm, call[c].key)
    IN  /\ call[c].at = "detach"
        /\ lm' = IF detaches THEN Detach(lm, call[c].key) ELSE lm
        /\ call' = [call EXCEPT ![c] = IF detaches THEN [@ EXCEPT !.at = "clear"] ELSE Idle]
        /\ UNCHANGED <<objects, created, collected, leasedBy>>

RecordDetached(c) == call[c].at = "clear" /\ RecordLease(c, NoLease, "none")

-----------------------------------------------------------------------------
(* RevokeLease *)

StartRevoke(c, l) ==
    /\ call[c] = Idle
    /\ Found(lm, l)
    /\ call' = [call EXCEPT ![c] = [at |-> "delete keys", lease |-> l, keys |-> Keys(lm, {l})]]
    /\ UNCHANGED <<lm, objects, created, collected, leasedBy>>

\* Mutant: the manager's entry decides, not the LeaseID of the key
RevokedKeysMapped(c) == {k \in call[c].keys : Exists(k) /\ lm.keyToLease[k] = call[c].lease}
\* Of the keys seen before, those that still have this lease are deleted
RevokedKeys(c) ==
    {k \in call[c].keys : Exists(k) /\ LeaseOf(k) = call[c].lease}
DeleteRevokedKeys(c) ==
    /\ call[c].at = "delete keys"
    /\ data' = [k \in Key |-> IF k \in RevokedKeys(c) THEN NoObject ELSE data[k]]
    /\ call' = [call EXCEPT ![c].at = "revoke"]
    /\ UNCHANGED <<lm, leaseOf, created, collected, leasedBy>>

\* Revoke fails if the lease ended meanwhile
FinishRevoke(c) ==
    LET ended == IF lm.closed THEN {} ELSE {call[c].lease} \cap lm.leases
    IN  /\ call[c].at = "revoke"
        /\ lm' = EndLeases(lm, ended)
        /\ call' = [call EXCEPT ![c] = Idle]
        /\ UNCHANGED <<objects, created, collected, leasedBy>>

-----------------------------------------------------------------------------
(* Time, the cleanup goroutines, shutdown *)

LeaseRunsOut(l) ==
    /\ l \in lm.leases \ lm.expired
    /\ lm' = [lm EXCEPT !.expired = @ \cup {l}]
    /\ UNCHANGED <<objects, created, call, collected, leasedBy>>

\* The manager's cleanupRoutine: the expired keys are returned to nobody
DiscardExpired ==
    /\ ExpiredLeases(lm) # {}
    /\ lm' = EndLeases(lm, ExpiredLeases(lm))
    /\ UNCHANGED <<objects, created, call, collected, leasedBy>>

\* The engine's leaseCleanupRoutine gets hold of expired keys ...
CollectExpired ==
    /\ collected = {}
    /\ ExpiredLeases(lm) # {}
    /\ collected' = Keys(lm, ExpiredLeases(lm))
    /\ lm' = EndLeases(lm, ExpiredLeases(lm))
    /\ UNCHANGED <<objects, created, call, leasedBy>>

\* ... and deletes them once it has e.mu, whatever lease they have by then
DeleteCollected ==
    /\ collected # {}
    /\ data' = [k \in Key |-> IF k \in collected THEN NoObject ELSE data[k]]
    /\ collected' = {}
    /\ UNCHANGED <<lm, leaseOf, created, call, leasedBy>>

CloseLeases ==
    /\ ~lm.closed
    /\ lm' = CloseManager(lm)
    /\ UNCHANGED <<objects, created, call, collected, leasedBy>>

ClientStep(c) ==
    \/ \E k \in Key : Put(c, k) \/ PutWithTTL(c, k) \/ StartDetach(c, k)
    \/ GrantLease(c)
    \/ \E l \in Granted(lm) :
          KeepAliveLease(c, l) \/ StartRevoke(c, l) \/ \E k \in Key : StartAttach(c, l, k)
    \/ DetachOld(c) \/ AttachNew(c) \/ FailToAttach(c) \/ RecordAttached(c)
    \/ DetachKey(c) \/ RecordDetached(c)
    \/ DeleteRevokedKeys(c) \/ FinishRevoke(c)

Next ==
    \/ \E c \in Client : ClientStep(c)
    \/ \E k \in Key : Remove(k)
    \/ \E l \in LeaseId : LeaseRunsOut(l)
    \/ DiscardExpired \/ CollectExpired \/ DeleteCollected
    \/ CloseLeases

Spec == Init /\ [][Next]_vars

-----------------------------------------------------------------------------
(* Properties *)

Call ==
    {Idle}
    \cup [at : {"detach old", "attach new", "record"},
          lease : LeaseId, key : Key, object : Object]
    \cup [at : {"detach", "clear"}, key : Key, object : Object]
    \cup [at : {"delete keys", "revoke"}, lease : LeaseId, keys : SUBSET Key]

TypeOK ==
    /\ lm \in Manager
    /\ data \in [Key -> Object \cup {NoObject}]
    /\ leaseOf \in [Object -> LeaseId \cup {NoLease}]
    /\ created \in 0..MaxObject
    /\ call \in [Client -> Call]
    /\ collected \subseteq Key
    /\ leasedBy \in [Object -> {"none", "put", "attach"}]

\* The lease the manager has a key under is alive and lists the key, although a
\* key may be listed in a lease several times, and in leases it has left, whose
\* end takes its entry away (lease.go:123-126, 184-188).
MappedKeyIsListed == Consistent(lm)

\* Between the calls of a single client, a live lease lists every key whose
\* object carries its id, so that its end reaches the key, unless an
\* AttachToLease failed after it had detached the object (engine.go:982-988).
LeasedKeyIsListed ==
    (\A c \in Client : call[c] = Idle) =>
        \A k \in Key :
            Exists(k) /\ leasedBy[data[k]] # "none" /\ LeaseOf(k) \in lm.leases => lm.listed[LeaseOf(k)][k] > 0

\* When RevokeLease of a single client returns, no key carries the lease, however
\* the cleanup goroutines ran between its three steps (engine.go:940-961).
RevokedLeaseLeavesNoKey ==
    [][\A c \in Client : FinishRevoke(c) =>
         \A k \in Key :
            Exists(k) /\ leasedBy[data[k]] # "none" => LeaseOf(k) # call[c].lease]_vars
=============================================================================
