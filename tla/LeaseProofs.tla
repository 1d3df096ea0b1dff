---------------------------- MODULE LeaseProofs -----------------------------
(***************************************************************************)
(* What TLAPS proves of LeasedKeys, for any number of keys and leases: the *)
(* types and the consistency of the manager for any number of clients, and *)
(* that a lease lists the keys that carry it for a single client, whose    *)
(* steps the clock, the cleanup goroutines and deletions come between.     *)
(***************************************************************************)
EXTENDS LeasedKeys, TLAPS

-----------------------------------------------------------------------------
(* The operations of the manager keep its type and its consistency *)

LEMMA NewManager == NewLeaseManager \in Manager /\ Consistent(NewLeaseManager)
BY DEF NewLeaseManager, Manager, Consistent, Granted, NoKeys, NoLease, LeaseId

LEMMA GrantKeeps ==
    ASSUME NEW m \in Manager, Consistent(m), CanGrant(m)
    PROVE  /\ Grant(m) \in Manager
           /\ Consistent(Grant(m))
           /\ m.nextLeaseID + 1 \in LeaseId
           /\ m.nextLeaseID + 1 \in Grant(m).leases
<1> DEFINE id == m.nextLeaseID + 1
<1>1. m.nextLeaseID \in Nat /\ m.nextLeaseID > 0 /\ m.nextLeaseID < MaxLease
  BY LeaseAssumption DEF CanGrant, Manager, LeaseId
<1>2. id \in LeaseId /\ id \in Nat \ {0} /\ id \in 2..id /\ m.nextLeaseID < id
  BY <1>1, LeaseAssumption DEF LeaseId
<1>3. Grant(m) = [m EXCEPT !.nextLeaseID = id, !.leases = @ \cup {id}]
  BY DEF Grant
<1> HIDE DEF id
<1>4. m.leases \cup {id} \subseteq 2..id
  <2>1. m.leases \subseteq 2..m.nextLeaseID
    BY DEF Manager, Granted
  <2> QED
    BY <1>1, <1>2, <2>1
<1>5. /\ Grant(m).leases = m.leases \cup {id}
      /\ Grant(m).nextLeaseID = id
      /\ Grant(m).keyToLease = m.keyToLease
      /\ Grant(m).listed = m.listed
  BY <1>3 DEF Manager
<1>6. Grant(m) \in Manager
  <2>1. /\ m.leases \cup {id} \in SUBSET LeaseId
        /\ id \in Nat \ {0}
    BY <1>2 DEF Manager
  <2> QED
    BY <1>3, <1>4, <2>1 DEF Manager, Granted
<1>7. Consistent(Grant(m))
  BY <1>5 DEF Consistent
<1> QED
  BY <1>2, <1>5, <1>6, <1>7 DEF id

LEMMA KeepAliveKeeps ==
    ASSUME NEW m \in Manager, Consistent(m), NEW l
    PROVE  KeepAlive(m, l) \in Manager /\ Consistent(KeepAlive(m, l))
BY DEF KeepAlive, Manager, Consistent, Granted

\* Both detachFromLease and Attach write one list and one entry of keyToLease
LEMMA SetLists ==
    ASSUME NEW m \in Manager, NEW l \in LeaseId, NEW k \in Key,
           NEW list \in [Key -> Nat], NEW entry \in LeaseId \cup {NoLease}
    PROVE  [m EXCEPT !.listed = [m.listed EXCEPT ![l] = list],
                     !.keyToLease = [m.keyToLease EXCEPT ![k] = entry]] \in Manager
<1> DEFINE listed == [m.listed EXCEPT ![l] = list]
           keyToLease == [m.keyToLease EXCEPT ![k] = entry]
<1>1. listed \in [LeaseId -> [Key -> Nat]]
  BY DEF Manager
<1>2. keyToLease \in [Key -> LeaseId \cup {NoLease}]
  BY DEF Manager
<1> HIDE DEF listed, keyToLease
<1>3. [m EXCEPT !.listed = listed, !.keyToLease = keyToLease] \in Manager
  BY <1>1, <1>2 DEF Manager, Granted
<1> QED
  BY <1>3 DEF listed, keyToLease

\* Only the entry of k changes, and only the list of l, for k
LEMMA DetachFromLeaseKeeps ==
    ASSUME NEW m \in Manager, Consistent(m), NEW l \in LeaseId \cup {NoLease}, NEW k \in Key
    PROVE  /\ DetachFromLease(m, l, k) \in Manager
           /\ m.keyToLease[k] = l => Consistent(DetachFromLease(m, l, k))
           /\ DetachFromLease(m, l, k).leases = m.leases
<1>1. CASE l \notin m.leases
  BY <1>1 DEF DetachFromLease
<1>2. CASE l \in m.leases
  <2> DEFINE d == DetachFromLease(m, l, k)
  <2>1. l \in LeaseId
    BY <1>2 DEF Manager
  <2>2. d = [m EXCEPT !.listed[l][k] = IF @ > 0 THEN @ - 1 ELSE 0, !.keyToLease[k] = NoLease]
    BY <1>2 DEF DetachFromLease
  <2>3. m.listed[l] \in [Key -> Nat]
    BY <2>1 DEF Manager
  <2>4. d \in Manager
    <3> DEFINE less == [m.listed[l] EXCEPT ![k] = IF @ > 0 THEN @ - 1 ELSE 0]
    <3>1. less \in [Key -> Nat]
      BY <2>3
    <3>2. d = [m EXCEPT !.listed = [m.listed EXCEPT ![l] = less],
                        !.keyToLease = [m.keyToLease EXCEPT ![k] = NoLease]]
      BY <2>2
    <3> HIDE DEF less, d
    <3> QED
      BY <2>1, <3>1, <3>2, SetLists
  <2>5. \A j \in Key : j # k => d.keyToLease[j] = m.keyToLease[j]
    BY <2>2 DEF Manager
  <2>6. \A i \in LeaseId, j \in Key : j # k => d.listed[i][j] = m.listed[i][j]
    BY <2>1, <2>2 DEF Manager
  <2>7. d.keyToLease[k] = NoLease /\ d.leases = m.leases
    BY <2>2 DEF Manager
  <2>8. Consistent(d)
    BY <2>5, <2>6, <2>7 DEF Consistent, Manager
  <2> QED
    BY <2>4, <2>7, <2>8
<1> QED
  BY <1>1, <1>2

LEMMA DetachKeeps ==
    ASSUME NEW m \in Manager, Consistent(m), NEW k \in Key
    PROVE  Detach(m, k) \in Manager /\ Consistent(Detach(m, k))
<1>1. m.keyToLease[k] \in LeaseId \cup {NoLease}
  BY DEF Manager
<1> QED
  BY <1>1, DetachFromLeaseKeeps DEF Detach

\* k is listed where it is mapped to; the lists lose only occurrences of k elsewhere
LEMMA AttachKeeps ==
    ASSUME NEW m \in Manager, Consistent(m), NEW l \in m.leases, NEW k \in Key
    PROVE  Attach(m, l, k) \in Manager /\ Consistent(Attach(m, l, k))
<1> DEFINE old == m.keyToLease[k]
           d == IF old \in {NoLease, l} THEN m ELSE DetachFromLease(m, old, k)
           a == Attach(m, l, k)
<1>1. old \in LeaseId \cup {NoLease} /\ l \in LeaseId
  BY DEF Manager
<1>2. d \in Manager /\ Consistent(d) /\ l \in d.leases
  BY <1>1, DetachFromLeaseKeeps
<1>3. a = [d EXCEPT !.listed[l][k] = @ + 1, !.keyToLease[k] = l]
  BY DEF Attach
<1> HIDE DEF d, a, old
<1>4. d.listed[l] \in [Key -> Nat] /\ d.listed[l][k] \in Nat
  BY <1>1, <1>2 DEF Manager
<1>5. a \in Manager
  <2> DEFINE more == [d.listed[l] EXCEPT ![k] = @ + 1]
  <2>1. more \in [Key -> Nat]
    BY <1>4
  <2>2. a = [d EXCEPT !.listed = [d.listed EXCEPT ![l] = more],
                      !.keyToLease = [d.keyToLease EXCEPT ![k] = l]]
    BY <1>3
  <2> HIDE DEF more
  <2> QED
    BY <1>1, <1>2, <2>1, <2>2, SetLists
<1>6. \A j \in Key : j # k => a.keyToLease[j] = d.keyToLease[j]
  BY <1>2, <1>3 DEF Manager
<1>7. \A i \in LeaseId, j \in Key : j # k => a.listed[i][j] = d.listed[i][j]
  BY <1>1, <1>2, <1>3 DEF Manager
<1>8. a.keyToLease[k] = l /\ a.leases = d.leases
  BY <1>2, <1>3 DEF Manager
<1>9. a.listed[l][k] > 0
  BY <1>1, <1>2, <1>3, <1>4 DEF Manager
<1>10. Consistent(a)
  BY <1>2, <1>6, <1>7, <1>8, <1>9 DEF Consistent, Manager
<1> QED
  BY <1>5, <1>10 DEF a

\* A key mapped to a lease that ends is listed in it, and so loses its entry
LEMMA EndLeasesKeeps ==
    ASSUME NEW m \in Manager, Consistent(m), NEW ended \in SUBSET m.leases
    PROVE  EndLeases(m, ended) \in Manager /\ Consistent(EndLeases(m, ended))
<1> DEFINE e == EndLeases(m, ended)
<1>1. ended \subseteq LeaseId
  BY DEF Manager
<1>2. /\ e.leases = m.leases \ ended
      /\ e.listed = [l \in LeaseId |-> IF l \in ended THEN NoKeys ELSE m.listed[l]]
      /\ e.keyToLease = [k \in Key |-> IF k \in Keys(m, ended) THEN NoLease ELSE m.keyToLease[k]]
  BY DEF EndLeases, Manager
<1>3. e \in Manager
  BY <1>1 DEF EndLeases, Manager, Granted, NoKeys, NoLease
<1>4. Consistent(e)
  <2> SUFFICES ASSUME NEW k \in Key, e.keyToLease[k] # NoLease
               PROVE  /\ e.keyToLease[k] \in e.leases
                      /\ e.listed[e.keyToLease[k]][k] > 0
    BY DEF Consistent
  <2>1. k \notin Keys(m, ended) /\ e.keyToLease[k] = m.keyToLease[k]
    BY <1>2
  <2>2. /\ m.keyToLease[k] \in m.leases
        /\ m.listed[m.keyToLease[k]][k] > 0
    BY <2>1 DEF Consistent
  <2>3. m.keyToLease[k] \notin ended
    BY <2>1, <2>2 DEF Keys
  <2> QED
    BY <1>2, <2>1, <2>2, <2>3 DEF Manager
<1> QED
  BY <1>3, <1>4

LEMMA ExpiryKeeps ==
    ASSUME NEW m \in Manager, Consistent(m), NEW l \in LeaseId
    PROVE  LET n == [m EXCEPT !.expired = @ \cup {l}]
           IN  n \in Manager /\ Consistent(n)
BY DEF Manager, Consistent, Granted

LEMMA CloseKeeps ==
    ASSUME NEW m \in Manager
    PROVE  CloseManager(m) \in Manager /\ Consistent(CloseManager(m))
BY DEF CloseManager, NewLeaseManager, Manager, Consistent, Granted, NoKeys, NoLease, LeaseId

LEMMA ExpiredLeasesLive ==
    ASSUME NEW m \in Manager
    PROVE  ExpiredLeases(m) \subseteq m.leases
BY DEF ExpiredLeases

-----------------------------------------------------------------------------
(* The inductive invariant, and the theorems *)

LeaseInv == TypeOK /\ MappedKeyIsListed

LEMMA LeaseInit == Init => LeaseInv
BY NewManager, LeasedKeysAssumption
   DEF Init, LeaseInv, TypeOK, MappedKeyIsListed, Call, Idle, Object, NoObject, NoLease, LeaseId

\* What an operation that is under way has read of the key it is about
LEMMA CallParts ==
    ASSUME NEW r \in Call
    PROVE  /\ r.at \in {"detach old", "attach new", "record"} =>
                r \in [at : {"detach old", "attach new", "record"},
                       lease : LeaseId, key : Key, object : Object]
           /\ r.at \in {"detach", "clear"} =>
                r \in [at : {"detach", "clear"}, key : Key, object : Object]
           /\ r.at \in {"delete keys", "revoke"} =>
                r \in [at : {"delete keys", "revoke"}, lease : LeaseId, keys : SUBSET Key]
<1>1. CASE r = Idle
  BY <1>1 DEF Idle
<1>2. CASE r \in [at : {"detach old", "attach new", "record"},
                  lease : LeaseId, key : Key, object : Object]
  BY <1>2
<1>3. CASE r \in [at : {"detach", "clear"}, key : Key, object : Object]
  BY <1>3
<1>4. CASE r \in [at : {"delete keys", "revoke"}, lease : LeaseId, keys : SUBSET Key]
  BY <1>4
<1> QED
  BY <1>1, <1>2, <1>3, <1>4 DEF Call

\* Every step leaves the manager alone or puts it through one of its operations
LEMMA ManagerStep ==
    ASSUME LeaseInv, [Next]_vars
    PROVE  lm' \in Manager /\ Consistent(lm')
<1> USE DEF LeaseInv, TypeOK, MappedKeyIsListed
<1>1. CASE UNCHANGED lm
  BY <1>1
<1>2. ASSUME NEW c \in Client, NEW k \in Key, PutWithTTL(c, k)
      PROVE  lm' \in Manager /\ Consistent(lm')
  BY <1>2, GrantKeeps, AttachKeeps DEF PutWithTTL
<1>3. ASSUME NEW c \in Client, GrantLease(c)
      PROVE  lm' \in Manager /\ Consistent(lm')
  BY <1>3, GrantKeeps DEF GrantLease
<1>4. ASSUME NEW c \in Client, NEW l \in Granted(lm), KeepAliveLease(c, l)
      PROVE  lm' \in Manager /\ Consistent(lm')
  BY <1>4, KeepAliveKeeps DEF KeepAliveLease
<1>5. ASSUME NEW c \in Client, DetachOld(c)
      PROVE  lm' \in Manager /\ Consistent(lm')
  <2>1. call[c] \in Call
    OBVIOUS
  <2>2. call[c].key \in Key
    BY <1>5, <2>1, CallParts DEF DetachOld
  <2> QED
    BY <1>5, <2>2, DetachKeeps DEF DetachOld
<1>6. ASSUME NEW c \in Client, AttachNew(c)
      PROVE  lm' \in Manager /\ Consistent(lm')
  <2>1. call[c] \in Call
    OBVIOUS
  <2>2. call[c].key \in Key /\ call[c].lease \in lm.leases
    BY <1>6, <2>1, CallParts DEF AttachNew, Found
  <2> QED
    BY <1>6, <2>2, AttachKeeps DEF AttachNew
<1>7. ASSUME NEW c \in Client, DetachKey(c)
      PROVE  lm' \in Manager /\ Consistent(lm')
  <2>1. call[c] \in Call
    OBVIOUS
  <2>2. call[c].key \in Key
    BY <1>7, <2>1, CallParts DEF DetachKey
  <2> QED
    BY <1>7, <2>2, DetachKeeps DEF DetachKey
<1>8. ASSUME NEW c \in Client, FinishRevoke(c)
      PROVE  lm' \in Manager /\ Consistent(lm')
  BY <1>8, EndLeasesKeeps DEF FinishRevoke
<1>9. ASSUME NEW l \in LeaseId, LeaseRunsOut(l)
      PROVE  lm' \in Manager /\ Consistent(lm')
  BY <1>9, ExpiryKeeps DEF LeaseRunsOut
<1>10. CASE DiscardExpired \/ CollectExpired
  BY <1>10, ExpiredLeasesLive, EndLeasesKeeps DEF DiscardExpired, CollectExpired
<1>11. CASE CloseLeases
  BY <1>11, CloseKeeps DEF CloseLeases
<1> QED
  BY <1>1, <1>2, <1>3, <1>4, <1>5, <1>6, <1>7, <1>8, <1>9, <1>10, <1>11
     DEF Next, ClientStep, vars, Put, Remove, StartAttach, StartDetach, StartRevoke,
         FailToAttach, RecordAttached, RecordDetached, RecordLease, DeleteRevokedKeys,
         DeleteCollected

\* What has been read by operations and written in objects
OtherTypes ==
    /\ data \in [Key -> Object \cup {NoObject}]
    /\ leaseOf \in [Object -> LeaseId \cup {NoLease}]
    /\ created \in 0..MaxObject
    /\ call \in [Client -> Call]
    /\ collected \subseteq Key
    /\ leasedBy \in [Object -> {"none", "put", "attach"}]

LEMMA StoreTypes ==
    ASSUME OtherTypes, NEW k \in Key, Store(k)
    PROVE  /\ data' \in [Key -> Object \cup {NoObject}]
           /\ created' \in 0..MaxObject
           /\ ObjectFor(k) \in Object
<1>1. ObjectFor(k) \in Object
  BY LeasedKeysAssumption DEF OtherTypes, Store, ObjectFor, Exists, Object, NoObject
<1> QED
  BY <1>1, LeasedKeysAssumption DEF OtherTypes, Store, ObjectFor, Object

LEMMA RecordLeaseTypes ==
    ASSUME OtherTypes, NEW c \in Client, NEW l \in LeaseId \cup {NoLease},
           NEW by \in {"none", "attach"}, RecordLease(c, l, by)
    PROVE  OtherTypes'
<1>1. Idle \in Call
  BY DEF Call
<1>2. leaseOf' \in [Object -> LeaseId \cup {NoLease}]
  BY DEF OtherTypes, RecordLease
<1>3. leasedBy' \in [Object -> {"none", "put", "attach"}]
  BY DEF OtherTypes, RecordLease
<1> QED
  BY <1>1, <1>2, <1>3 DEF OtherTypes, RecordLease

LEMMA OtherStep ==
    ASSUME LeaseInv, [Next]_vars
    PROVE  OtherTypes'
<1> USE DEF OtherTypes
<1>1. OtherTypes /\ lm \in Manager /\ Idle \in Call
  BY DEF LeaseInv, TypeOK, Call
<1> \A c \in Client : call[c] \in Call
  BY <1>1
<1>2. Granted(lm) \subseteq LeaseId
  BY <1>1, LeaseAssumption DEF Manager, Granted, LeaseId
<1>3. CASE UNCHANGED vars
  BY <1>1, <1>3 DEF vars, objects
<1>4. ASSUME NEW c \in Client, NEW k \in Key, Put(c, k)
      PROVE  OtherTypes'
  BY <1>1, <1>4, StoreTypes DEF Put
<1>5. ASSUME NEW c \in Client, NEW k \in Key, PutWithTTL(c, k)
      PROVE  OtherTypes'
  <2>1. lm.nextLeaseID + 1 \in LeaseId
    BY <1>1, <1>5, GrantKeeps DEF PutWithTTL, LeaseInv, MappedKeyIsListed
  <2> QED
    BY <1>1, <1>5, <2>1, StoreTypes DEF PutWithTTL
<1>6. ASSUME NEW k \in Key, Remove(k)
      PROVE  OtherTypes'
  BY <1>1, <1>6 DEF Remove
<1>7. ASSUME NEW c \in Client, NEW l \in Granted(lm), NEW k \in Key, StartAttach(c, l, k)
      PROVE  OtherTypes'
  <2>1. data[k] \in Object
    BY <1>1, <1>7 DEF StartAttach, Exists
  <2>2. [at |-> "detach old", lease |-> l, key |-> k, object |-> data[k]] \in Call
    BY <1>2, <2>1 DEF Call
  <2> QED
    BY <1>1, <1>7, <2>2 DEF StartAttach, objects
<1>8. ASSUME NEW c \in Client, DetachOld(c)
      PROVE  OtherTypes'
  <2>1. [call[c] EXCEPT !.at = "attach new"] \in Call
    <3>1. call[c] \in [at : {"detach old", "attach new", "record"},
                       lease : LeaseId, key : Key, object : Object]
      BY <1>8, CallParts DEF DetachOld
    <3> QED
      BY <3>1 DEF Call
  <2> QED
    BY <1>1, <1>8, <2>1 DEF DetachOld, objects
<1>9. ASSUME NEW c \in Client, AttachNew(c)
      PROVE  OtherTypes'
  <2>1. [call[c] EXCEPT !.at = "record"] \in Call
    <3>1. call[c] \in [at : {"detach old", "attach new", "record"},
                       lease : LeaseId, key : Key, object : Object]
      BY <1>9, CallParts DEF AttachNew
    <3> QED
      BY <3>1 DEF Call
  <2> QED
    BY <1>1, <1>9, <2>1 DEF AttachNew, objects
<1>10. ASSUME NEW c \in Client, FailToAttach(c)
      PROVE  OtherTypes'
  BY <1>1, <1>10 DEF FailToAttach, objects
<1>11. ASSUME NEW c \in Client, RecordAttached(c)
       PROVE  OtherTypes'
  <2>1. call[c].lease \in LeaseId
    BY <1>11, CallParts DEF RecordAttached
  <2> QED
    BY <1>1, <1>11, <2>1, RecordLeaseTypes DEF RecordAttached
<1>12. ASSUME NEW c \in Client, NEW k \in Key, StartDetach(c, k)
       PROVE  OtherTypes'
  <2>1. data[k] \in Object
    BY <1>1, <1>12 DEF StartDetach, Exists
  <2>2. [at |-> "detach", key |-> k, object |-> data[k]] \in Call
    BY <2>1 DEF Call
  <2> QED
    BY <1>1, <1>12, <2>2 DEF StartDetach, objects
<1>13. ASSUME NEW c \in Client, DetachKey(c)
       PROVE  OtherTypes'
  <2>1. [call[c] EXCEPT !.at = "clear"] \in Call
    <3>1. call[c] \in [at : {"detach", "clear"}, key : Key, object : Object]
      BY <1>13, CallParts DEF DetachKey
    <3> QED
      BY <3>1 DEF Call
  <2> QED
    BY <1>1, <1>13, <2>1 DEF DetachKey, objects
<1>14. ASSUME NEW c \in Client, RecordDetached(c)
       PROVE  OtherTypes'
  BY <1>1, <1>14, RecordLeaseTypes DEF RecordDetached
<1>15. ASSUME NEW c \in Client, NEW l \in Granted(lm), StartRevoke(c, l)
       PROVE  OtherTypes'
  <2>1. [at |-> "delete keys", lease |-> l, keys |-> Keys(lm, {l})] \in Call
    BY <1>2 DEF Call, Keys
  <2> QED
    BY <1>1, <1>15, <2>1 DEF StartRevoke, objects
<1>16. ASSUME NEW c \in Client, DeleteRevokedKeys(c)
       PROVE  OtherTypes'
  <2>1. [call[c] EXCEPT !.at = "revoke"] \in Call
    <3>1. call[c] \in [at : {"delete keys", "revoke"}, lease : LeaseId, keys : SUBSET Key]
      BY <1>16, CallParts DEF DeleteRevokedKeys
    <3> QED
      BY <3>1 DEF Call
  <2>2. data' \in [Key -> Object \cup {NoObject}]
    BY <1>1, <1>16 DEF DeleteRevokedKeys
  <2> QED
    BY <1>1, <1>16, <2>1, <2>2 DEF DeleteRevokedKeys
<1>17. ASSUME NEW c \in Client, FinishRevoke(c)
       PROVE  OtherTypes'
  BY <1>1, <1>17 DEF FinishRevoke, objects
<1>18. ASSUME NEW c \in Client
       PROVE  /\ GrantLease(c) => OtherTypes'
              /\ \A l \in Granted(lm) : KeepAliveLease(c, l) => OtherTypes'
  BY <1>1 DEF GrantLease, KeepAliveLease, objects
<1>19. ASSUME (\E l \in LeaseId : LeaseRunsOut(l)) \/ DiscardExpired \/ CloseLeases
       PROVE  OtherTypes'
  BY <1>1, <1>19 DEF LeaseRunsOut, DiscardExpired, CloseLeases, objects
<1>20. CASE CollectExpired
  BY <1>1, <1>20 DEF CollectExpired, Keys, objects
<1>21. CASE DeleteCollected
  <2>1. data' \in [Key -> Object \cup {NoObject}]
    BY <1>1, <1>21 DEF DeleteCollected
  <2> QED
    BY <1>1, <1>21, <2>1 DEF DeleteCollected
<1> QED
  BY <1>3, <1>4, <1>5, <1>6, <1>7, <1>8, <1>9, <1>10, <1>11, <1>12, <1>13, <1>14,
     <1>15, <1>16, <1>17, <1>18, <1>19, <1>20, <1>21 DEF Next, ClientStep

\* The invariant that both theorems rest on
THEOREM LeaseInvariant == Spec => []LeaseInv
<1>1. LeaseInv /\ [Next]_vars => LeaseInv'
  BY ManagerStep, OtherStep DEF LeaseInv, TypeOK, OtherTypes, MappedKeyIsListed
<1> QED
  BY <1>1, LeaseInit, PTL DEF Spec

\* The variables keep their types, for any number of clients, keys and leases.
THEOREM LeaseTypes == Spec => []TypeOK
<1>1. LeaseInv => TypeOK
  BY DEF LeaseInv
<1> QED
  BY <1>1, LeaseInvariant, PTL

\* However the operations of any number of clients and the cleanup goroutines
\* interleave, the lease a key is mapped to is alive and lists it.
THEOREM MappedKeysListed == Spec => []MappedKeyIsListed
<1>1. LeaseInv => MappedKeyIsListed
  BY DEF LeaseInv
<1> QED
  BY <1>1, LeaseInvariant, PTL
-----------------------------------------------------------------------------
(* What the operations of the manager do to its lists *)

\* Leases that are alive afterwards are the ones there were, or new; ids are not reused.
KeepsLeases(m, n) ==
    /\ m.nextLeaseID <= n.nextLeaseID
    /\ \A l \in n.leases : l \in m.leases \/ m.nextLeaseID < l
\* A lease that stays alive still lists a key that it listed
KeepsListed(m, n, k) ==
    \A l \in m.leases \cap n.leases : m.listed[l][k] > 0 => n.listed[l][k] > 0

LEMMA ManagerNumbers ==
    ASSUME NEW m \in Manager
    PROVE  /\ m.nextLeaseID \in Nat
           /\ m.leases \subseteq LeaseId
           /\ \A l \in LeaseId : l \in Nat /\ 0 < l
           /\ \A l \in m.leases : l \in Nat /\ l <= m.nextLeaseID
           /\ \A l \in LeaseId, k \in Key : m.listed[l][k] \in Nat
<1>1. \A l \in LeaseId : l \in Nat /\ 0 < l
  BY LeaseAssumption DEF LeaseId
<1>2. m.leases \subseteq LeaseId /\ m.leases \subseteq 2..m.nextLeaseID
  BY DEF Manager, Granted
<1>3. m.nextLeaseID \in {1} \cup LeaseId
  BY DEF Manager
<1>4. m.nextLeaseID \in Nat
  BY <1>1, <1>3
<1>5. \A l \in m.leases : l \in Nat /\ l <= m.nextLeaseID
  BY <1>1, <1>2, <1>4
<1>6. \A l \in LeaseId, k \in Key : m.listed[l][k] \in Nat
  BY DEF Manager
<1> QED
  BY <1>1, <1>2, <1>4, <1>5, <1>6

LEMMA SameKeeps ==
    ASSUME NEW m \in Manager
    PROVE  KeepsLeases(m, m) /\ \A k \in Key : KeepsListed(m, m, k)
BY ManagerNumbers DEF KeepsLeases, KeepsListed

LEMMA GrantLists ==
    ASSUME NEW m \in Manager, CanGrant(m)
    PROVE  /\ Grant(m).nextLeaseID = m.nextLeaseID + 1
           /\ Grant(m).leases = m.leases \cup {m.nextLeaseID + 1}
           /\ KeepsLeases(m, Grant(m))
           /\ \A k \in Key : KeepsListed(m, Grant(m), k)
<1>1. /\ Grant(m).nextLeaseID = m.nextLeaseID + 1
      /\ Grant(m).leases = m.leases \cup {m.nextLeaseID + 1}
      /\ Grant(m).listed = m.listed
  BY DEF Grant, Manager
<1> QED
  BY <1>1, ManagerNumbers DEF KeepsLeases, KeepsListed

\* Only the list of one lease changes, and only for k
LEMMA DetachLists ==
    ASSUME NEW m \in Manager, NEW l \in LeaseId \cup {NoLease}, NEW k \in Key
    PROVE  LET d == DetachFromLease(m, l, k)
           IN  /\ KeepsLeases(m, d) /\ d.leases = m.leases /\ d.nextLeaseID = m.nextLeaseID
               /\ \A i \in LeaseId, j \in Key : i # l \/ j # k => d.listed[i][j] = m.listed[i][j]
<1>1. CASE l \notin m.leases
  BY <1>1, SameKeeps DEF DetachFromLease
<1>2. CASE l \in m.leases
  <2> DEFINE d == DetachFromLease(m, l, k)
  <2>1. l \in LeaseId
    BY <1>2, ManagerNumbers
  <2>2. d = [m EXCEPT !.listed[l][k] = IF @ > 0 THEN @ - 1 ELSE 0, !.keyToLease[k] = NoLease]
    BY <1>2 DEF DetachFromLease
  <2>3. d.leases = m.leases /\ d.nextLeaseID = m.nextLeaseID
    BY <2>2 DEF Manager
  <2>4. \A i \in LeaseId, j \in Key : i # l \/ j # k => d.listed[i][j] = m.listed[i][j]
    BY <2>1, <2>2 DEF Manager
  <2> HIDE DEF d
  <2>5. KeepsLeases(m, d)
    BY <2>3, ManagerNumbers DEF KeepsLeases
  <2> QED
    BY <2>3, <2>4, <2>5 DEF d
<1> QED
  BY <1>1, <1>2

LEMMA AttachLists ==
    ASSUME NEW m \in Manager, Consistent(m), NEW l \in m.leases, NEW k \in Key
    PROVE  LET a == Attach(m, l, k)
           IN  /\ KeepsLeases(m, a) /\ a.leases = m.leases /\ a.nextLeaseID = m.nextLeaseID
               /\ a.listed[l][k] > 0
               /\ \A j \in Key : j # k => KeepsListed(m, a, j)
<1> DEFINE old == m.keyToLease[k]
           d == IF old \in {NoLease, l} THEN m ELSE DetachFromLease(m, old, k)
           a == Attach(m, l, k)
<1>1. old \in LeaseId \cup {NoLease} /\ l \in LeaseId
  BY DEF Manager
<1>2. d \in Manager
  BY <1>1, DetachFromLeaseKeeps
<1>3. /\ d.leases = m.leases /\ d.nextLeaseID = m.nextLeaseID
      /\ \A i \in LeaseId, j \in Key : j # k => d.listed[i][j] = m.listed[i][j]
  BY <1>1, DetachLists
<1>4. a = [d EXCEPT !.listed[l][k] = @ + 1, !.keyToLease[k] = l]
  BY DEF Attach
<1> HIDE DEF d, a, old
<1>5. /\ a.leases = d.leases /\ a.nextLeaseID = d.nextLeaseID
      /\ \A i \in LeaseId, j \in Key : j # k => a.listed[i][j] = d.listed[i][j]
  BY <1>1, <1>2, <1>4 DEF Manager
<1>6. a.listed[l][k] = d.listed[l][k] + 1
  BY <1>1, <1>2, <1>4 DEF Manager
<1>7. a.listed[l][k] > 0
  BY <1>1, <1>2, <1>6, ManagerNumbers
<1>8. KeepsLeases(m, a)
  BY <1>3, <1>5, ManagerNumbers DEF KeepsLeases
<1>9. \A j \in Key : j # k => KeepsListed(m, a, j)
  <2>1. m.leases \subseteq LeaseId
    BY ManagerNumbers
  <2> QED
    BY <1>3, <1>5, <2>1 DEF KeepsListed
<1> QED
  BY <1>3, <1>5, <1>7, <1>8, <1>9 DEF a

LEMMA EndLists ==
    ASSUME NEW m \in Manager, NEW ended
    PROVE  /\ KeepsLeases(m, EndLeases(m, ended))
           /\ \A k \in Key : KeepsListed(m, EndLeases(m, ended), k)
<1>1. /\ EndLeases(m, ended).nextLeaseID = m.nextLeaseID
      /\ EndLeases(m, ended).leases = m.leases \ ended
      /\ EndLeases(m, ended).listed = [l \in LeaseId |-> IF l \in ended THEN NoKeys ELSE m.listed[l]]
  BY DEF EndLeases, Manager
<1>2. m.leases \subseteq LeaseId /\ m.nextLeaseID \in Nat
  BY ManagerNumbers
<1> QED
  BY <1>1, <1>2 DEF KeepsLeases, KeepsListed

LEMMA CloseLists ==
    ASSUME NEW m \in Manager
    PROVE  /\ KeepsLeases(m, CloseManager(m))
           /\ \A k \in Key : KeepsListed(m, CloseManager(m), k)
<1>1. CloseManager(m).leases = {} /\ CloseManager(m).nextLeaseID = m.nextLeaseID
  BY DEF CloseManager, NewLeaseManager
<1> QED
  BY <1>1, ManagerNumbers DEF KeepsLeases, KeepsListed

-----------------------------------------------------------------------------
(* A single client: what it does is never overtaken by an operation of another, *)
(* but by time, the cleanup goroutines, and deletions                          *)

SingleClient == \A c, d \in Client : c = d

Attaching == {"detach old", "attach new", "record"}
Detaching == {"detach", "clear"}
Revoking == {"delete keys", "revoke"}

\* No two keys share an object, and the objects still to be created have no lease.
ObjectsInv ==
    /\ \A k \in Key : data[k] <= created
    /\ \A j, k \in Key : Exists(j) /\ data[j] = data[k] => j = k
    /\ \A o \in Object : o > created => leasedBy[o] = "none"

\* The leases that objects carry and operations are about have been granted, so that a lease
\* granted later is none of them.
GrantedInv ==
    /\ \A o \in Object : leaseOf[o] <= lm.nextLeaseID
    /\ \A c \in Client : call[c].at \in Attaching \cup Revoking => call[c].lease <= lm.nextLeaseID

\* The key that an operation attaches or detaches has the object it had, or is gone.
SameObject ==
    \A c \in Client : call[c].at \in Attaching \cup Detaching =>
        data[call[c].key] \in {NoObject, call[c].object}

Leased(k, l) == Exists(k) /\ leasedBy[data[k]] # "none" /\ LeaseOf(k) = l
\* The key's old lease may have lost it, while its object still carries the lease.
Changing(k) == \E c \in Client : call[c].at \in {"attach new", "record", "clear"} /\ call[c].key = k

ListedInv ==
    \A k \in Key, l \in lm.leases : Leased(k, l) => lm.listed[l][k] > 0 \/ Changing(k)
AttachedInv ==
    \A c \in Client : call[c].at = "record" /\ call[c].lease \in lm.leases =>
        lm.listed[call[c].lease][call[c].key] > 0

RevokingInv ==
    \A c \in Client, k \in Key :
        /\ call[c].at = "delete keys" /\ Leased(k, call[c].lease) => k \in call[c].keys
        /\ call[c].at = "revoke" => ~Leased(k, call[c].lease)

KeyInv == ObjectsInv /\ GrantedInv /\ SameObject /\ ListedInv /\ AttachedInv /\ RevokingInv

\* Nothing changes of calls and of what objects carry, keys may go, and the lists of leases
\* that stay alive keep their keys: time, deletions, the cleanup goroutines, Grant, KeepAlive.
Background ==
    /\ UNCHANGED <<call, leaseOf, leasedBy, created>>
    /\ \A k \in Key : data'[k] \in {data[k], NoObject}
    /\ KeepsLeases(lm, lm')
    /\ \A k \in Key : KeepsListed(lm, lm', k)

LEMMA BackgroundStep ==
    ASSUME LeaseInv, LeaseInv', [Next]_vars
    PROVE  \/ Background
           \/ \E c \in Client : \/ \E k \in Key : Put(c, k) \/ PutWithTTL(c, k) \/ StartDetach(c, k)
                                \/ \E l \in Granted(lm) : \/ StartRevoke(c, l)
                                                          \/ \E k \in Key : StartAttach(c, l, k)
                                \/ DetachOld(c) \/ AttachNew(c) \/ FailToAttach(c)
                                \/ RecordAttached(c) \/ DetachKey(c) \/ RecordDetached(c)
                                \/ DeleteRevokedKeys(c) \/ FinishRevoke(c)
<1>1. lm \in Manager /\ data \in [Key -> Object \cup {NoObject}]
  BY DEF LeaseInv, TypeOK
<1>2. KeepsLeases(lm, lm) /\ \A k \in Key : KeepsListed(lm, lm, k)
  BY <1>1, SameKeeps
<1>3. CASE UNCHANGED vars
  BY <1>2, <1>3 DEF vars, objects, Background
<1>4. ASSUME NEW k \in Key, Remove(k)
      PROVE  Background
  BY <1>1, <1>2, <1>4 DEF Remove, Background
<1>5. CASE DeleteCollected
  BY <1>1, <1>2, <1>5 DEF DeleteCollected, Background
<1>6. ASSUME NEW l \in LeaseId, LeaseRunsOut(l)
      PROVE  Background
  <2>1. lm'.leases = lm.leases /\ lm'.listed = lm.listed /\ lm'.nextLeaseID = lm.nextLeaseID
    BY <1>1, <1>6 DEF LeaseRunsOut, Manager
  <2> QED
    BY <1>2, <1>6, <2>1 DEF LeaseRunsOut, objects, Background, KeepsLeases, KeepsListed
<1>7. CASE DiscardExpired \/ CollectExpired
  BY <1>1, <1>7, EndLists DEF DiscardExpired, CollectExpired, objects, Background
<1>8. CASE CloseLeases
  BY <1>1, <1>8, CloseLists DEF CloseLeases, objects, Background
<1>9. ASSUME NEW c \in Client, GrantLease(c)
      PROVE  Background
  BY <1>1, <1>9, GrantLists DEF GrantLease, objects, Background
<1>10. ASSUME NEW c \in Client, NEW l \in Granted(lm), KeepAliveLease(c, l)
       PROVE  Background
  <2>1. lm'.leases = lm.leases /\ lm'.listed = lm.listed /\ lm'.nextLeaseID = lm.nextLeaseID
    BY <1>1, <1>10 DEF KeepAliveLease, KeepAlive, Manager
  <2> QED
    BY <1>2, <1>10, <2>1 DEF KeepAliveLease, objects, Background, KeepsLeases, KeepsListed
<1> QED
  BY <1>3, <1>4, <1>5, <1>6, <1>7, <1>8, <1>9, <1>10 DEF Next, ClientStep

LEMMA Numbers ==
    ASSUME LeaseInv
    PROVE  /\ lm \in Manager /\ Consistent(lm)
           /\ lm.nextLeaseID \in Nat
           /\ data \in [Key -> Object \cup {NoObject}]
           /\ leaseOf \in [Object -> LeaseId \cup {NoLease}]
           /\ leasedBy \in [Object -> {"none", "put", "attach"}]
           /\ call \in [Client -> Call]
           /\ created \in Nat
           /\ \A o \in Object : o \in Nat /\ o # NoObject /\ leaseOf[o] \in Nat
           /\ \A l \in lm.leases : l \in Nat /\ l <= lm.nextLeaseID
<1>1. /\ lm \in Manager /\ Consistent(lm)
      /\ data \in [Key -> Object \cup {NoObject}]
      /\ leaseOf \in [Object -> LeaseId \cup {NoLease}]
      /\ leasedBy \in [Object -> {"none", "put", "attach"}]
      /\ call \in [Client -> Call]
      /\ created \in 0..MaxObject
  BY DEF LeaseInv, TypeOK, MappedKeyIsListed
<1>2. created \in Nat
  BY <1>1, LeasedKeysAssumption
<1>3. \A o \in Object : o \in Nat /\ o # NoObject
  BY LeasedKeysAssumption DEF Object, NoObject
<1>4. \A l \in LeaseId \cup {NoLease} : l \in Nat
  BY LeaseAssumption DEF LeaseId, NoLease
<1> QED
  BY <1>1, <1>2, <1>3, <1>4, ManagerNumbers

\* The object that a Put gives the key is no other key's.
LEMMA StoreFacts ==
    ASSUME LeaseInv, ObjectsInv, NEW k \in Key, Store(k)
    PROVE  /\ ObjectFor(k) \in Object
           /\ data' = [data EXCEPT ![k] = ObjectFor(k)]
           /\ data'[k] = ObjectFor(k) /\ Exists(k)'
           /\ \A j \in Key : j # k => data'[j] = data[j] /\ data[j] # ObjectFor(k)
           /\ created <= created' /\ ObjectFor(k) <= created' /\ created' \in Nat
           /\ ~Exists(k) => ObjectFor(k) = created + 1
<1>1. OtherTypes
  BY DEF LeaseInv, TypeOK, OtherTypes
<1>2. ObjectFor(k) \in Object /\ created' \in 0..MaxObject
  BY <1>1, StoreTypes
<1>3. data' = [data EXCEPT ![k] = ObjectFor(k)] /\ data'[k] = ObjectFor(k)
  BY Numbers DEF Store
<1>4. Exists(k)'
  BY <1>2, <1>3, Numbers DEF Exists
<1>5. \A j \in Key : data[j] \in Nat /\ data[j] <= created
  <2>1. \A j \in Key : data[j] \in Object \cup {NoObject}
    BY Numbers
  <2>2. NoObject \in Nat /\ \A o \in Object : o \in Nat
    BY Numbers DEF NoObject
  <2> QED
    BY <2>1, <2>2 DEF ObjectsInv
<1>6. \A j \in Key : j # k => data[j] # ObjectFor(k)
  <2>1. CASE Exists(k)
    <3>1. ObjectFor(k) = data[k]
      BY <2>1 DEF ObjectFor
    <3> QED
      BY <2>1, <3>1 DEF ObjectsInv
  <2>2. CASE ~Exists(k)
    <3>1. ObjectFor(k) = created + 1
      BY <2>2 DEF ObjectFor
    <3> QED
      BY <1>5, <3>1, Numbers
  <2> QED
    BY <2>1, <2>2
<1>7. created <= created' /\ ObjectFor(k) <= created' /\ created' \in Nat
  BY <1>2, <1>5, Numbers, LeasedKeysAssumption DEF Store, ObjectFor
<1>8. ~Exists(k) => ObjectFor(k) = created + 1
  BY DEF ObjectFor
<1>9. \A j \in Key : j # k => data'[j] = data[j]
  BY <1>3, Numbers
<1> QED
  BY <1>2, <1>3, <1>4, <1>6, <1>7, <1>8, <1>9

\* The lists after a Put with a TTL
LEMMA PutLists ==
    ASSUME LeaseInv, NEW c \in Client, NEW k \in Key, PutWithTTL(c, k)
    PROVE  LET id == lm.nextLeaseID + 1
           IN  /\ lm'.nextLeaseID = id /\ id \in LeaseId
               /\ lm'.leases = lm.leases \cup {id} /\ KeepsLeases(lm, lm')
               /\ lm'.listed[id][k] > 0
               /\ \A j \in Key : j # k => KeepsListed(lm, lm', j)
<1> DEFINE id == lm.nextLeaseID + 1
           g == Grant(lm)
<1>1. lm \in Manager /\ Consistent(lm) /\ CanGrant(lm) /\ lm' = Attach(g, id, k)
  BY Numbers DEF PutWithTTL
<1>2. g \in Manager /\ Consistent(g) /\ id \in g.leases /\ id \in LeaseId
  BY <1>1, GrantKeeps
<1>3. /\ g.nextLeaseID = id /\ g.leases = lm.leases \cup {id}
      /\ \A j \in Key : KeepsListed(lm, g, j)
  BY <1>1, GrantLists
<1> HIDE DEF g, id
<1>4. /\ lm'.leases = g.leases /\ lm'.nextLeaseID = g.nextLeaseID
      /\ lm'.listed[id][k] > 0
      /\ \A j \in Key : j # k => KeepsListed(g, lm', j)
  BY <1>1, <1>2, AttachLists
<1>5. \A j \in Key : j # k => KeepsListed(lm, lm', j)
  BY <1>3, <1>4 DEF KeepsListed
<1>6. KeepsLeases(lm, lm')
  BY <1>3, <1>4, Numbers DEF KeepsLeases, id
<1> QED
  BY <1>2, <1>3, <1>4, <1>5, <1>6 DEF id

LEMMA CallIs ==
    ASSUME LeaseInv, NEW c \in Client
    PROVE  /\ call[c].at \in Attaching =>
                /\ call[c] \in [at : Attaching, lease : LeaseId, key : Key, object : Object]
                /\ call[c].lease \in LeaseId /\ call[c].key \in Key /\ call[c].object \in Object
           /\ call[c].at \in Detaching =>
                /\ call[c] \in [at : Detaching, key : Key, object : Object]
                /\ call[c].key \in Key /\ call[c].object \in Object
           /\ call[c].at \in Revoking =>
                /\ call[c] \in [at : Revoking, lease : LeaseId, keys : SUBSET Key]
                /\ call[c].lease \in LeaseId /\ call[c].keys \subseteq Key
<1>1. call[c] \in Call
  BY Numbers
<1>2. PICK r \in Call : r = call[c]
  BY <1>1
<1>3. /\ r.at \in Attaching => r \in [at : Attaching, lease : LeaseId, key : Key, object : Object]
      /\ r.at \in Detaching => r \in [at : Detaching, key : Key, object : Object]
      /\ r.at \in Revoking => r \in [at : Revoking, lease : LeaseId, keys : SUBSET Key]
  BY CallParts DEF Attaching, Detaching, Revoking
<1> QED
  BY <1>2, <1>3

\* The step of a client that goes on in its call
LEMMA CallGoesOn ==
    ASSUME LeaseInv, NEW c \in Client, NEW r, call' = [call EXCEPT ![c] = r]
    PROVE  call'[c] = r /\ \A d \in Client : d # c => call'[d] = call[d]
BY Numbers

LEMMA ObjectsStep ==
    ASSUME LeaseInv, LeaseInv', ObjectsInv, [Next]_vars
    PROVE  ObjectsInv'
<1>1. \A k \in Key : data[k] \in Nat /\ data[k] <= created
  <2>1. \A k \in Key : data[k] \in Object \cup {NoObject}
    BY Numbers
  <2>2. NoObject \in Nat /\ \A o \in Object : o \in Nat
    BY Numbers DEF NoObject
  <2> QED
    BY <2>1, <2>2 DEF ObjectsInv
<1>2. ASSUME \A k \in Key : data'[k] \in {data[k], NoObject}, created' = created,
             \A o \in Object : leasedBy'[o] = leasedBy[o] \/ leasedBy'[o] = "none"
      PROVE  ObjectsInv'
  <2>1. \A k \in Key : data'[k] <= created
    BY <1>1, <1>2, Numbers DEF NoObject
  <2>2. \A j, k \in Key : data'[j] # NoObject /\ data'[j] = data'[k] => j = k
    BY <1>2 DEF ObjectsInv, Exists
  <2>3. \A o \in Object : o > created => leasedBy'[o] = "none"
    BY <1>2 DEF ObjectsInv
  <2> QED
    BY <1>2, <2>1, <2>2, <2>3 DEF ObjectsInv, Exists
<1>3. CASE Background
  BY <1>2, <1>3 DEF Background
<1>4. ASSUME NEW k \in Key, Store(k),
             \A o \in Object : o # ObjectFor(k) => leasedBy'[o] = leasedBy[o],
             leasedBy'[ObjectFor(k)] = "none" \/ ObjectFor(k) <= created'
      PROVE  ObjectsInv'
  <2>1. \A j \in Key : data'[j] <= created'
    <3> SUFFICES ASSUME NEW j \in Key
                 PROVE  data'[j] <= created'
      OBVIOUS
    <3>1. CASE j = k
      BY <1>4, <3>1, StoreFacts
    <3>2. CASE j # k
      <4>1. data'[j] = data[j] /\ created <= created' /\ created' \in Nat
        BY <1>4, <3>2, StoreFacts
      <4> QED
        BY <1>1, <4>1, Numbers
    <3> QED
      BY <3>1, <3>2
  <2>2. \A i, j \in Key : data'[i] # NoObject /\ data'[i] = data'[j] => i = j
    BY <1>4, StoreFacts DEF ObjectsInv, Exists
  <2>3. ASSUME NEW o \in Object, o > created'
        PROVE  leasedBy'[o] = "none"
    <3>1. o # ObjectFor(k) /\ o > created
      BY <1>4, <2>3, StoreFacts, Numbers
    <3> QED
      BY <1>4, <3>1 DEF ObjectsInv
  <2> QED
    BY <2>1, <2>2, <2>3 DEF ObjectsInv, Exists
<1>5. ASSUME NEW c \in Client, NEW k \in Key, Put(c, k)
      PROVE  ObjectsInv'
  BY <1>4, <1>5, StoreFacts DEF Put
<1>6. ASSUME NEW c \in Client, NEW k \in Key, PutWithTTL(c, k)
      PROVE  ObjectsInv'
  <2>1. Store(k) /\ leasedBy' = [leasedBy EXCEPT ![ObjectFor(k)] = "put"]
    BY <1>6 DEF PutWithTTL
  <2>2. \A o \in Object : o # ObjectFor(k) => leasedBy'[o] = leasedBy[o]
    BY <2>1, Numbers
  <2> QED
    BY <1>4, <2>1, <2>2, StoreFacts
<1>7. ASSUME NEW c \in Client, NEW l, NEW by, call[c].key \in Key, RecordLease(c, l, by)
      PROVE  ObjectsInv'
  <2>1. /\ data' = data /\ created' = created
        /\ \A o \in Object : o # data[call[c].key] => leasedBy'[o] = leasedBy[o]
    BY <1>7 DEF RecordLease
  <2>2. ASSUME NEW o \in Object, o > created
        PROVE  leasedBy'[o] = "none"
    <3>1. o # data[call[c].key]
      BY <1>1, <1>7, <2>2, Numbers
    <3> QED
      BY <2>1, <2>2, <3>1 DEF ObjectsInv
  <2> QED
    BY <2>1, <2>2 DEF ObjectsInv, Exists
<1>8. ASSUME NEW c \in Client, RecordAttached(c) \/ RecordDetached(c)
      PROVE  ObjectsInv'
  <2>1. call[c].key \in Key
    BY <1>8, CallIs DEF RecordAttached, RecordDetached, Attaching, Detaching
  <2> QED
    BY <1>7, <1>8, <2>1 DEF RecordAttached, RecordDetached
<1>9. ASSUME NEW c \in Client,
             \/ \E k \in Key : StartDetach(c, k)
             \/ \E l \in Granted(lm) : StartRevoke(c, l) \/ \E k \in Key : StartAttach(c, l, k)
             \/ DetachOld(c) \/ AttachNew(c) \/ DetachKey(c) \/ FinishRevoke(c)
      PROVE  ObjectsInv'
  BY <1>2, <1>9 DEF StartDetach, StartRevoke, StartAttach, DetachOld, AttachNew, DetachKey,
     FinishRevoke, objects
<1>10. ASSUME NEW c \in Client, FailToAttach(c)
       PROVE  ObjectsInv'
  BY <1>2, <1>10, Numbers DEF FailToAttach, objects
<1>11. ASSUME NEW c \in Client, DeleteRevokedKeys(c)
       PROVE  ObjectsInv'
  BY <1>2, <1>11 DEF DeleteRevokedKeys
<1> QED
  BY <1>3, <1>5, <1>6, <1>8, <1>9, <1>10, <1>11, BackgroundStep

LEMMA GrantedStep ==
    ASSUME LeaseInv, LeaseInv', GrantedInv, [Next]_vars
    PROVE  GrantedInv'
<1>1. lm.nextLeaseID \in Nat /\ lm'.nextLeaseID \in Nat /\ \A o \in Object : leaseOf[o] \in Nat
  BY Numbers, ManagerNumbers DEF LeaseInv, TypeOK
<1>2. \A c \in Client : call[c].at \in Attaching \cup Revoking => call[c].lease \in Nat
  <2> SUFFICES ASSUME NEW c \in Client, call[c].at \in Attaching \cup Revoking
               PROVE  call[c].lease \in LeaseId
    BY LeaseAssumption DEF LeaseId
  <2> QED
    BY CallIs
<1>3. ASSUME lm.nextLeaseID <= lm'.nextLeaseID,
             \A o \in Object : leaseOf'[o] = leaseOf[o] \/ leaseOf'[o] <= lm'.nextLeaseID,
             \A c \in Client : call'[c].at \in Attaching \cup Revoking =>
                \/ call[c].at \in Attaching \cup Revoking /\ call'[c].lease = call[c].lease
                \/ call'[c].lease <= lm'.nextLeaseID
      PROVE  GrantedInv'
  <2>1. \A o \in Object : leaseOf'[o] <= lm'.nextLeaseID
    BY <1>1, <1>3 DEF GrantedInv
  <2>2. \A c \in Client : call'[c].at \in Attaching \cup Revoking =>
            call'[c].lease <= lm'.nextLeaseID
    BY <1>1, <1>2, <1>3 DEF GrantedInv
  <2> QED
    BY <2>1, <2>2 DEF GrantedInv
<1>4. CASE Background
  BY <1>3, <1>4 DEF Background, KeepsLeases
<1>5. ASSUME NEW c \in Client, NEW k \in Key, Put(c, k)
      PROVE  GrantedInv'
  BY <1>1, <1>3, <1>5 DEF Put
<1>6. ASSUME NEW c \in Client, NEW k \in Key, PutWithTTL(c, k)
      PROVE  GrantedInv'
  <2>1. lm'.nextLeaseID = lm.nextLeaseID + 1
    BY <1>6, PutLists
  <2>2. leaseOf' = [leaseOf EXCEPT ![ObjectFor(k)] = lm.nextLeaseID + 1] /\ call' = call
    BY <1>6 DEF PutWithTTL
  <2>3. \A o \in Object : leaseOf'[o] = leaseOf[o] \/ leaseOf'[o] = lm.nextLeaseID + 1
    BY <2>2, Numbers
  <2> QED
    BY <1>1, <1>3, <2>1, <2>2, <2>3
\* Another call is none of the ones that name a lease, or names the same
<1>7. ASSUME NEW c \in Client, lm.nextLeaseID <= lm'.nextLeaseID, leaseOf' = leaseOf,
             NEW r, call' = [call EXCEPT ![c] = r],
             r.at \in Attaching \cup Revoking =>
                \/ call[c].at \in Attaching \cup Revoking /\ r.lease = call[c].lease
                \/ r.lease <= lm'.nextLeaseID
      PROVE  GrantedInv'
  <2>1. \A d \in Client : call'[d] = IF d = c THEN r ELSE call[d]
    BY <1>7, CallGoesOn
  <2> QED
    BY <1>3, <1>7, <2>1
<1>8. \A l \in Granted(lm) : l \in Nat /\ l <= lm.nextLeaseID
  BY <1>1 DEF Granted
<1>9. Idle.at \notin Attaching \cup Revoking
  BY DEF Idle, Attaching, Revoking
<1>10. ASSUME NEW c \in Client, NEW k \in Key, StartDetach(c, k)
       PROVE  GrantedInv'
  <2>1. PICK r : r = [at |-> "detach", key |-> k, object |-> data[k]]
    OBVIOUS
  <2>2. call' = [call EXCEPT ![c] = r] /\ lm' = lm /\ leaseOf' = leaseOf
    BY <1>10, <2>1 DEF StartDetach, objects
  <2>3. r.at \notin Attaching \cup Revoking
    BY <2>1 DEF Attaching, Revoking
  <2>4. lm.nextLeaseID <= lm'.nextLeaseID
    BY <1>1, <2>2
  <2> QED
    BY <1>7, <2>2, <2>3, <2>4
<1>11. ASSUME NEW c \in Client, NEW l \in Granted(lm), StartRevoke(c, l)
       PROVE  GrantedInv'
  <2>1. PICK r : r = [at |-> "delete keys", lease |-> l, keys |-> Keys(lm, {l})]
    OBVIOUS
  <2>2. call' = [call EXCEPT ![c] = r] /\ lm' = lm /\ leaseOf' = leaseOf
    BY <1>11, <2>1 DEF StartRevoke, objects
  <2>3. r.lease = l
    BY <2>1
  <2>4. l <= lm'.nextLeaseID /\ lm.nextLeaseID <= lm'.nextLeaseID
    BY <1>1, <1>8, <2>2
  <2> QED
    BY <1>7, <2>2, <2>3, <2>4
<1>12. ASSUME NEW c \in Client, NEW l \in Granted(lm), NEW k \in Key, StartAttach(c, l, k)
       PROVE  GrantedInv'
  <2>1. PICK r : r = [at |-> "detach old", lease |-> l, key |-> k, object |-> data[k]]
    OBVIOUS
  <2>2. call' = [call EXCEPT ![c] = r] /\ lm' = lm /\ leaseOf' = leaseOf
    BY <1>12, <2>1 DEF StartAttach, objects
  <2>3. r.lease = l
    BY <2>1
  <2>4. l <= lm'.nextLeaseID /\ lm.nextLeaseID <= lm'.nextLeaseID
    BY <1>1, <1>8, <2>2
  <2> QED
    BY <1>7, <2>2, <2>3, <2>4
<1>13. ASSUME NEW c \in Client, NEW k \in Key, CanDetach(lm, k)
       PROVE  Detach(lm, k).nextLeaseID = lm.nextLeaseID
  <2>1. lm.keyToLease[k] \in LeaseId \cup {NoLease} /\ lm \in Manager
    BY Numbers DEF Manager
  <2> QED
    BY <2>1, DetachLists DEF Detach
<1>14. ASSUME NEW c \in Client, DetachOld(c)
       PROVE  GrantedInv'
  <2>1. call[c].key \in Key
    BY <1>14, CallIs DEF DetachOld, Attaching
  <2>2. lm'.nextLeaseID = lm.nextLeaseID
    BY <1>13, <1>14, <2>1 DEF DetachOld
  <2>3. PICK r : /\ r = [call[c] EXCEPT !.at = "attach new"]
                 /\ call' = [call EXCEPT ![c] = r] /\ leaseOf' = leaseOf
    BY <1>14 DEF DetachOld, objects
  <2>4. call[c] \in [at : Attaching, lease : LeaseId, key : Key, object : Object]
    BY <1>14, CallIs DEF DetachOld, Attaching
  <2>5. call[c].at \in Attaching /\ r.lease = call[c].lease
    BY <1>14, <2>3, <2>4 DEF DetachOld, Attaching
  <2>6. lm.nextLeaseID <= lm'.nextLeaseID
    BY <1>1, <2>2
  <2> QED
    BY <1>7, <2>3, <2>5, <2>6
<1>15. ASSUME NEW c \in Client, AttachNew(c)
       PROVE  GrantedInv'
  <2>1. call[c] \in [at : Attaching, lease : LeaseId, key : Key, object : Object]
    BY <1>15, CallIs DEF AttachNew, Attaching
  <2>2. call[c].lease \in lm.leases /\ lm' = Attach(lm, call[c].lease, call[c].key)
    BY <1>15 DEF AttachNew, Found
  <2>3. lm'.nextLeaseID = lm.nextLeaseID
    BY <2>1, <2>2, AttachLists, Numbers
  <2>4. PICK r : /\ r = [call[c] EXCEPT !.at = "record"]
                 /\ call' = [call EXCEPT ![c] = r] /\ leaseOf' = leaseOf
    BY <1>15 DEF AttachNew, objects
  <2>5. call[c].at \in Attaching /\ r.lease = call[c].lease
    BY <1>15, <2>1, <2>4 DEF AttachNew, Attaching
  <2>6. lm.nextLeaseID <= lm'.nextLeaseID
    BY <1>1, <2>3
  <2> QED
    BY <1>7, <2>4, <2>5, <2>6
<1>16. ASSUME NEW c \in Client, FailToAttach(c)
       PROVE  GrantedInv'
  <2>1. call' = [call EXCEPT ![c] = Idle] /\ lm' = lm /\ leaseOf' = leaseOf
    BY <1>16 DEF FailToAttach, objects
  <2>2. lm.nextLeaseID <= lm'.nextLeaseID
    BY <1>1, <2>1
  <2> QED
    BY <1>7, <1>9, <2>1, <2>2
<1>17. ASSUME NEW c \in Client, NEW l \in Nat, l <= lm.nextLeaseID, NEW by, RecordLease(c, l, by)
       PROVE  GrantedInv'
  <2>1. \A o \in Object : leaseOf'[o] = leaseOf[o] \/ leaseOf'[o] = l
    BY <1>17 DEF RecordLease
  <2>2. lm' = lm /\ call' = [call EXCEPT ![c] = Idle]
    BY <1>17 DEF RecordLease
  <2>3. \A d \in Client : call'[d] = IF d = c THEN Idle ELSE call[d]
    BY <2>2, Numbers
  <2> QED
    BY <1>1, <1>3, <1>9, <1>17, <2>1, <2>2, <2>3
<1>18. ASSUME NEW c \in Client, RecordAttached(c)
       PROVE  GrantedInv'
  <2>1. call[c].at \in Attaching
    BY <1>18 DEF RecordAttached, Attaching
  <2>2. call[c].lease \in Nat /\ call[c].lease <= lm.nextLeaseID
    BY <1>2, <2>1 DEF GrantedInv
  <2> QED
    BY <1>17, <1>18, <2>2 DEF RecordAttached
<1>19. ASSUME NEW c \in Client, RecordDetached(c)
       PROVE  GrantedInv'
  <2>1. NoLease \in Nat /\ NoLease <= lm.nextLeaseID
    BY <1>1 DEF NoLease
  <2> QED
    BY <1>17, <1>19, <2>1 DEF RecordDetached
<1>20. ASSUME NEW c \in Client, DetachKey(c)
       PROVE  GrantedInv'
  <2>1. call[c].key \in Key /\ call[c] \in [at : Detaching, key : Key, object : Object]
    BY <1>20, CallIs DEF DetachKey, Detaching
  <2>2. lm'.nextLeaseID = lm.nextLeaseID
    BY <1>13, <1>20, <2>1 DEF DetachKey
  <2>3. PICK r \in {[call[c] EXCEPT !.at = "clear"], Idle} : call' = [call EXCEPT ![c] = r]
    BY <1>20 DEF DetachKey
  <2>4. r.at \notin Attaching \cup Revoking
    BY <1>9, <2>1, <2>3 DEF Attaching, Detaching, Revoking
  <2>5. lm.nextLeaseID <= lm'.nextLeaseID /\ leaseOf' = leaseOf
    BY <1>1, <1>20, <2>2 DEF DetachKey, objects
  <2> QED
    BY <1>7, <2>3, <2>4, <2>5
<1>21. ASSUME NEW c \in Client, DeleteRevokedKeys(c)
       PROVE  GrantedInv'
  <2>1. call[c] \in [at : Revoking, lease : LeaseId, keys : SUBSET Key]
    BY <1>21, CallIs DEF DeleteRevokedKeys, Revoking
  <2>2. PICK r : /\ r = [call[c] EXCEPT !.at = "revoke"]
                 /\ call' = [call EXCEPT ![c] = r] /\ leaseOf' = leaseOf /\ lm' = lm
    BY <1>21 DEF DeleteRevokedKeys
  <2>3. call[c].at \in Revoking /\ r.lease = call[c].lease
    BY <1>21, <2>1, <2>2 DEF DeleteRevokedKeys, Revoking
  <2>4. lm.nextLeaseID <= lm'.nextLeaseID
    BY <1>1, <2>2
  <2> QED
    BY <1>7, <2>2, <2>3, <2>4
<1>22. ASSUME NEW c \in Client, FinishRevoke(c)
       PROVE  GrantedInv'
  <2>1. lm.nextLeaseID <= lm'.nextLeaseID
    BY <1>22, EndLists, Numbers DEF FinishRevoke, KeepsLeases
  <2> QED
    BY <1>7, <1>9, <1>22, <2>1 DEF FinishRevoke, objects
<1> QED
  BY <1>4, <1>5, <1>6, <1>10, <1>11, <1>12, <1>14, <1>15, <1>16, <1>18, <1>19, <1>20, <1>21, <1>22,
     BackgroundStep

\* The step of the single client
LEMMA OnlyCall ==
    ASSUME LeaseInv, SingleClient, NEW c \in Client
    PROVE  /\ call[c] = Idle => \A d \in Client : call[d].at = "idle"
           /\ \A d \in Client : d = c
BY DEF SingleClient, Idle

LEMMA CallBecomes ==
    ASSUME LeaseInv, SingleClient, NEW c \in Client, NEW r, call' = [call EXCEPT ![c] = r],
           NEW d \in Client
    PROVE  d = c /\ call'[d] = r
BY CallGoesOn DEF SingleClient

LEMMA IdleIs == "idle" \notin Attaching \cup Detaching \cup Revoking
BY DEF Attaching, Detaching, Revoking

\* Detaching and attaching say the same lease, key and object until the end.
LEMMA CallContinues ==
    ASSUME LeaseInv, SingleClient, NEW c \in Client
    PROVE  /\ DetachOld(c) => \A d \in Client :
                /\ d = c /\ call'[d].at = "attach new" /\ call'[d].lease = call[c].lease
                /\ call'[d].key = call[c].key /\ call'[d].object = call[c].object
           /\ AttachNew(c) => \A d \in Client :
                /\ d = c /\ call'[d].at = "record" /\ call'[d].lease = call[c].lease
                /\ call'[d].key = call[c].key /\ call'[d].object = call[c].object
           /\ DetachKey(c) => \A d \in Client :
                /\ d = c
                /\ \/ call'[d].at = "idle"
                   \/ /\ call'[d].at = "clear"
                      /\ call'[d].key = call[c].key /\ call'[d].object = call[c].object
           /\ DeleteRevokedKeys(c) => \A d \in Client :
                /\ d = c /\ call'[d].at = "revoke" /\ call'[d].lease = call[c].lease
<1>1. ASSUME DetachOld(c)
      PROVE  \A d \in Client :
                /\ d = c /\ call'[d].at = "attach new" /\ call'[d].lease = call[c].lease
                /\ call'[d].key = call[c].key /\ call'[d].object = call[c].object
  <2>1. PICK r : r = [call[c] EXCEPT !.at = "attach new"] /\ call' = [call EXCEPT ![c] = r]
    BY <1>1 DEF DetachOld
  <2>2. call[c] \in [at : Attaching, lease : LeaseId, key : Key, object : Object]
    BY <1>1, CallIs DEF DetachOld, Attaching
  <2>3. /\ r.at = "attach new" /\ r.lease = call[c].lease
        /\ r.key = call[c].key /\ r.object = call[c].object
    BY <2>1, <2>2
  <2>4. \A d \in Client : d = c /\ call'[d] = r
    BY <2>1, CallBecomes
  <2> QED
    BY <2>3, <2>4
<1>2. ASSUME AttachNew(c)
      PROVE  \A d \in Client :
                /\ d = c /\ call'[d].at = "record" /\ call'[d].lease = call[c].lease
                /\ call'[d].key = call[c].key /\ call'[d].object = call[c].object
  <2>1. PICK r : r = [call[c] EXCEPT !.at = "record"] /\ call' = [call EXCEPT ![c] = r]
    BY <1>2 DEF AttachNew
  <2>2. call[c] \in [at : Attaching, lease : LeaseId, key : Key, object : Object]
    BY <1>2, CallIs DEF AttachNew, Attaching
  <2>3. /\ r.at = "record" /\ r.lease = call[c].lease
        /\ r.key = call[c].key /\ r.object = call[c].object
    BY <2>1, <2>2
  <2>4. \A d \in Client : d = c /\ call'[d] = r
    BY <2>1, CallBecomes
  <2> QED
    BY <2>3, <2>4
<1>3. ASSUME DetachKey(c)
      PROVE  \A d \in Client :
                /\ d = c
                /\ \/ call'[d].at = "idle"
                   \/ /\ call'[d].at = "clear"
                      /\ call'[d].key = call[c].key /\ call'[d].object = call[c].object
  <2>1. PICK r \in {[call[c] EXCEPT !.at = "clear"], Idle} : call' = [call EXCEPT ![c] = r]
    BY <1>3 DEF DetachKey
  <2>2. call[c] \in [at : Detaching, key : Key, object : Object]
    BY <1>3, CallIs DEF DetachKey, Detaching
  <2>3. \/ r.at = "idle"
        \/ r.at = "clear" /\ r.key = call[c].key /\ r.object = call[c].object
    BY <2>1, <2>2 DEF Idle
  <2>4. \A d \in Client : d = c /\ call'[d] = r
    BY <2>1, CallBecomes
  <2> QED
    BY <2>3, <2>4
<1>4. ASSUME DeleteRevokedKeys(c)
      PROVE  \A d \in Client :
                /\ d = c /\ call'[d].at = "revoke" /\ call'[d].lease = call[c].lease
  <2>1. PICK r : r = [call[c] EXCEPT !.at = "revoke"] /\ call' = [call EXCEPT ![c] = r]
    BY <1>4 DEF DeleteRevokedKeys
  <2>2. call[c] \in [at : Revoking, lease : LeaseId, keys : SUBSET Key]
    BY <1>4, CallIs DEF DeleteRevokedKeys, Revoking
  <2>3. r.at = "revoke" /\ r.lease = call[c].lease
    BY <2>1, <2>2
  <2>4. \A d \in Client : d = c /\ call'[d] = r
    BY <2>1, CallBecomes
  <2> QED
    BY <2>3, <2>4
<1> QED
  BY <1>1, <1>2, <1>3, <1>4

LEMMA CallStarts ==
    ASSUME LeaseInv, SingleClient, NEW c \in Client
    PROVE  /\ \A k \in Key : StartDetach(c, k) => \A d \in Client :
                call'[d].at = "detach" /\ call'[d].key = k /\ call'[d].object = data[k]
           /\ \A l \in Granted(lm), k \in Key : StartAttach(c, l, k) => \A d \in Client :
                call'[d].at = "detach old" /\ call'[d].key = k /\ call'[d].object = data[k]
           /\ \A l \in Granted(lm) : StartRevoke(c, l) => \A d \in Client :
                call'[d].at = "delete keys" /\ call'[d].lease = l /\ call'[d].keys = Keys(lm, {l})
<1>1. ASSUME NEW k \in Key, StartDetach(c, k), NEW d \in Client
      PROVE  call'[d].at = "detach" /\ call'[d].key = k /\ call'[d].object = data[k]
  <2>1. PICK r, o : o = data[k] /\ r = [at |-> "detach", key |-> k, object |-> o]
    OBVIOUS
  <2>2. r.at = "detach" /\ r.key = k /\ r.object = o
    BY <2>1
  <2>3. call' = [call EXCEPT ![c] = r]
    BY <1>1, <2>1 DEF StartDetach
  <2>4. call'[d] = r
    BY <2>3, CallBecomes
  <2> QED
    BY <2>1, <2>2, <2>4
<1>2. ASSUME NEW l \in Granted(lm), NEW k \in Key, StartAttach(c, l, k), NEW d \in Client
      PROVE  call'[d].at = "detach old" /\ call'[d].key = k /\ call'[d].object = data[k]
  <2>1. PICK r, o : o = data[k] /\ r = [at |-> "detach old", lease |-> l, key |-> k, object |-> o]
    OBVIOUS
  <2>2. r.at = "detach old" /\ r.key = k /\ r.object = o
    BY <2>1
  <2>3. call' = [call EXCEPT ![c] = r]
    BY <1>2, <2>1 DEF StartAttach
  <2>4. call'[d] = r
    BY <2>3, CallBecomes
  <2> QED
    BY <2>1, <2>2, <2>4
<1>3. ASSUME NEW l \in Granted(lm), StartRevoke(c, l), NEW d \in Client
      PROVE  call'[d].at = "delete keys" /\ call'[d].lease = l /\ call'[d].keys = Keys(lm, {l})
  <2>1. PICK r, keys : keys = Keys(lm, {l}) /\ r = [at |-> "delete keys", lease |-> l, keys |-> keys]
    OBVIOUS
  <2>2. r.at = "delete keys" /\ r.lease = l /\ r.keys = keys
    BY <2>1
  <2>3. call' = [call EXCEPT ![c] = r]
    BY <1>3, <2>1 DEF StartRevoke
  <2>4. call'[d] = r
    BY <2>3, CallBecomes
  <2> QED
    BY <2>1, <2>2, <2>4
<1> QED
  BY <1>1, <1>2, <1>3

\* Operations that are over, or of one step
LEMMA CallEnds ==
    ASSUME LeaseInv, SingleClient, NEW c \in Client,
           \/ \E k \in Key : Put(c, k) \/ PutWithTTL(c, k)
           \/ FailToAttach(c) \/ RecordAttached(c) \/ RecordDetached(c) \/ FinishRevoke(c)
    PROVE  \A d \in Client : call'[d].at = "idle"
<1>1. ASSUME call[c] = Idle, call' = call
      PROVE  \A d \in Client : call'[d].at = "idle"
  BY <1>1, OnlyCall
<1>2. ASSUME call' = [call EXCEPT ![c] = Idle]
      PROVE  \A d \in Client : call'[d].at = "idle"
  <2>1. \A d \in Client : call'[d] = Idle
    BY <1>2, CallBecomes
  <2> QED
    BY <2>1 DEF Idle
<1> QED
  BY <1>1, <1>2 DEF Put, PutWithTTL, FailToAttach, RecordAttached, RecordDetached, RecordLease,
     FinishRevoke

LEMMA SameObjectStep ==
    ASSUME LeaseInv, LeaseInv', SingleClient, SameObject, [Next]_vars
    PROVE  SameObject'
<1>1. CASE Background
  <2>1. ASSUME NEW c \in Client, call[c].at \in Attaching \cup Detaching
        PROVE  data'[call[c].key] \in {NoObject, call[c].object}
    <3>1. call[c].key \in Key
      BY <2>1, CallIs
    <3> QED
      BY <1>1, <2>1, <3>1 DEF Background, SameObject
  <2> QED
    BY <1>1, <2>1 DEF Background, SameObject
<1>2. ASSUME \A d \in Client : call'[d].at \notin Attaching \cup Detaching
      PROVE  SameObject'
  BY <1>2 DEF SameObject
<1>3. ASSUME NEW c \in Client,
             \/ \E k \in Key : Put(c, k) \/ PutWithTTL(c, k)
             \/ FailToAttach(c) \/ RecordAttached(c) \/ RecordDetached(c) \/ FinishRevoke(c)
      PROVE  SameObject'
  BY <1>2, <1>3, CallEnds, IdleIs
<1>4. ASSUME NEW c \in Client, NEW k \in Key,
             StartDetach(c, k) \/ \E l \in Granted(lm) : StartAttach(c, l, k)
      PROVE  SameObject'
  <2>1. data' = data
    BY <1>4 DEF StartDetach, StartAttach, objects
  <2>2. ASSUME StartDetach(c, k)
        PROVE  \A d \in Client : call'[d].key = k /\ call'[d].object = data[k]
    BY <2>2, CallStarts
  <2>3. ASSUME NEW l \in Granted(lm), StartAttach(c, l, k)
        PROVE  \A d \in Client : call'[d].key = k /\ call'[d].object = data[k]
    BY <2>3, CallStarts
  <2> QED
    BY <1>4, <2>1, <2>2, <2>3 DEF SameObject
<1>5. ASSUME NEW c \in Client,
             (\E l \in Granted(lm) : StartRevoke(c, l)) \/ DeleteRevokedKeys(c)
      PROVE  SameObject'
  <2>1. ASSUME NEW l \in Granted(lm), StartRevoke(c, l)
        PROVE  \A d \in Client : call'[d].at \in Revoking
    <3>1. \A d \in Client : call'[d].at = "delete keys"
      BY <2>1, CallStarts
    <3> QED
      BY <3>1 DEF Revoking
  <2>2. ASSUME DeleteRevokedKeys(c)
        PROVE  \A d \in Client : call'[d].at \in Revoking
    <3>1. \A d \in Client : call'[d].at = "revoke"
      BY <2>2, CallContinues
    <3> QED
      BY <3>1 DEF Revoking
  <2>3. \A d \in Client : call'[d].at \in Revoking
    BY <1>5, <2>1, <2>2
  <2> QED
    BY <1>2, <2>3 DEF Attaching, Detaching, Revoking
<1>6. ASSUME NEW c \in Client, DetachOld(c) \/ AttachNew(c) \/ DetachKey(c)
      PROVE  SameObject'
  <2>1. data' = data /\ call[c].at \in Attaching \cup Detaching
    BY <1>6 DEF DetachOld, AttachNew, DetachKey, objects, Attaching, Detaching
  <2>2. data[call[c].key] \in {NoObject, call[c].object}
    BY <2>1 DEF SameObject
  <2>3. \A d \in Client : \/ call'[d].at = "idle"
                          \/ call'[d].key = call[c].key /\ call'[d].object = call[c].object
    BY <1>6, CallContinues
  <2> QED
    BY <2>1, <2>2, <2>3, IdleIs DEF SameObject
<1> QED
  BY <1>1, <1>3, <1>4, <1>5, <1>6, BackgroundStep

LEMMA NotChanging ==
    ASSUME SingleClient, NEW c \in Client, NEW k,
           call[c].at \notin {"attach new", "record", "clear"} \/ call[c].key # k
    PROVE  ~Changing(k)
BY DEF SingleClient, Changing

\* What becomes of a key that keeps its object, or goes
LEMMA StaysListed ==
    ASSUME LeaseInv, GrantedInv, ListedInv, NEW k \in Key,
           \A l : Leased(k, l)' => Leased(k, l),
           KeepsLeases(lm, lm'), KeepsListed(lm, lm', k), Changing(k) => Changing(k)'
    PROVE  \A l \in lm'.leases : Leased(k, l)' => lm'.listed[l][k] > 0 \/ Changing(k)'
<1> SUFFICES ASSUME NEW l \in lm'.leases, Leased(k, l)'
             PROVE  lm'.listed[l][k] > 0 \/ Changing(k)'
  OBVIOUS
<1>1. Leased(k, l)
  OBVIOUS
<1>2. data[k] \in Object /\ leaseOf[data[k]] = l
  BY <1>1, Numbers DEF Leased, Exists, LeaseOf
<1>3. l \in Nat /\ l <= lm.nextLeaseID
  BY <1>2, Numbers DEF GrantedInv
<1>4. l \in lm.leases
  BY <1>3, Numbers DEF KeepsLeases
<1> QED
  BY <1>1, <1>4 DEF ListedInv, KeepsListed

LEMMA SameLeased ==
    ASSUME NEW k \in Key, data'[k] \in {data[k], NoObject},
           Exists(k) => leaseOf'[data[k]] = leaseOf[data[k]],
           Exists(k) => leasedBy'[data[k]] \in {leasedBy[data[k]], "none"}
    PROVE  \A l : Leased(k, l)' => Leased(k, l)
BY DEF Leased, Exists, LeaseOf

LEMMA RecordedLease ==
    ASSUME LeaseInv, ObjectsInv, NEW c \in Client, NEW l, NEW by, RecordLease(c, l, by),
           call[c].key \in Key
    PROVE  /\ lm' = lm /\ data' = data
           /\ Exists(call[c].key) => /\ leaseOf'[data[call[c].key]] = l
                                     /\ leasedBy'[data[call[c].key]] = by
           /\ \A j \in Key : j # call[c].key /\ Exists(j) =>
                 /\ leaseOf'[data[j]] = leaseOf[data[j]]
                 /\ leasedBy'[data[j]] = leasedBy[data[j]]
<1>1. \A j \in Key : Exists(j) => data[j] \in Object
  BY Numbers DEF Exists
<1>2. \A j \in Key : j # call[c].key /\ Exists(j) => data[j] # data[call[c].key]
  BY DEF ObjectsInv
<1> QED
  BY <1>1, <1>2 DEF RecordLease

\* The lists while a call detaches the key of its own
LEMMA DetachedLists ==
    ASSUME LeaseInv, NEW c \in Client, DetachOld(c) \/ DetachKey(c)
    PROVE  /\ KeepsLeases(lm, lm')
           /\ \A j \in Key : j # call[c].key => KeepsListed(lm, lm', j)
           /\ call[c].key \in Key
<1>1. call[c].key \in Key
  BY CallIs DEF DetachOld, DetachKey, Attaching, Detaching
<1>2. KeepsLeases(lm, lm) /\ \A j \in Key : KeepsListed(lm, lm, j)
  BY SameKeeps, Numbers
<1>3. CASE lm' = lm
  BY <1>1, <1>2, <1>3
<1>4. CASE lm' = Detach(lm, call[c].key)
  <2>1. lm.keyToLease[call[c].key] \in LeaseId \cup {NoLease} /\ lm \in Manager
    BY <1>1, Numbers DEF Manager
  <2>2. /\ KeepsLeases(lm, lm') /\ lm'.leases = lm.leases
        /\ \A i \in LeaseId, j \in Key : j # call[c].key => lm'.listed[i][j] = lm.listed[i][j]
    BY <1>1, <1>4, <2>1, DetachLists DEF Detach
  <2>3. lm.leases \subseteq LeaseId
    BY ManagerNumbers, Numbers
  <2> QED
    BY <1>1, <2>2, <2>3 DEF KeepsListed
<1> QED
  BY <1>3, <1>4 DEF DetachOld, DetachKey

LEMMA AttachedLists ==
    ASSUME LeaseInv, NEW c \in Client, AttachNew(c)
    PROVE  /\ KeepsLeases(lm, lm')
           /\ \A j \in Key : j # call[c].key => KeepsListed(lm, lm', j)
           /\ call[c].key \in Key
           /\ lm'.listed[call[c].lease][call[c].key] > 0
<1>1. call[c].key \in Key
  BY CallIs DEF AttachNew, Attaching
<1>2. call[c].lease \in lm.leases /\ lm' = Attach(lm, call[c].lease, call[c].key)
  BY DEF AttachNew, Found
<1> QED
  BY <1>1, <1>2, Numbers, AttachLists

LEMMA ListedStep ==
    ASSUME LeaseInv, LeaseInv', SingleClient, [Next]_vars,
           ObjectsInv, GrantedInv, SameObject, ListedInv, AttachedInv
    PROVE  ListedInv'
<1> DEFINE Listed(k) == \A l \in lm'.leases : Leased(k, l)' => lm'.listed[l][k] > 0 \/ Changing(k)'
<1>1. (\A k \in Key : Listed(k)) => ListedInv'
  BY DEF ListedInv
<1>2. KeepsLeases(lm, lm) /\ \A k \in Key : KeepsListed(lm, lm, k)
  BY SameKeeps, Numbers
<1>3. \A k \in Key : Exists(k) => data[k] \in Object
  BY Numbers DEF Exists
<1> HIDE DEF Listed
\* Keys that stay as they are
<1>4. ASSUME NEW k \in Key, data'[k] \in {data[k], NoObject},
             Exists(k) => leaseOf'[data[k]] = leaseOf[data[k]],
             Exists(k) => leasedBy'[data[k]] \in {leasedBy[data[k]], "none"},
             KeepsLeases(lm, lm'), KeepsListed(lm, lm', k), Changing(k) => Changing(k)'
      PROVE  Listed(k)
  <2>1. \A l : Leased(k, l)' => Leased(k, l)
    BY <1>4, SameLeased
  <2> QED
    BY <1>4, <2>1, StaysListed DEF Listed
<1>5. CASE Background
  <2>1. \A k \in Key : Changing(k) => Changing(k)'
    BY <1>5 DEF Background, Changing
  <2> QED
    BY <1>1, <1>4, <1>5, <2>1 DEF Background
<1>6. ASSUME NEW c \in Client, NEW k \in Key, Put(c, k)
      PROVE  ListedInv'
  <2>1. ~Exists(k) /\ Store(k) /\ UNCHANGED <<lm, leaseOf, call, leasedBy>>
    BY <1>6 DEF Put
  <2>2. Listed(k)
    <3>1. data'[k] = created + 1 /\ created + 1 \in Object
      BY <2>1, StoreFacts
    <3>2. leasedBy'[data'[k]] = "none"
      BY <2>1, <3>1, Numbers DEF ObjectsInv
    <3> QED
      BY <3>2 DEF Listed, Leased
  <2>3. ASSUME NEW j \in Key, j # k
        PROVE  Listed(j)
    <3>1. data'[j] = data[j]
      BY <2>1, <2>3, StoreFacts
    <3>2. Changing(j) => Changing(j)'
      BY <2>1 DEF Changing
    <3> QED
      BY <1>2, <1>4, <2>1, <3>1, <3>2
  <2> QED
    BY <1>1, <2>2, <2>3
<1>7. ASSUME NEW c \in Client, NEW k \in Key, PutWithTTL(c, k)
      PROVE  ListedInv'
  <2>1. /\ Store(k) /\ call' = call
        /\ leaseOf' = [leaseOf EXCEPT ![ObjectFor(k)] = lm.nextLeaseID + 1]
        /\ leasedBy' = [leasedBy EXCEPT ![ObjectFor(k)] = "put"]
    BY <1>7 DEF PutWithTTL
  <2>2. Listed(k)
    <3>1. data'[k] = ObjectFor(k) /\ ObjectFor(k) \in Object
      BY <2>1, StoreFacts
    <3>2. leaseOf'[data'[k]] = lm.nextLeaseID + 1
      BY <2>1, <3>1, Numbers
    <3>3. lm'.listed[lm.nextLeaseID + 1][k] > 0
      BY <1>7, PutLists
    <3> QED
      BY <3>2, <3>3 DEF Listed, Leased, LeaseOf
  <2>3. ASSUME NEW j \in Key, j # k
        PROVE  Listed(j)
    <3>1. data'[j] = data[j] /\ data[j] # ObjectFor(k)
      BY <2>1, <2>3, StoreFacts
    <3>2. Exists(j) => /\ leaseOf'[data[j]] = leaseOf[data[j]]
                       /\ leasedBy'[data[j]] = leasedBy[data[j]]
      BY <1>3, <2>1, <3>1, Numbers
    <3>3. KeepsLeases(lm, lm') /\ KeepsListed(lm, lm', j)
      BY <1>7, <2>3, PutLists
    <3>4. Changing(j) => Changing(j)'
      BY <2>1 DEF Changing
    <3> QED
      BY <1>4, <3>1, <3>2, <3>3, <3>4
  <2> QED
    BY <1>1, <2>2, <2>3
<1>8. ASSUME NEW c \in Client,
             call[c].at \notin {"attach new", "record", "clear"},
             UNCHANGED <<leaseOf, leasedBy>>, \A k \in Key : data'[k] \in {data[k], NoObject},
             KeepsLeases(lm, lm'), \A k \in Key : KeepsListed(lm, lm', k)
      PROVE  ListedInv'
  <2>1. \A k \in Key : ~Changing(k)
    BY <1>8, NotChanging
  <2> QED
    BY <1>1, <1>4, <1>8, <2>1
<1>9. ASSUME NEW c \in Client,
             \/ \E k \in Key : StartDetach(c, k)
             \/ \E l \in Granted(lm) : StartRevoke(c, l) \/ \E k \in Key : StartAttach(c, l, k)
             \/ DeleteRevokedKeys(c) \/ FinishRevoke(c)
      PROVE  ListedInv'
  <2>1. call[c].at \notin {"attach new", "record", "clear"}
    <3>1. call[c] = Idle => call[c].at = "idle"
      BY DEF Idle
    <3>2. call[c] = Idle \/ call[c].at \in {"delete keys", "revoke"}
      BY <1>9 DEF StartDetach, StartRevoke, StartAttach, DeleteRevokedKeys, FinishRevoke
    <3> QED
      BY <3>1, <3>2
  <2>2. UNCHANGED <<leaseOf, leasedBy>> /\ \A k \in Key : data'[k] \in {data[k], NoObject}
    BY <1>9 DEF StartDetach, StartRevoke, StartAttach, DeleteRevokedKeys, FinishRevoke, objects
  <2>3. KeepsLeases(lm, lm') /\ \A k \in Key : KeepsListed(lm, lm', k)
    <3>1. CASE lm' = lm
      BY <1>2, <3>1
    <3>2. CASE FinishRevoke(c)
      BY <3>2, EndLists, Numbers DEF FinishRevoke
    <3> QED
      BY <1>9, <3>1, <3>2 DEF StartDetach, StartRevoke, StartAttach, DeleteRevokedKeys
  <2> QED
    BY <1>8, <2>1, <2>2, <2>3
\* The key that the call is about is exempt; the others keep their lists
<1>10. ASSUME NEW c \in Client, DetachOld(c) \/ AttachNew(c)
       PROVE  ListedInv'
  <2>1. PICK k \in Key : /\ k = call[c].key
                         /\ KeepsLeases(lm, lm')
                         /\ \A j \in Key : j # k => KeepsListed(lm, lm', j)
    BY <1>10, DetachedLists, AttachedLists
  <2>2. UNCHANGED objects /\ UNCHANGED leasedBy
    BY <1>10 DEF DetachOld, AttachNew
  <2>3. Changing(k)'
    <3>1. call'[c].at \in {"attach new", "record"} /\ call'[c].key = k
      BY <1>10, <2>1, CallContinues
    <3> QED
      BY <3>1 DEF Changing
  <2>4. \A j \in Key : j # k => ~Changing(j)
    BY <2>1, NotChanging
  <2>5. \A j \in Key : j # k => Listed(j)
    BY <1>4, <2>1, <2>2, <2>4 DEF objects
  <2> QED
    BY <1>1, <2>3, <2>5 DEF Listed
<1>11. ASSUME NEW c \in Client, DetachKey(c)
       PROVE  ListedInv'
  <2>1. PICK k \in Key : /\ k = call[c].key
                         /\ KeepsLeases(lm, lm')
                         /\ \A j \in Key : j # k => KeepsListed(lm, lm', j)
    BY <1>11, DetachedLists
  <2>2. UNCHANGED objects /\ UNCHANGED leasedBy /\ call[c].at = "detach"
    BY <1>11 DEF DetachKey
  <2>3. CASE lm' = lm
    BY <1>2, <1>8, <2>2, <2>3 DEF objects
  <2>4. CASE lm' # lm
    <3>1. call' = [call EXCEPT ![c] = [call[c] EXCEPT !.at = "clear"]]
      BY <1>11, <2>4 DEF DetachKey
    <3>2. call[c] \in [at : Detaching, key : Key, object : Object]
      BY <2>2, CallIs DEF Detaching
    <3>3. PICK r : r = [call[c] EXCEPT !.at = "clear"]
      OBVIOUS
    <3>4. r.at = "clear" /\ r.key = k
      BY <2>1, <3>2, <3>3
    <3>5. call'[c] = r
      BY <3>1, <3>3, CallBecomes
    <3>6. Changing(k)'
      BY <3>4, <3>5 DEF Changing
    <3>7. \A j \in Key : ~Changing(j)
      BY <2>2, NotChanging
    <3>8. \A j \in Key : j # k => Listed(j)
      BY <1>4, <2>1, <2>2, <3>7 DEF objects
    <3> QED
      BY <1>1, <3>6, <3>8 DEF Listed
  <2> QED
    BY <2>3, <2>4
<1>12. ASSUME NEW c \in Client, FailToAttach(c)
       PROVE  ListedInv'
  <2>1. PICK k \in Key : /\ k = call[c].key
                         /\ call[c].object \in Object /\ data[k] \in {NoObject, call[c].object}
    BY <1>12, CallIs DEF FailToAttach, Attaching, SameObject
  <2>2. /\ UNCHANGED objects /\ lm' = lm
        /\ leasedBy' = [leasedBy EXCEPT ![call[c].object] = "none"]
    BY <1>12 DEF FailToAttach
  <2>3. Listed(k)
    <3>1. Exists(k) => leasedBy'[data[k]] = "none"
      BY <2>1, <2>2, Numbers DEF Exists
    <3> QED
      BY <2>2, <3>1 DEF Listed, Leased, Exists, objects
  <2>4. ASSUME NEW j \in Key, j # k
        PROVE  Listed(j)
    <3>1. Exists(j) => leasedBy'[data[j]] \in {leasedBy[data[j]], "none"}
      BY <1>3, <2>2, Numbers
    <3>2. ~Changing(j)
      BY <2>1, <2>4, NotChanging
    <3> QED
      BY <1>2, <1>4, <2>2, <3>1, <3>2 DEF objects
  <2> QED
    BY <1>1, <2>3, <2>4
<1>13. ASSUME NEW c \in Client, NEW l, NEW by, RecordLease(c, l, by), call[c].key \in Key,
              by = "none" \/ (l \in lm.leases => lm.listed[l][call[c].key] > 0)
       PROVE  ListedInv'
  <2>1. PICK k \in Key : k = call[c].key /\ lm' = lm /\ data' = data
    BY <1>13, RecordedLease
  <2>2. Listed(k)
    <3>1. Exists(k) => leaseOf'[data[k]] = l /\ leasedBy'[data[k]] = by
      BY <1>13, <2>1, RecordedLease
    <3> QED
      BY <1>13, <2>1, <3>1 DEF Listed, Leased, Exists, LeaseOf
  <2>3. ASSUME NEW j \in Key, j # k
        PROVE  Listed(j)
    <3>1. Exists(j) => /\ leaseOf'[data[j]] = leaseOf[data[j]]
                       /\ leasedBy'[data[j]] = leasedBy[data[j]]
      BY <1>13, <2>1, <2>3, RecordedLease
    <3>2. ~Changing(j)
      BY <2>1, <2>3, NotChanging
    <3> QED
      BY <1>2, <1>4, <2>1, <3>1, <3>2
  <2> QED
    BY <1>1, <2>2, <2>3
<1>14. ASSUME NEW c \in Client, RecordAttached(c)
       PROVE  ListedInv'
  <2>1. call[c].key \in Key
    BY <1>14, CallIs DEF RecordAttached, Attaching
  <2>2. call[c].lease \in lm.leases => lm.listed[call[c].lease][call[c].key] > 0
    BY <1>14 DEF RecordAttached, AttachedInv
  <2> QED
    BY <1>13, <1>14, <2>1, <2>2 DEF RecordAttached
<1>15. ASSUME NEW c \in Client, RecordDetached(c)
       PROVE  ListedInv'
  <2>1. call[c].key \in Key
    BY <1>15, CallIs DEF RecordDetached, Detaching
  <2> QED
    BY <1>13, <1>15, <2>1 DEF RecordDetached
<1> QED
  BY <1>5, <1>6, <1>7, <1>9, <1>10, <1>11, <1>12, <1>14, <1>15, BackgroundStep

LEMMA AttachedStep ==
    ASSUME LeaseInv, LeaseInv', SingleClient, GrantedInv, AttachedInv, [Next]_vars
    PROVE  AttachedInv'
<1>1. CASE Background
  <2> SUFFICES ASSUME NEW c \in Client, call[c].at = "record", call[c].lease \in lm'.leases
               PROVE  lm'.listed[call[c].lease][call[c].key] > 0
    BY <1>1 DEF Background, AttachedInv
  <2>1. call[c].at \in Attaching /\ call[c].key \in Key /\ call[c].lease \in LeaseId
    BY CallIs DEF Attaching
  <2>2. call[c].lease <= lm.nextLeaseID /\ call[c].lease \in Nat
    BY <2>1, LeaseAssumption DEF GrantedInv, LeaseId
  <2>3. call[c].lease \in lm.leases
    BY <1>1, <2>2, Numbers DEF Background, KeepsLeases
  <2> QED
    BY <1>1, <2>1, <2>3 DEF Background, KeepsListed, AttachedInv
<1>2. ASSUME \A d \in Client : call'[d].at # "record"
      PROVE  AttachedInv'
  BY <1>2 DEF AttachedInv
<1>3. ASSUME NEW c \in Client,
             \/ \E k \in Key : Put(c, k) \/ PutWithTTL(c, k)
             \/ FailToAttach(c) \/ RecordAttached(c) \/ RecordDetached(c) \/ FinishRevoke(c)
      PROVE  AttachedInv'
  BY <1>2, <1>3, CallEnds
<1>4. ASSUME NEW c \in Client,
             \/ \E k \in Key : StartDetach(c, k)
             \/ \E l \in Granted(lm) : StartRevoke(c, l) \/ \E k \in Key : StartAttach(c, l, k)
      PROVE  AttachedInv'
  BY <1>2, <1>4, CallStarts
<1>5. ASSUME NEW c \in Client, DetachOld(c) \/ DetachKey(c) \/ DeleteRevokedKeys(c)
      PROVE  AttachedInv'
  BY <1>2, <1>5, CallContinues
<1>6. ASSUME NEW c \in Client, AttachNew(c)
      PROVE  AttachedInv'
  BY <1>6, CallContinues, AttachedLists DEF AttachedInv
<1> QED
  BY <1>1, <1>3, <1>4, <1>5, <1>6, BackgroundStep

LEMMA RevokingStep ==
    ASSUME LeaseInv, LeaseInv', SingleClient, ListedInv, RevokingInv, [Next]_vars
    PROVE  RevokingInv'
<1>1. CASE Background
  <2>1. \A k \in Key : \A l : Leased(k, l)' => Leased(k, l)
    BY <1>1, SameLeased DEF Background
  <2>2. call' = call
    BY <1>1 DEF Background
  <2>3. ASSUME NEW c \in Client, NEW k \in Key
        PROVE  /\ call'[c].at = "delete keys" /\ Leased(k, call[c].lease)' => k \in call'[c].keys
               /\ call'[c].at = "revoke" => ~Leased(k, call[c].lease)'
    <3>1. PICK l : l = call[c].lease /\ l = call'[c].lease
      BY <2>2
    <3>2. Leased(k, l)' => Leased(k, l)
      BY <2>1
    <3>3. /\ call[c].at = "delete keys" /\ Leased(k, l) => k \in call[c].keys
          /\ call[c].at = "revoke" => ~Leased(k, l)
      BY <3>1 DEF RevokingInv
    <3> QED
      BY <2>2, <3>1, <3>2, <3>3 DEF Leased
  <2> QED
    BY <2>3 DEF RevokingInv
<1>2. ASSUME \A d \in Client : call'[d].at \notin {"delete keys", "revoke"}
      PROVE  RevokingInv'
  BY <1>2 DEF RevokingInv
<1>3. ASSUME NEW c \in Client,
             \/ \E k \in Key : Put(c, k) \/ PutWithTTL(c, k)
             \/ FailToAttach(c) \/ RecordAttached(c) \/ RecordDetached(c) \/ FinishRevoke(c)
      PROVE  RevokingInv'
  BY <1>2, <1>3, CallEnds
<1>4. ASSUME NEW c \in Client,
             \/ \E k \in Key : StartDetach(c, k)
             \/ \E l \in Granted(lm), k \in Key : StartAttach(c, l, k)
      PROVE  RevokingInv'
  BY <1>2, <1>4, CallStarts
<1>5. ASSUME NEW c \in Client, DetachOld(c) \/ DetachKey(c) \/ AttachNew(c)
      PROVE  RevokingInv'
  BY <1>2, <1>5, CallContinues
\* Every key that carries the lease is listed in it, as no call is changing it.
<1>6. ASSUME NEW c \in Client, NEW l \in Granted(lm), StartRevoke(c, l)
      PROVE  RevokingInv'
  <2>1. l \in lm.leases /\ UNCHANGED <<data, leaseOf, leasedBy>> /\ call[c] = Idle
    BY <1>6 DEF StartRevoke, Found, objects
  <2>2. \A k \in Key : ~Changing(k)
    BY <2>1, OnlyCall DEF Changing
  <2>3. \A k \in Key : Leased(k, l)' => k \in Keys(lm, {l})
    BY <2>1, <2>2 DEF ListedInv, Leased, Exists, LeaseOf, Keys
  <2>4. \A d \in Client :
            call'[d].at = "delete keys" /\ call'[d].lease = l /\ call'[d].keys = Keys(lm, {l})
    BY <1>6, CallStarts
  <2> QED
    BY <2>3, <2>4 DEF RevokingInv, Leased, Exists, LeaseOf
<1>7. ASSUME NEW c \in Client, DeleteRevokedKeys(c)
      PROVE  RevokingInv'
  <2>1. PICK l : l = call[c].lease
    OBVIOUS
  <2>2. \A d \in Client : call'[d].at = "revoke" /\ call'[d].lease = l
    BY <1>7, <2>1, CallContinues
  <2>3. ASSUME NEW k \in Key, Leased(k, l)'
        PROVE  FALSE
    <3>1. data' = [j \in Key |-> IF j \in RevokedKeys(c) THEN NoObject ELSE data[j]]
      BY <1>7 DEF DeleteRevokedKeys
    <3>2. k \notin RevokedKeys(c) /\ data'[k] = data[k]
      BY <2>3, <3>1 DEF Leased, Exists
    <3>3. Leased(k, l)
      BY <1>7, <2>3, <3>2 DEF DeleteRevokedKeys, Leased, Exists, LeaseOf
    <3>4. k \in call[c].keys
      BY <1>7, <2>1, <3>3 DEF DeleteRevokedKeys, RevokingInv
    <3> QED
      BY <2>1, <3>2, <3>3, <3>4 DEF RevokedKeys, Leased
  <2> QED
    BY <2>2, <2>3 DEF RevokingInv, Leased, Exists, LeaseOf
<1> QED
  BY <1>1, <1>3, <1>4, <1>5, <1>6, <1>7, BackgroundStep

LEMMA KeyInit == Init => KeyInv
<1> SUFFICES ASSUME Init
             PROVE  KeyInv
  OBVIOUS
<1>1. \A c \in Client : call[c].at = "idle"
  BY DEF Init, Idle
<1>2. \A k \in Key : ~Exists(k)
  BY DEF Init, Exists
<1>3. ObjectsInv
  BY <1>2 DEF Init, ObjectsInv, NoObject
<1>4. GrantedInv
  BY <1>1, IdleIs DEF Init, GrantedInv, NoLease, NewLeaseManager
<1>5. SameObject /\ AttachedInv
  BY <1>1, IdleIs DEF SameObject, AttachedInv
<1>6. ListedInv /\ RevokingInv
  BY <1>1, <1>2 DEF ListedInv, RevokingInv, Leased
<1> QED
  BY <1>3, <1>4, <1>5, <1>6 DEF KeyInv

LEMMA KeyInvariant == ASSUME SingleClient PROVE Spec => []KeyInv
<1>1. LeaseInv /\ LeaseInv' /\ KeyInv /\ [Next]_vars => KeyInv'
  <2> SUFFICES ASSUME LeaseInv, LeaseInv', KeyInv, [Next]_vars
               PROVE  KeyInv'
    OBVIOUS
  <2> QED
    BY ObjectsStep, GrantedStep, SameObjectStep, ListedStep, AttachedStep, RevokingStep DEF KeyInv
<1> QED
  BY <1>1, KeyInit, LeaseInvariant, PTL DEF Spec

\* With one client, whose operations take several steps while leases run out, the two cleanup
\* goroutines collect them and keys are deleted: between its calls a live lease lists every key
\* that carries it, for any number of keys and leases, unless an AttachToLease failed half-way
\* (engine.go:940-1052, lease.go:111-196).
THEOREM LeasedKeysListed == ASSUME SingleClient PROVE Spec => []LeasedKeyIsListed
<1>1. ASSUME KeyInv
      PROVE  LeasedKeyIsListed
  <2>1. (\A c \in Client : call[c] = Idle) => \A k \in Key : ~Changing(k)
    <3>1. Idle.at = "idle"
      BY DEF Idle
    <3> QED
      BY <3>1 DEF Changing
  <2> QED
    BY <1>1, <2>1 DEF KeyInv, ListedInv, Leased, LeasedKeyIsListed
<1>2. KeyInv => LeasedKeyIsListed
  BY <1>1
<1> QED
  BY <1>2, KeyInvariant, PTL

\* When RevokeLease of a single client returns, no key carries the lease, however the cleanup
\* goroutines and deletions ran between its three steps (engine.go:940-961).
THEOREM RevokeLeavesNoKey == ASSUME SingleClient PROVE Spec => RevokedLeaseLeavesNoKey
<1>1. KeyInv /\ [Next]_vars =>
        [\A c \in Client : FinishRevoke(c) =>
           \A k \in Key :
              Exists(k) /\ leasedBy[data[k]] # "none" => LeaseOf(k) # call[c].lease]_vars
  BY DEF KeyInv, RevokingInv, Leased, FinishRevoke
<1> QED
  BY <1>1, KeyInvariant, PTL DEF Spec, RevokedLeaseLeavesNoKey

=============================================================================
