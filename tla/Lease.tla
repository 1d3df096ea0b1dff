------------------------------- MODULE Lease --------------------------------
(***************************************************************************)
(* The lease manager of src/internal/lease/lease.go.  Every method runs    *)
(* under lm.mu, so each is one step: an operator from the manager before   *)
(* the call to the manager after it.  (lm.closed is read just before the   *)
(* lock is taken: a Grant that Close overtakes there adds a lease that     *)
(* nobody can use or collect, which is left out.)                          *)
(*                                                                         *)
(* Of the slice Keys of a lease only the number of times each key is in it *)
(* matters.  Time is not modelled: a lease may run out at any moment.      *)
(***************************************************************************)
EXTENDS Naturals

CONSTANTS
    Key,
    MaxLease     \* bound: the highest lease id

ASSUME LeaseAssumption == MaxLease \in Nat

LeaseId == 1..MaxLease
NoLease == 0          \* no entry in keyToLease, LeaseID 0
NoKeys == [k \in Key |-> 0]

NewLeaseManager ==
    [leases |-> {},                               \* ids in lm.leases
     listed |-> [l \in LeaseId |-> NoKeys],       \* lease.Keys
     expired |-> {},                              \* leases past lease.Expires
     keyToLease |-> [k \in Key |-> NoLease],
     revokedLeases |-> {},
     nextLeaseID |-> 1,
     closed |-> FALSE]

\* The ids that Grant has handed out, the first one being 2
Granted(lm) == 2..lm.nextLeaseID

CanGrant(lm) == ~lm.closed /\ lm.nextLeaseID < MaxLease
\* Mutant: the id before the increment, which two calls may get
GrantSameId(lm) ==
    LET id == lm.nextLeaseID
    IN  [lm EXCEPT !.nextLeaseID = id + 1, !.leases = @ \cup {id}]
Grant(lm) ==
    LET id == lm.nextLeaseID + 1
    IN  [lm EXCEPT !.nextLeaseID = id, !.leases = @ \cup {id}]

\* The check that KeepAlive, Attach and GetLease begin with
Found(lm, l) == ~lm.closed /\ l \in lm.leases /\ l \notin lm.revokedLeases

KeepAlive(lm, l) == [lm EXCEPT !.expired = @ \ {l}]

\* detachFromLease: one occurrence of the key goes, and its entry in keyToLease
DetachFromLease(lm, l, k) ==
    IF l \notin lm.leases THEN lm
    ELSE [lm EXCEPT !.listed[l][k] = IF @ > 0 THEN @ - 1 ELSE 0,
                    !.keyToLease[k] = NoLease]

CanDetach(lm, k) == ~lm.closed /\ lm.keyToLease[k] # NoLease
Detach(lm, k) == DetachFromLease(lm, lm.keyToLease[k], k)

\* Mutant: a key the manager knows already is not listed again
AttachKnown(lm, l, k) ==
    IF lm.keyToLease[k] # NoLease
      THEN [lm EXCEPT !.keyToLease[k] = l]
      ELSE [lm EXCEPT !.listed[l][k] = @ + 1, !.keyToLease[k] = l]
\* Attach: a key attached to the same lease already is listed once more
Attach(lm, l, k) ==
    LET old == lm.keyToLease[k]
        moved == IF old \in {NoLease, l} THEN lm ELSE DetachFromLease(lm, old, k)
    IN  [moved EXCEPT !.listed[l][k] = @ + 1, !.keyToLease[k] = l]

Keys(lm, ended) == {k \in Key : \E l \in ended : lm.listed[l][k] > 0}

\* Mutant: keyToLease is left as it was
EndKeepingMapping(lm, ended) ==
    [lm EXCEPT !.leases = @ \ ended, !.expired = @ \ ended,
               !.revokedLeases = @ \cup ended,
               !.listed = [l \in LeaseId |-> IF l \in ended THEN NoKeys ELSE @[l]]]
\* Revoke and GetExpiredKeys: the leases go, and the entry of every key listed in
\* them, whatever lease that entry names by now
EndLeases(lm, ended) ==
    [lm EXCEPT !.leases = @ \ ended, !.expired = @ \ ended,
               !.revokedLeases = @ \cup ended,
               !.listed = [l \in LeaseId |-> IF l \in ended THEN NoKeys ELSE @[l]],
               !.keyToLease = [k \in Key |->
                                  IF k \in Keys(lm, ended) THEN NoLease ELSE @[k]]]

\* What GetExpiredKeys finds, and takes with it
ExpiredLeases(lm) ==
    IF lm.closed THEN {} ELSE (lm.leases \cap lm.expired) \ lm.revokedLeases

CloseManager(lm) == [NewLeaseManager EXCEPT !.closed = TRUE, !.nextLeaseID = lm.nextLeaseID]

Manager ==
    {lm \in [leases : SUBSET LeaseId, listed : [LeaseId -> [Key -> Nat]],
             expired : SUBSET LeaseId, keyToLease : [Key -> LeaseId \cup {NoLease}],
             revokedLeases : SUBSET LeaseId, nextLeaseID : {1} \cup LeaseId, closed : BOOLEAN] :
        lm.leases \subseteq Granted(lm)}

\* The lease that a key is mapped to is alive and lists the key
Consistent(lm) ==
    \A k \in Key : lm.keyToLease[k] # NoLease =>
        /\ lm.keyToLease[k] \in lm.leases
        /\ lm.listed[lm.keyToLease[k]][k] > 0
=============================================================================
