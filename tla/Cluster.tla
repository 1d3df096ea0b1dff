-------------------------------- MODULE Cluster --------------------------------
(***************************************************************************)
(* The cluster manager of src/internal/raft/cluster.go: which nodes there  *)
(* are, which nodes each of them believes there are, and how both change   *)
(* while the nodes run.                                                    *)
(*                                                                         *)
(* A list of node ids is a Go slice: an array that others may share, and a *)
(* length.  c.mu keeps the operations apart, but a node reads its list     *)
(* without it, and RemoveNode changes lists in many steps.  What the nodes *)
(* do with their lists, and which of them leads, is the subject of Raft.   *)
(***************************************************************************)
EXTENDS Naturals, Sequences, FiniteSets, SequencesExt

CONSTANTS
    Node,
    Templates,    \* what clusterConfig may be: the ids in its ClusterNodes, and whether it has a
                  \* map of addresses (NodeAddresses is not nil)
    None,
    MaxArrays,    \* bound: arrays that lists are kept in
    MaxChanges    \* bound: nodes removed, or added without being configured

ASSUME ClusterAssumption ==
    /\ Templates \subseteq [ids : Seq(Node), mapped : BOOLEAN]
    /\ \A t \in Templates : IsInjective(t.ids) /\ t.ids # <<>>
    /\ None \notin Node
    /\ {MaxArrays, MaxChanges} \subseteq Nat

VARIABLES
    arrays,       \* the arrays there are, each as long as its capacity
    template,     \* the list in clusterConfig: [array, len]
    lists,        \* the list of each node of c.nodes; None for the others
    mapped,       \* clusterConfig has a map of addresses
    shared,       \* the ids configured or added: those that map has, if there is one
    addresses,    \* ids in the map each node has of its own, or None while it has clusterConfig's
    started,      \* nodes of c.nodes whose goroutines Start has started
    stopped,      \* nodes of c.nodes whose Stop has closed their channels
    removing,     \* the RemoveNode under way, which holds c.mu: the position it shifts next and
                  \* the nodes whose list it has still to replace; or None
    panicked,     \* Stop has closed a closed channel
    late,         \* history: nodes added that were not on the list of clusterConfig
    removed,      \* history: nodes removed
    halted,       \* history: Cluster.Stop has been called
    settled       \* history: <<node, ids>> for each list of ids a node has had between operations,
                  \* up to the second change

listVars == <<arrays, template, lists>>
addressVars == <<mapped, shared, addresses>>
runVars == <<started, stopped, panicked, halted>>
vars == <<listVars, addressVars, runVars, removing, late, removed, settled>>

Nodes == {n \in Node : lists[n] # None}    \* c.nodes
Ids(slice) == SubSeq(arrays[slice.array], 1, slice.len)

\* The configured list may have room at its end, as one that is decoded from JSON has.
Init ==
    /\ \E t \in Templates :
          /\ arrays \in {<<t.ids>>, <<Append(t.ids, None)>>}
          /\ template = [array |-> 1, len |-> Len(t.ids)]
          /\ mapped = t.mapped
          /\ shared = ToSet(t.ids)
    /\ lists = [n \in Node |-> None]
    /\ addresses = [n \in Node |-> None]
    /\ started = {}
    /\ stopped = {}
    /\ removing = None
    /\ panicked = FALSE
    /\ late = {}
    /\ removed = {}
    /\ halted = FALSE
    /\ settled = {}

\* A change is a node removed, or added without having been configured
Changes == Cardinality(late) + Cardinality(removed)
Settle(new) == settled' = IF Changes' <= 1 THEN settled \cup new ELSE {}

Free == ~panicked /\ removing = None    \* c.mu can be taken

-----------------------------------------------------------------------------
(* Adding a node *)

\* Go's append, to a list with and without room in its array
AppendTo(slice, id) ==
    IF slice.len < Len(arrays[slice.array])
      THEN [arrays |-> [arrays EXCEPT ![slice.array][slice.len + 1] = id],
            slice  |-> [slice EXCEPT !.len = @ + 1]]
      ELSE [arrays |-> Append(arrays, Ids(slice) \o <<id>> \o [i \in 1..slice.len - 1 |-> None]),
            slice  |-> [array |-> Len(arrays) + 1, len |-> slice.len + 1]]

\* Only the new node's own list is added to, and, where clusterConfig has no map of addresses, only
\* a map of its own
AddNode(n) ==
    LET listed == n \in ToSet(Ids(template))
        after  == IF listed THEN [arrays |-> arrays, slice |-> template] ELSE AppendTo(template, n)
    IN  /\ Free
        /\ n \notin Nodes
        /\ arrays' = after.arrays
        /\ Len(arrays') <= MaxArrays
        /\ lists' = [lists EXCEPT ![n] = after.slice]
        /\ late' = IF listed THEN late ELSE late \cup {n}
        /\ Cardinality(late') + Cardinality(removed) <= MaxChanges
        /\ shared' = shared \cup {n}
        /\ addresses' = [addresses EXCEPT ![n] = IF mapped THEN None ELSE {n}]
        /\ UNCHANGED <<template, mapped, runVars, removing, removed>>
        /\ Settle({<<n, Ids(lists[n])'>>})

-----------------------------------------------------------------------------
(* Removing a node *)

\* Mutant: the node stays in c.nodes
StopRemoved(n) ==
    /\ stopped' = stopped \cup {n}
    /\ panicked' = (n \in stopped)
    /\ UNCHANGED lists
\* The node is stopped and taken out of c.nodes (nobody can look until c.mu is free again)
TakeOut(n) ==
    /\ stopped' = stopped \ {n}
    /\ panicked' = (n \in stopped)
    /\ lists' = [lists EXCEPT ![n] = None]

\* Mutant: positions from 0, as in Go
PositionFromZero(ids, n) ==
    IF n \in ToSet(ids) THEN SelectInSeq(ids, LAMBDA id : id = n) - 1 ELSE None
PositionOf(ids, n) ==
    IF n \in ToSet(ids) THEN SelectInSeq(ids, LAMBDA id : id = n) ELSE None

StartRemove(n) ==
    /\ Free
    /\ n \in Nodes
    /\ TakeOut(n)
    /\ removing' = [position |-> PositionOf(Ids(template), n), left |-> Nodes \ {n}]
    /\ removed' = removed \cup {n}
    /\ Cardinality(late) + Cardinality(removed') <= MaxChanges
    /\ addresses' = [addresses EXCEPT ![n] = None]
    /\ started' = started \ {n}
    /\ UNCHANGED <<arrays, template, mapped, shared, halted, late, settled>>

\* append(ids[:i], ids[i+1:]...) moves the ids behind the removed one in the array itself
ShiftId ==
    /\ ~panicked
    /\ removing # None
    /\ removing.position # None
    /\ IF removing.position < template.len
         THEN /\ arrays' = [arrays EXCEPT ![template.array][removing.position] =
                               arrays[template.array][removing.position + 1]]
              /\ removing' = [removing EXCEPT !.position = @ + 1]
              /\ UNCHANGED template
         ELSE /\ template' = [template EXCEPT !.len = @ - 1]
              /\ removing' = [removing EXCEPT !.position = None]
              /\ UNCHANGED arrays
    /\ UNCHANGED <<lists, addressVars, runVars, late, removed, settled>>

\* Mutant: a node is given the list without its last id
ListFor(n) == [template EXCEPT !.len = IF n = Last(Ids(template)) THEN @ ELSE @ - 1]
\* Mutant: the array is shared, so the list is left as it is
KeptList(n) == lists[n]
NewList(n) == template

\* The other nodes are given the list of clusterConfig, one after the other
ReplaceList(n) ==
    /\ ~panicked
    /\ removing # None
    /\ removing.position = None
    /\ n \in removing.left
    /\ lists' = [lists EXCEPT ![n] = NewList(n)]
    /\ removing' = [removing EXCEPT !.left = @ \ {n}]
    /\ UNCHANGED <<arrays, template, addressVars, runVars, late, removed, settled>>

FinishRemove ==
    /\ ~panicked
    /\ removing # None
    /\ removing.position = None
    /\ removing.left = {}
    /\ removing' = None
    /\ UNCHANGED <<listVars, addressVars, runVars, late, removed>>
    /\ Settle({<<n, Ids(lists[n])>> : n \in Nodes})

-----------------------------------------------------------------------------
(* Start and Stop *)

\* Mutant: addresses are copied for the nodes on the configured list
CopyListed == [n \in Node |-> IF n \in Nodes THEN shared \cap ToSet(Ids(template)) ELSE addresses[n]]
CopyAddresses ==
    [n \in Node |-> IF n \notin Nodes THEN addresses[n] ELSE IF mapped THEN shared ELSE {}]

Start ==
    /\ Free
    /\ addresses' = CopyAddresses
    /\ started' = started \cup Nodes
    /\ UNCHANGED <<listVars, mapped, shared, stopped, panicked, halted, removing, late,
                   removed, settled>>

Stop ==
    /\ Free
    /\ stopped' = stopped \cup Nodes
    /\ panicked' = (stopped \cap Nodes # {})
    /\ halted' = TRUE
    /\ UNCHANGED <<listVars, addressVars, started, removing, late, removed, settled>>

Next ==
    \/ \E n \in Node : AddNode(n) \/ StartRemove(n) \/ ReplaceList(n)
    \/ ShiftId \/ FinishRemove \/ Start \/ Stop

Spec == Init /\ [][Next]_vars

-----------------------------------------------------------------------------
(* Properties *)

\* No list is not a list, no position not a position, no call not a call, and no RemoveNode not a
\* RemoveNode
ASSUME NoneAssumption ==
    /\ None \notin Nat
    /\ None \notin [array : Nat, len : Nat]
    /\ None \notin [position : Nat \cup {None}, left : SUBSET Node]

Slice == {slice \in [array : DOMAIN arrays, len : Nat] : slice.len <= Len(arrays[slice.array])}

TypeOK ==
    /\ arrays \in Seq(Seq(Node \cup {None}))
    /\ template \in Slice
    /\ \A n \in Node : lists[n] = None \/ lists[n] \in Slice
    /\ shared \subseteq Node
    /\ \A n \in Node : addresses[n] = None \/ addresses[n] \subseteq Node
    /\ started \cup stopped \cup late \cup removed \subseteq Node
    /\ removing = None \/ removing \in [position : (1..template.len) \cup {None}, left : SUBSET Nodes]
    /\ {panicked, halted, mapped} \subseteq BOOLEAN
    /\ settled \subseteq Node \X Seq(Node)

\* A candidate wins with its own vote and an answer for each time another id is on its list, if
\* these are more than half the list (raft.go:278-283, 864-866).
Wins(ids, others) ==
    1 + Cardinality({i \in DOMAIN ids : ids[i] \in others}) >= Len(ids) \div 2 + 1
Overlapping(n, ids, m, idsOfM) ==
    n = m \/ LET rest == Node \ {n, m}
             IN  \A voters \in SUBSET rest : ~(Wins(ids, voters) /\ Wins(idsOfM, rest \ voters))

\* Two nodes can never win, at the same moment, with voters that have no node in common, although
\* each counts on a list of its own: not while a RemoveNode shifts the ids under them and replaces
\* their lists one by one, and not when one node has joined that the others do not know
\* (cluster.go:135-151, 82-91).
MajoritiesOverlap ==
    late = {} \/ (Cardinality(late) = 1 /\ removed = {}) =>
        LET ids == [n \in Nodes |-> Ids(lists[n])]
        IN  \A n, m \in Nodes : Overlapping(n, ids[n], m, ids[m])

\* Nor with voters of different times, in one term, as long as no more than one node has been added
\* or removed: a change is in force at once, and votes given before it count (cluster.go:149-151).
MajoritiesOverlapOverTime ==
    \A a, b \in settled : Overlapping(a[1], a[2], b[1], b[2])

\* Between operations, and unless a node was added that was not configured, every node has the list
\* of clusterConfig, which has each node of the cluster once and none that was removed.
ListsNameMembers ==
    late = {} /\ removing = None =>
        /\ IsInjective(Ids(template))
        /\ Nodes \subseteq ToSet(Ids(template))
        /\ ToSet(Ids(template)) \cap removed = {}
        /\ \A n \in Nodes : Ids(lists[n]) = Ids(template)

\* Where clusterConfig has a map of addresses, a node that runs has one for every node on its list,
\* whether that was configured, added before Start or added since, with the map that some of them
\* share (cluster.go:76-80, 165-171).
AddressesKnown ==
    mapped /\ Cardinality(late) <= 1 =>
        \A n \in started \cap Nodes :
            ToSet(Ids(lists[n])) \subseteq IF addresses[n] = None THEN shared ELSE addresses[n]

\* No node is stopped twice, which would close its channels twice, unless the cluster is used after
\* its Stop (cluster.go:128, 214).
PanicOnlyOnceHalted == panicked => halted
=============================================================================
