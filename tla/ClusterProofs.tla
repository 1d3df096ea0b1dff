---------------------------- MODULE ClusterProofs ----------------------------
(***************************************************************************)
(* Theorems about Cluster, for clusters of any size and every bound.       *)
(*                                                                         *)
(* 1. Lists: what append, the shift of RemoveNode and a list handed to a   *)
(*    node do to the arrays and to the ids that a list holds, and which of *)
(*    this each step does (Steps).                                         *)
(* 2. The invariant (ClusterInv), one conjunct per concern: the places of  *)
(*    a list are filled (Filled), the configured list has each node once   *)
(*    but for the place a RemoveNode shifts over (ConfigInv), the nodes    *)
(*    have that list or will be given it (ListsInv), a node that was not   *)
(*    configured is on its own list alone (LateInv), the address maps      *)
(*    (AddressInv), stops (RunInv), and the lists nodes have had           *)
(*    (SettledInv).                                                        *)
(* 3. One lemma per conjunct: the steps keep it.                           *)
(* 4. The properties that follow from it, and the majorities: two lists    *)
(*    that agree on their common places and differ in length by no more    *)
(*    than one leave no room for two majorities that share no voter        *)
(*    (NoTwoMajorities).                                                   *)
(***************************************************************************)
EXTENDS Cluster, FoldLemmas, FiniteSetTheorems, TLAPS

-----------------------------------------------------------------------------
(* Lists *)

Id == Node \cup {None}
At(slice, i) == arrays[slice.array][i]

\* What TypeOK says, of functions
Types ==
    /\ arrays \in Seq(Seq(Id))
    /\ template \in Slice
    /\ lists \in [Node -> Slice \cup {None}]
    /\ shared \subseteq Node
    /\ addresses \in [Node -> (SUBSET Node) \cup {None}]
    /\ started \cup stopped \cup late \cup removed \subseteq Node
    /\ removing = None \/ removing \in [position : (1..template.len) \cup {None}, left : SUBSET Nodes]
    /\ panicked \in BOOLEAN /\ halted \in BOOLEAN /\ mapped \in BOOLEAN

\* A list is inside its array
IsSlice(as, slice) ==
    /\ slice \in [array : DOMAIN as, len : Nat]
    /\ slice.len <= Len(as[slice.array])
Arrays == Seq(Seq(Id))

LEMMA Within ==
    ASSUME NEW n \in Nat, NEW m \in Nat, n <= m
    PROVE  \A i \in 1..n : i \in 1..m
OBVIOUS

LEMMA ArrayTyped ==
    ASSUME NEW as \in Arrays, NEW a \in DOMAIN as
    PROVE  /\ DOMAIN as = 1..Len(as) /\ Len(as) \in Nat /\ a \in Nat
           /\ as[a] \in Seq(Id) /\ Len(as[a]) \in Nat
           /\ DOMAIN as[a] = 1..Len(as[a])
           /\ \A i \in 1..Len(as[a]) : as[a][i] \in Id
<1>1. DOMAIN as = 1..Len(as) /\ Len(as) \in Nat
  BY LenProperties DEF Arrays
<1>2. as[a] \in Seq(Id)
  BY <1>1, ElementOfSeq DEF Arrays
<1>3. PICK s : s = as[a]
  OBVIOUS
<1>4. Len(s) \in Nat /\ DOMAIN s = 1..Len(s) /\ \A i \in 1..Len(s) : s[i] \in Id
  BY <1>2, <1>3, LenProperties, ElementOfSeq
<1>5. a \in Nat
  BY <1>1
<1> QED
  BY <1>1, <1>2, <1>3, <1>4, <1>5

LEMMA SliceTyped ==
    ASSUME NEW as \in Arrays, NEW slice, IsSlice(as, slice)
    PROVE  /\ slice.array \in DOMAIN as /\ slice.array \in Nat /\ slice.len \in Nat
           /\ slice \in [array : Nat, len : Nat] /\ slice # None
           /\ slice.len <= Len(as[slice.array]) /\ Len(as[slice.array]) \in Nat
           /\ as[slice.array] \in Seq(Id)
           /\ \A i \in 1..slice.len : i \in 1..Len(as[slice.array]) /\ as[slice.array][i] \in Id
<1>1. slice.array \in DOMAIN as /\ slice.len \in Nat /\ slice.len <= Len(as[slice.array])
  BY DEF IsSlice
<1>2. slice.array \in Nat /\ as[slice.array] \in Seq(Id) /\ Len(as[slice.array]) \in Nat
  BY <1>1, ArrayTyped
<1>3. slice \in [array : Nat, len : Nat]
  BY <1>1, <1>2 DEF IsSlice
<1>4. slice # None
  BY <1>3, NoneAssumption
<1>5. PICK m : m = Len(as[slice.array])
  OBVIOUS
<1>6. \A i \in 1..slice.len : i \in 1..m
  BY <1>1, <1>2, <1>5, Within
<1> QED
  BY <1>1, <1>2, <1>3, <1>4, <1>5, <1>6, ArrayTyped

LEMMA IdsAre ==
    ASSUME NEW as \in Arrays, NEW slice, IsSlice(as, slice)
    PROVE  LET ids == SubSeq(as[slice.array], 1, slice.len)
           IN  /\ ids = [i \in 1..slice.len |-> as[slice.array][i]]
               /\ ids \in Seq(Id) /\ Len(ids) = slice.len /\ DOMAIN ids = 1..slice.len
               /\ \A i \in 1..slice.len : ids[i] = as[slice.array][i]
<1>1. PICK s, n : s = as[slice.array] /\ n = slice.len
  OBVIOUS
<1>2. s \in Seq(Id) /\ n \in Nat /\ n <= Len(s) /\ Len(s) \in Nat
  BY <1>1, SliceTyped
<1>3. \A i \in 1..n : s[i] \in Id
  BY <1>1, SliceTyped
<1>4. /\ SubSeq(s, 1, n) \in Seq(Id) /\ Len(SubSeq(s, 1, n)) = n
      /\ \A i \in 1..n : SubSeq(s, 1, n)[i] = s[i]
  BY <1>2, <1>3, SubSeqProperties
<1>5. SubSeq(s, 1, n) = [i \in 1..n |-> s[i]]
  BY <1>2
<1> QED
  BY <1>1, <1>2, <1>4, <1>5

\* An id is put at the end of a list, into arrays of which only one place has changed, beyond the list.
LEMMA AppendToFacts ==
    ASSUME NEW id \in Node, arrays \in Arrays, IsSlice(arrays, template)
    PROVE  LET as == AppendTo(template, id).arrays
               s  == AppendTo(template, id).slice
           IN  /\ as \in Arrays /\ IsSlice(as, s)
               /\ s.len = template.len + 1
               /\ \A i \in 1..template.len : as[s.array][i] = At(template, i)
               /\ as[s.array][template.len + 1] = id
               /\ \A a \in DOMAIN arrays : a \in DOMAIN as /\ Len(as[a]) = Len(arrays[a])
               /\ \A a \in DOMAIN arrays : \A i \in 1..Len(arrays[a]) :
                     \/ as[a][i] = arrays[a][i]
                     \/ a = template.array /\ i = template.len + 1 /\ as[a][i] = id
<1>1. PICK as, s, t, n, old : /\ as = AppendTo(template, id).arrays
                              /\ s = AppendTo(template, id).slice
                              /\ t = template.array /\ n = template.len /\ old = arrays[t]
  OBVIOUS
<1>2. /\ t \in DOMAIN arrays /\ DOMAIN arrays = 1..Len(arrays) /\ Len(arrays) \in Nat /\ t \in Nat
      /\ n \in Nat /\ old \in Seq(Id) /\ n <= Len(old) /\ Len(old) \in Nat
      /\ DOMAIN old = 1..Len(old)
  BY <1>1, SliceTyped, ArrayTyped
<1>3. id \in Id
  BY DEF Id
<1>4. CASE n < Len(old)
  <2>1. PICK new : new = [old EXCEPT ![n + 1] = id]
    OBVIOUS
  <2>2. n + 1 \in 1..Len(old)
    BY <1>2, <1>4
  <2>3. /\ new \in Seq(Id) /\ Len(new) = Len(old)
        /\ \A i \in 1..Len(old) : new[i] = IF i = n + 1 THEN id ELSE old[i]
    BY <1>2, <1>3, <2>1, <2>2, ExceptSeq
  <2>4. as = [arrays EXCEPT ![t] = new] /\ s = [template EXCEPT !.len = n + 1]
    BY <1>1, <1>4, <2>1 DEF AppendTo
  <2>5. /\ as \in Seq(Seq(Id)) /\ Len(as) = Len(arrays)
        /\ \A a \in 1..Len(arrays) : as[a] = IF a = t THEN new ELSE arrays[a]
    BY <1>2, <2>3, <2>4, ExceptSeq DEF Arrays
  <2>6. DOMAIN as = DOMAIN arrays
    BY <1>2, <2>5, LenProperties
  <2>7. s.array = t /\ s.len = n + 1 /\ s \in [array : DOMAIN as, len : Nat]
    BY <1>1, <1>2, <2>4, <2>6 DEF IsSlice
  <2>8. IsSlice(as, s)
    <3>1. as[s.array] = new /\ Len(new) = Len(old)
      BY <1>2, <2>3, <2>5, <2>7
    <3>2. n + 1 <= Len(old)
      BY <1>2, <1>4
    <3> QED
      BY <2>7, <3>1, <3>2 DEF IsSlice
  <2>9. \A i \in 1..n : i \in 1..Len(old) /\ i # n + 1
    BY <1>2
  <2>10. \A i \in 1..n : as[s.array][i] = old[i]
    BY <1>2, <2>3, <2>5, <2>7, <2>9
  <2>11. as[s.array][n + 1] = id
    BY <1>2, <2>2, <2>3, <2>5, <2>7
  <2>12. \A a \in DOMAIN arrays : a \in DOMAIN as /\ Len(as[a]) = Len(arrays[a])
    BY <1>1, <1>2, <2>3, <2>5, <2>6
  <2>13. \A a \in DOMAIN arrays : \A i \in 1..Len(arrays[a]) :
             as[a][i] = arrays[a][i] \/ (a = t /\ i = n + 1 /\ as[a][i] = id)
    BY <1>1, <1>2, <2>3, <2>5
  <2> QED
    BY <1>1, <2>5, <2>7, <2>8, <2>10, <2>11, <2>12, <2>13 DEF Arrays, At
<1>5. CASE ~(n < Len(old))
  <2>1. PICK ids, one, pad, new : /\ ids = SubSeq(old, 1, n) /\ one = <<id>>
                                  /\ pad = [i \in 1..(n - 1) |-> None]
                                  /\ new = ids \o one \o pad
    OBVIOUS
  <2>2. ids \in Seq(Id) /\ Len(ids) = n /\ \A i \in 1..n : ids[i] = old[i]
    BY <1>1, <2>1, IdsAre
  <2>3. one \in Seq(Id) /\ Len(one) = 1 /\ one[1] = id
    BY <1>3, <2>1
  <2>4. pad \in Seq(Id)
    <3>1. PICK k \in Nat : 1..(n - 1) = 1..k
      <4>1. CASE n = 0
        <5>1. 1..(n - 1) = 1..0
          BY <4>1
        <5> QED
          BY <5>1
      <4>2. CASE n # 0
        BY <1>2, <4>2
      <4> QED
        BY <4>1, <4>2
    <3>2. pad \in [1..k -> Id]
      BY <2>1, <3>1 DEF Id
    <3> QED
      BY <3>2, SeqDef
  <2>5. ids \o one = Append(ids, id)
    BY <1>3, <2>1, <2>2, AppendIsConcat
  <2>6. PICK long : long = Append(ids, id)
    OBVIOUS
  <2>7. /\ long \in Seq(Id) /\ Len(long) = n + 1 /\ long[n + 1] = id
        /\ \A i \in 1..n : long[i] = old[i]
    BY <1>2, <1>3, <2>2, <2>6, AppendProperties
  <2>8. PICK p \in Nat, q \in Nat : p = Len(long) /\ q = Len(pad)
    BY <2>4, <2>7, LenProperties
  <2>9. /\ new \in Seq(Id) /\ Len(new) = p + q
        /\ \A i \in 1..(p + q) : new[i] = IF i <= p THEN long[i] ELSE pad[i - p]
    <3>1. new = long \o pad
      BY <2>1, <2>5, <2>6
    <3> QED
      BY <2>4, <2>7, <2>8, <3>1, ConcatProperties
  <2>10. p = n + 1 /\ n + 1 \in 1..(p + q) /\ n + 1 <= p
    BY <1>2, <2>7, <2>8
  <2>11. \A i \in 1..n : i \in 1..(p + q) /\ i <= p
    BY <1>2, <2>8, <2>10
  <2>12. new[n + 1] = id /\ \A i \in 1..n : new[i] = old[i]
    BY <2>7, <2>9, <2>10, <2>11
  <2>13. n + 1 <= Len(new)
    BY <1>2, <2>9, <2>10
  <2>14. as = Append(arrays, new) /\ s = [array |-> Len(arrays) + 1, len |-> n + 1]
    BY <1>1, <1>5, <2>1 DEF AppendTo, Ids
  <2>15. PICK l \in Nat : l = Len(arrays)
    BY <1>2
  <2>16. /\ as \in Seq(Seq(Id)) /\ Len(as) = l + 1
         /\ \A a \in 1..l : as[a] = arrays[a]
         /\ as[l + 1] = new
    BY <2>9, <2>14, <2>15, AppendProperties DEF Arrays
  <2>17. DOMAIN as = 1..(l + 1) /\ l + 1 \in 1..(l + 1) /\ n + 1 \in Nat
    BY <1>2, <2>15, <2>16, LenProperties
  <2>18. s.array = l + 1 /\ s.len = n + 1 /\ s \in [array : DOMAIN as, len : Nat]
    BY <2>14, <2>15, <2>17
  <2>19. IsSlice(as, s)
    BY <2>13, <2>16, <2>18 DEF IsSlice
  <2>20. \A a \in DOMAIN arrays : a \in DOMAIN as /\ as[a] = arrays[a]
    <3>1. DOMAIN arrays = 1..l /\ \A a \in 1..l : a \in 1..(l + 1)
      BY <1>2, <2>15
    <3> QED
      BY <2>16, <2>17, <3>1
  <2>21. as[s.array] = new
    BY <2>16, <2>18
  <2>22. \A i \in 1..n : as[s.array][i] = old[i]
    BY <2>12, <2>21
  <2>23. as[s.array][n + 1] = id
    BY <2>12, <2>21
  <2>24. as \in Arrays
    BY <2>16 DEF Arrays
  <2> QED
    BY <1>1, <2>18, <2>19, <2>20, <2>22, <2>23, <2>24 DEF At
<1> QED
  BY <1>2, <1>4, <1>5

LEMMA SlicesAre == \A s : s \in Slice <=> IsSlice(arrays, s)
BY DEF Slice, IsSlice

LEMMA SlicesAreNext == \A s : s \in Slice' <=> IsSlice(arrays', s)
BY DEF Slice, IsSlice

\* The arrays that there are stay, with their length.
KeepsArrays ==
    /\ arrays' \in Arrays
    /\ \A a \in DOMAIN arrays : a \in DOMAIN arrays' /\ Len(arrays'[a]) = Len(arrays[a])

LEMMA SlicesKept ==
    ASSUME KeepsArrays, NEW s \in Slice
    PROVE  s \in Slice'
BY SlicesAre, SlicesAreNext DEF KeepsArrays, IsSlice

LEMMA ArraysKept ==
    ASSUME arrays \in Arrays, arrays' = arrays
    PROVE  KeepsArrays
BY DEF KeepsArrays

LEMMA SliceIsOne ==
    ASSUME Types, NEW s \in Slice
    PROVE  s # None /\ s.len \in Nat /\ s.array \in DOMAIN arrays /\ IsSlice(arrays, s)
<1>1. arrays \in Arrays /\ IsSlice(arrays, s)
  BY SlicesAre DEF Types, Arrays
<1> QED
  BY <1>1, SliceTyped

LEMMA NodesAre ==
    ASSUME Types
    PROVE  Nodes \subseteq Node /\ \A n \in Nodes : lists[n] \in Slice
BY DEF Types, Nodes

\* A list is given to a node.
LEMMA ListGiven ==
    ASSUME Types, NEW n \in Node, NEW s, s # None, lists' = [lists EXCEPT ![n] = s]
    PROVE  /\ Nodes' = Nodes \cup {n} /\ lists'[n] = s
           /\ \A m \in Node : m # n => lists'[m] = lists[m]
BY DEF Types, Nodes

\* Listed: the node has the list of clusterConfig.  Unlisted: it has that list and itself.
Listed(n, s) ==
    /\ n \in ToSet(Ids(template))
    /\ s = template /\ arrays' = arrays /\ late' = late
Unlisted(n, s) ==
    /\ n \notin ToSet(Ids(template))
    /\ s.len = template.len + 1
    /\ \A i \in 1..template.len : arrays'[s.array][i] = At(template, i)
    /\ arrays'[s.array][template.len + 1] = n
    /\ \A a \in DOMAIN arrays : \A i \in 1..Len(arrays[a]) :
          \/ arrays'[a][i] = arrays[a][i]
          \/ a = template.array /\ i = template.len + 1 /\ arrays'[a][i] = n
    /\ late' = late \cup {n}

LEMMA AddFacts ==
    ASSUME Types, NEW n \in Node, AddNode(n)
    PROVE  \E s : /\ KeepsArrays /\ IsSlice(arrays', s) /\ s # None
                  /\ lists' = [lists EXCEPT ![n] = s]
                  /\ Listed(n, s) \/ Unlisted(n, s)
<1>1. arrays \in Arrays /\ IsSlice(arrays, template) /\ template # None
  BY SliceIsOne DEF Types, Arrays
<1>2. CASE n \in ToSet(Ids(template))
  <2>1. arrays' = arrays /\ lists' = [lists EXCEPT ![n] = template] /\ late' = late
    BY <1>2 DEF AddNode
  <2>2. KeepsArrays
    BY <1>1, <2>1, ArraysKept
  <2> QED
    BY <1>1, <1>2, <2>1, <2>2 DEF Listed
<1>3. CASE n \notin ToSet(Ids(template))
  <2>1. PICK as, s : as = AppendTo(template, n).arrays /\ s = AppendTo(template, n).slice
    OBVIOUS
  <2>2. arrays' = as /\ lists' = [lists EXCEPT ![n] = s] /\ late' = late \cup {n}
    BY <1>3, <2>1 DEF AddNode
  <2>3. /\ as \in Arrays /\ IsSlice(as, s)
        /\ s.len = template.len + 1
        /\ \A i \in 1..template.len : as[s.array][i] = At(template, i)
        /\ as[s.array][template.len + 1] = n
        /\ \A a \in DOMAIN arrays : a \in DOMAIN as /\ Len(as[a]) = Len(arrays[a])
        /\ \A a \in DOMAIN arrays : \A i \in 1..Len(arrays[a]) :
              \/ as[a][i] = arrays[a][i]
              \/ a = template.array /\ i = template.len + 1 /\ as[a][i] = n
    BY <1>1, <2>1, AppendToFacts
  <2>4. s # None
    BY <2>3, SliceTyped
  <2>5. KeepsArrays
    BY <2>2, <2>3 DEF KeepsArrays
  <2>6. Unlisted(n, s)
    BY <1>3, <2>2, <2>3 DEF Unlisted
  <2> QED
    BY <2>2, <2>3, <2>4, <2>5, <2>6
<1> QED
  BY <1>2, <1>3

\* A node leaves its place in the list to the next.
LEMMA ShiftFacts ==
    ASSUME Types, ShiftId
    PROVE  LET p == removing.position
           IN  /\ removing # None /\ p \in 1..template.len /\ p \in Nat /\ template.len \in Nat
               /\ KeepsArrays
               /\ \/ /\ p < template.len /\ p + 1 \in 1..template.len
                     /\ \A a \in DOMAIN arrays : \A i \in 1..Len(arrays[a]) :
                           arrays'[a][i] = IF a = template.array /\ i = p THEN At(template, p + 1)
                                                                         ELSE arrays[a][i]
                     /\ template' = template
                     /\ removing' = [removing EXCEPT !.position = p + 1]
                  \/ /\ p = template.len
                     /\ arrays' = arrays
                     /\ template' = [template EXCEPT !.len = template.len - 1]
                     /\ removing' = [removing EXCEPT !.position = None]
<1>1. PICK p, t, n, old : /\ p = removing.position /\ t = template.array /\ n = template.len
                          /\ old = arrays[t]
  OBVIOUS
<1>2. /\ removing # None /\ p # None
      /\ removing \in [position : (1..n) \cup {None}, left : SUBSET Nodes]
  BY <1>1 DEF ShiftId, Types
<1>3. arrays \in Arrays /\ IsSlice(arrays, template)
  BY SliceIsOne DEF Types, Arrays
<1>4. /\ t \in DOMAIN arrays /\ n \in Nat /\ n <= Len(old) /\ Len(old) \in Nat /\ old \in Seq(Id)
      /\ DOMAIN old = 1..Len(old) /\ DOMAIN arrays = 1..Len(arrays) /\ Len(arrays) \in Nat
      /\ \A i \in 1..n : old[i] \in Id
  BY <1>1, <1>3, SliceTyped, ArrayTyped
<1>5. p \in 1..n /\ p \in Nat
  BY <1>1, <1>2, <1>4
<1>6. CASE p < n
  <2>1. p + 1 \in 1..n /\ p \in 1..Len(old)
    BY <1>4, <1>5, <1>6
  <2>2. PICK new : new = [old EXCEPT ![p] = old[p + 1]]
    OBVIOUS
  <2>3. /\ new \in Seq(Id) /\ Len(new) = Len(old)
        /\ \A i \in 1..Len(old) : new[i] = IF i = p THEN old[p + 1] ELSE old[i]
    BY <1>4, <2>1, <2>2, ExceptSeq
  <2>4. /\ arrays' = [arrays EXCEPT ![t] = new] /\ template' = template
        /\ removing' = [removing EXCEPT !.position = p + 1]
    BY <1>1, <1>6, <2>2 DEF ShiftId
  <2>5. /\ arrays' \in Seq(Seq(Id)) /\ Len(arrays') = Len(arrays)
        /\ \A a \in 1..Len(arrays) : arrays'[a] = IF a = t THEN new ELSE arrays[a]
    BY <1>3, <1>4, <2>3, <2>4, ExceptSeq DEF Arrays
  <2>6. DOMAIN arrays' = DOMAIN arrays
    BY <1>4, <2>5, LenProperties
  <2>7. KeepsArrays
    BY <1>1, <1>4, <2>3, <2>5, <2>6 DEF KeepsArrays, Arrays
  <2>8. \A a \in DOMAIN arrays : \A i \in 1..Len(arrays[a]) :
            arrays'[a][i] = IF a = t /\ i = p THEN old[p + 1] ELSE arrays[a][i]
    BY <1>1, <1>4, <2>3, <2>5
  <2> QED
    BY <1>1, <1>2, <1>4, <1>5, <1>6, <2>1, <2>4, <2>7, <2>8 DEF At
<1>7. CASE ~(p < n)
  <2>1. /\ arrays' = arrays /\ template' = [template EXCEPT !.len = n - 1]
        /\ removing' = [removing EXCEPT !.position = None]
    BY <1>1, <1>7 DEF ShiftId
  <2>2. p = n
    BY <1>4, <1>5, <1>7
  <2>3. KeepsArrays
    BY <1>3, <2>1, ArraysKept
  <2> QED
    BY <1>1, <1>2, <1>4, <1>5, <2>1, <2>2, <2>3
<1> QED
  BY <1>6, <1>7

LEMMA PositionIs ==
    ASSUME NEW ids \in Seq(Id), NEW n
    PROVE  /\ n \in ToSet(ids) => /\ PositionOf(ids, n) \in 1..Len(ids)
                                  /\ ids[PositionOf(ids, n)] = n
           /\ n \notin ToSet(ids) => PositionOf(ids, n) = None
<1>1. Len(ids) \in Nat /\ DOMAIN ids = 1..Len(ids)
  BY LenProperties
<1>2. CASE n \in ToSet(ids)
  <2>1. PICK I : I = {i \in 1..Len(ids) : ids[i] = n}
    OBVIOUS
  <2>2. I \subseteq Nat /\ I # {}
    BY <1>1, <1>2, <2>1 DEF ToSet
  <2>3. PositionOf(ids, n) = SelectInSeq(ids, LAMBDA id : id = n)
    BY <1>2, Zenon DEF PositionOf
  <2>4. SelectInSeq(ids, LAMBDA id : id = n) = IF I # {} THEN Min(I) ELSE 0
    BY <2>1, Zenon DEF SelectInSeq
  <2>5. PositionOf(ids, n) \in I
    BY <2>2, <2>3, <2>4, LeastMember
  <2> QED
    BY <1>2, <2>1, <2>5
<1>3. CASE n \notin ToSet(ids)
  BY <1>3 DEF PositionOf
<1> QED
  BY <1>2, <1>3

Shifting == [position : (1..template.len) \cup {None}, left : SUBSET Nodes]

LEMMA RemoveFacts ==
    ASSUME Types, NEW n \in Node, StartRemove(n)
    PROVE  LET r == removing'
           IN  /\ removing = None /\ n \in Nodes /\ Nodes' = Nodes \ {n}
               /\ \A m \in Node : m # n => lists'[m] = lists[m]
               /\ lists' \in [Node -> Slice \cup {None}]
               /\ r \in [position : (1..template.len) \cup {None}, left : {Nodes \ {n}}]
               /\ r # None
               /\ r.left = Nodes \ {n}
               /\ n \in ToSet(Ids(template)) => /\ r.position \in 1..template.len
                                                /\ r.position # None
                                                /\ At(template, r.position) = n
               /\ n \notin ToSet(Ids(template)) => r.position = None
<1>1. PICK ids, r : ids = Ids(template) /\ r = removing'
  OBVIOUS
<1>2. arrays \in Arrays /\ IsSlice(arrays, template) /\ template.len \in Nat
  BY SliceIsOne DEF Types, Arrays
<1>3. ids \in Seq(Id) /\ Len(ids) = template.len /\ \A i \in 1..template.len : ids[i] = At(template, i)
  BY <1>1, <1>2, IdsAre DEF Ids, At
<1>4. removing = None /\ n \in Nodes /\ r = [position |-> PositionOf(ids, n), left |-> Nodes \ {n}]
  BY <1>1 DEF StartRemove, Free
<1>5. PICK p : p = PositionOf(ids, n)
  OBVIOUS
<1>6. /\ n \in ToSet(ids) => p \in 1..template.len /\ At(template, p) = n
      /\ n \notin ToSet(ids) => p = None
  BY <1>3, <1>5, PositionIs
<1>7. \A i \in 1..template.len : i \in Nat /\ i # None
  BY <1>2, NoneAssumption
<1>8. r \in [position : (1..template.len) \cup {None}, left : {Nodes \ {n}}]
  BY <1>4, <1>5, <1>6
<1>9. r # None
  <2>1. r \in [position : Nat \cup {None}, left : SUBSET Node]
    BY <1>7, <1>8, NodesAre
  <2> QED
    BY <2>1, NoneAssumption
<1>10. lists' = [lists EXCEPT ![n] = None]
  BY DEF StartRemove, TakeOut
<1>11. /\ Nodes' = Nodes \ {n} /\ lists' \in [Node -> Slice \cup {None}]
       /\ \A m \in Node : m # n => lists'[m] = lists[m]
  BY <1>10 DEF Types, Nodes
<1> QED
  BY <1>1, <1>4, <1>5, <1>6, <1>7, <1>8, <1>9, <1>11

LEMMA ReplaceFacts ==
    ASSUME Types, NEW n \in Node, ReplaceList(n)
    PROVE  /\ removing # None /\ removing.position = None /\ n \in removing.left /\ n \in Nodes
           /\ lists' = [lists EXCEPT ![n] = template]
           /\ Nodes' = Nodes /\ lists'[n] = template
           /\ \A m \in Node : m # n => lists'[m] = lists[m]
           /\ removing' # None /\ removing'.position = None /\ removing'.left = removing.left \ {n}
           /\ removing'.left \subseteq Nodes
<1>1. /\ removing # None /\ removing.position = None /\ n \in removing.left
      /\ lists' = [lists EXCEPT ![n] = template]
      /\ removing' = [removing EXCEPT !.left = removing.left \ {n}]
  BY DEF ReplaceList, NewList
<1>2. PICK r : r = removing
  OBVIOUS
<1>3. r \in Shifting
  BY <1>1, <1>2 DEF Types, Shifting
<1>4. r.left \subseteq Nodes /\ r.position \in (1..template.len) \cup {None} /\ template # None
  BY <1>3, SliceIsOne DEF Types, Shifting
<1>5. n \in Nodes /\ template # None
  BY <1>1, <1>2, <1>4
<1>6. /\ Nodes' = Nodes \cup {n} /\ lists'[n] = template
      /\ \A m \in Node : m # n => lists'[m] = lists[m]
  BY <1>1, <1>5, ListGiven
<1>7. Nodes' = Nodes
  BY <1>5, <1>6
<1>8. removing' = [position |-> None, left |-> r.left \ {n}]
  BY <1>1, <1>2, <1>3 DEF Shifting
<1>9. removing' # None
  <2>1. removing' \in [position : Nat \cup {None}, left : SUBSET Node]
    BY <1>4, <1>8, NodesAre
  <2> QED
    BY <2>1, NoneAssumption
<1> QED
  BY <1>1, <1>2, <1>4, <1>5, <1>8, <1>9, <1>6, <1>7

\* Nothing of this changes in the other steps
Still == UNCHANGED <<arrays, template, lists, late, removed, removing, settled, shared>>

LEMMA Steps ==
    ASSUME [Next]_vars
    PROVE  \/ \E n \in Node : AddNode(n) \/ StartRemove(n) \/ ReplaceList(n)
           \/ ShiftId \/ FinishRemove
           \/ Still /\ (Start \/ Stop)
           \/ UNCHANGED vars
<1>1. ASSUME Start \/ Stop
      PROVE  Still
  BY <1>1 DEF Start, Stop, Still, listVars, addressVars
<1> QED
  BY <1>1 DEF Next

-----------------------------------------------------------------------------
(* The invariant *)

\* A position of the configured list that a RemoveNode is shifting over
Skipped(i) == removing # None /\ removing.position = i
Held == {i \in 1..template.len : ~Skipped(i)}
Configured == {At(template, i) : i \in Held}

\* What is at the positions of a list is a node.
Filled ==
    /\ \A i \in 1..template.len : At(template, i) \in shared \ late
    /\ \A n \in Nodes : \A i \in 1..lists[n].len : At(lists[n], i) \in Node

\* The list of clusterConfig has each node once, but for the position a RemoveNode is shifting over.
ConfigInv ==
    /\ \A i, j \in Held : At(template, i) = At(template, j) => i = j
    /\ Configured \cap removed = {}
    /\ Nodes \ late \subseteq Configured

\* The nodes have that list, or will be given it.
ListsInv ==
    /\ removing = None => \A n \in Nodes \ late : lists[n] = template
    /\ removing # None =>
          /\ removed # {}
          /\ removing.position # None => removing.left = Nodes
          /\ \A n \in Nodes \ removing.left : lists[n] = template
          /\ \A n \in removing.left \ late :
                /\ lists[n].array = template.array
                /\ lists[n].len \in {template.len, template.len + 1}
                /\ removing.position # None => lists[n] = template

\* A node that was not configured is on its own list alone.
LateInv ==
    /\ IsFiniteSet(late) /\ IsFiniteSet(removed)
    /\ Cardinality(late) <= 1 =>
          \A n \in Nodes : \A i \in 1..lists[n].len : At(lists[n], i) \in (shared \ late) \cup {n}
    /\ Cardinality(late) = 1 /\ removed = {} =>
          \A n \in Nodes \cap late :
              /\ lists[n].len = template.len + 1
              /\ \A i \in 1..template.len : At(lists[n], i) = At(template, i)
              /\ At(lists[n], template.len + 1) = n

AddressInv ==
    \A n \in Nodes :
        /\ n \in shared
        /\ mapped /\ addresses[n] # None => (shared \ late) \cup {n} \subseteq addresses[n]

RunInv == stopped # {} \/ panicked => halted

-----------------------------------------------------------------------------
(* Types *)

LEMMA AddGives ==
    ASSUME Types, NEW n \in Node, AddNode(n)
    PROVE  /\ removing = None /\ removing' = None /\ template' = template /\ removed' = removed
           /\ shared' = shared \cup {n} /\ n \notin Nodes /\ Nodes' = Nodes \cup {n}
           /\ KeepsArrays /\ IsSlice(arrays', lists'[n])
           /\ lists' = [lists EXCEPT ![n] = lists'[n]]
           /\ \A m \in Node : m # n => lists'[m] = lists[m]
           /\ Listed(n, lists'[n]) \/ Unlisted(n, lists'[n])
<1>1. PICK s : /\ KeepsArrays /\ IsSlice(arrays', s) /\ s # None
               /\ lists' = [lists EXCEPT ![n] = s]
               /\ Listed(n, s) \/ Unlisted(n, s)
  BY AddFacts
<1>2. Nodes' = Nodes \cup {n} /\ lists'[n] = s /\ \A m \in Node : m # n => lists'[m] = lists[m]
  BY <1>1, ListGiven
<1>3. /\ removing = None /\ removing' = None /\ template' = template /\ removed' = removed
      /\ shared' = shared \cup {n} /\ n \notin Nodes
  BY DEF AddNode, Free
<1> QED
  BY <1>1, <1>2, <1>3

\* The lists of the nodes
ListTypes ==
    /\ arrays \in Arrays
    /\ template \in Slice
    /\ lists \in [Node -> Slice \cup {None}]
    /\ removing = None \/ removing \in Shifting

\* The rest
RestTypes ==
    /\ shared \subseteq Node
    /\ addresses \in [Node -> (SUBSET Node) \cup {None}]
    /\ started \cup stopped \cup late \cup removed \subseteq Node
    /\ panicked \in BOOLEAN /\ halted \in BOOLEAN /\ mapped \in BOOLEAN

LEMMA TypesAre == Types <=> ListTypes /\ RestTypes
BY DEF Types, ListTypes, RestTypes, Shifting, Arrays

LEMMA TypesAreNext == Types' <=> ListTypes' /\ RestTypes'
BY DEF Types, ListTypes, RestTypes, Shifting, Arrays

LEMMA InitTypes ==
    ASSUME Init
    PROVE  /\ Types
           /\ template.len = Len(Ids(template)) /\ Nodes = {}
           /\ \E ids \in Seq(Node) :
                 /\ IsInjective(ids) /\ template.len = Len(ids)
                 /\ \A i \in 1..Len(ids) : At(template, i) = ids[i]
                 /\ shared = ToSet(ids)
<1>0. PICK t \in Templates :
           /\ mapped = t.mapped
           /\ arrays \in {<<t.ids>>, <<Append(t.ids, None)>>}
           /\ template = [array |-> 1, len |-> Len(t.ids)]
           /\ shared = ToSet(t.ids)
  BY DEF Init
<1>1. PICK ids : /\ ids = t.ids
                 /\ arrays \in {<<ids>>, <<Append(ids, None)>>}
                 /\ template = [array |-> 1, len |-> Len(ids)]
                 /\ shared = ToSet(ids)
  BY <1>0
<1>2. ids \in Seq(Node) /\ IsInjective(ids) /\ mapped \in BOOLEAN
  BY <1>0, <1>1, ClusterAssumption
<1>3. PICK n \in Nat : n = Len(ids) /\ DOMAIN ids = 1..n
  BY <1>2, LenProperties
<1>4. ids \in Seq(Id) /\ None \in Id
  <2>1. ids \in [1..n -> Node]
    BY <1>2, <1>3
  <2>2. ids \in [1..n -> Id]
    BY <2>1 DEF Id
  <2> QED
    BY <2>2, SeqDef DEF Id
<1>5. PICK s : arrays = <<s>> /\ (s = ids \/ s = Append(ids, None))
  BY <1>1
<1>6. /\ s \in Seq(Id) /\ n <= Len(s) /\ Len(s) \in Nat
      /\ \A i \in 1..n : s[i] = ids[i]
  <2>1. CASE s = ids
    BY <1>3, <1>4, <2>1
  <2>2. CASE s = Append(ids, None)
    <3>1. Append(ids, None) \in Seq(Id) /\ Len(Append(ids, None)) = n + 1
      BY <1>3, <1>4, AppendProperties
    <3>2. \A i \in 1..n : Append(ids, None)[i] = ids[i]
      BY <1>3, <1>4, AppendProperties
    <3> QED
      BY <2>2, <3>1, <3>2
  <2> QED
    BY <1>5, <2>1, <2>2
<1>7. arrays \in Arrays /\ DOMAIN arrays = {1} /\ arrays[1] = s
  BY <1>5, <1>6 DEF Arrays
<1>8. template \in [array : DOMAIN arrays, len : Nat] /\ template.array = 1 /\ template.len = n
  BY <1>1, <1>3, <1>7
<1>9. template \in Slice
  BY <1>6, <1>7, <1>8 DEF Slice
<1>10. lists \in [Node -> Slice \cup {None}] /\ Nodes = {} /\ removing = None
  BY DEF Init, Nodes
<1>11. shared \subseteq Node
  BY <1>1, <1>2, <1>3, ElementOfSeq DEF ToSet
<1>12. RestTypes
  BY <1>2, <1>11 DEF Init, RestTypes, Id
<1>13. Types
  BY <1>7, <1>9, <1>10, <1>12, TypesAre DEF ListTypes
<1>14. template.len = Len(Ids(template))
  BY <1>7, <1>9, SlicesAre, IdsAre DEF Ids
<1>15. \A i \in 1..n : At(template, i) = ids[i]
  BY <1>6, <1>7, <1>8 DEF At
<1> QED
  BY <1>1, <1>2, <1>3, <1>8, <1>10, <1>13, <1>14, <1>15

LEMMA ListTypesStep ==
    ASSUME Types, [Next]_vars
    PROVE  ListTypes' /\ KeepsArrays
<1>1. /\ arrays \in Arrays /\ template \in Slice /\ lists \in [Node -> Slice \cup {None}]
      /\ (removing = None \/ removing \in Shifting)
  BY TypesAre DEF ListTypes
<1>2. ASSUME arrays' = arrays
      PROVE  KeepsArrays /\ Slice' = Slice
  BY <1>1, <1>2, ArraysKept DEF Slice
<1>3. ASSUME KeepsArrays
      PROVE  template \in Slice' /\ lists \in [Node -> Slice' \cup {None}]
  BY <1>1, <1>3, SlicesKept
<1>4. ASSUME NEW n \in Node, AddNode(n)
      PROVE  ListTypes' /\ KeepsArrays
  <2>1. /\ removing' = None /\ template' = template
        /\ KeepsArrays /\ IsSlice(arrays', lists'[n]) /\ lists' = [lists EXCEPT ![n] = lists'[n]]
    BY <1>4, AddGives
  <2>2. lists'[n] \in Slice'
    BY <2>1, SlicesAreNext
  <2>3. PICK s : s = lists'[n]
    OBVIOUS
  <2>4. lists' = [lists EXCEPT ![n] = s] /\ s \in Slice'
    BY <2>1, <2>2, <2>3
  <2>5. lists' \in [Node -> Slice' \cup {None}]
    BY <1>3, <2>1, <2>4
  <2> QED
    BY <1>3, <2>1, <2>5 DEF ListTypes, KeepsArrays
<1>5. ASSUME NEW n \in Node, StartRemove(n)
      PROVE  ListTypes' /\ KeepsArrays
  <2>1. /\ Nodes' = Nodes \ {n} /\ lists' \in [Node -> Slice \cup {None}]
        /\ removing' \in [position : (1..template.len) \cup {None}, left : {Nodes \ {n}}]
    BY <1>5, RemoveFacts
  <2>2. arrays' = arrays /\ template' = template
    BY <1>5 DEF StartRemove
  <2>3. removing' \in Shifting'
    BY <2>1, <2>2 DEF Shifting
  <2> QED
    BY <1>1, <1>2, <2>1, <2>2, <2>3 DEF ListTypes
<1>6. ASSUME NEW n \in Node, ReplaceList(n)
      PROVE  ListTypes' /\ KeepsArrays
  <2>1. /\ lists' = [lists EXCEPT ![n] = template] /\ Nodes' = Nodes
        /\ removing # None /\ removing.left \subseteq Nodes \cup removing.left
    BY <1>6, ReplaceFacts
  <2>2. /\ arrays' = arrays /\ template' = template
        /\ removing' = [removing EXCEPT !.left = removing.left \ {n}]
    BY <1>6 DEF ReplaceList
  <2>3. removing \in [position : (1..template.len) \cup {None}, left : SUBSET Nodes]
    BY <1>1, <2>1 DEF Shifting
  <2>4. removing' \in [position : (1..template.len) \cup {None}, left : SUBSET Nodes]
    BY <2>2, <2>3
  <2>5. removing' \in Shifting'
    BY <2>1, <2>2, <2>4 DEF Shifting
  <2>6. lists' \in [Node -> Slice \cup {None}]
    BY <1>1, <2>1
  <2> QED
    BY <1>1, <1>2, <2>2, <2>5, <2>6 DEF ListTypes
<1>7. ASSUME ShiftId
      PROVE  ListTypes' /\ KeepsArrays
  <2>1. PICK p, n : p = removing.position /\ n = template.len
    OBVIOUS
  <2>2. /\ removing # None /\ p \in 1..n /\ p \in Nat /\ n \in Nat
        /\ KeepsArrays
        /\ \/ p < n /\ p + 1 \in 1..n /\ template' = template /\ removing' = [removing EXCEPT !.position = p + 1]
           \/ /\ p = n /\ arrays' = arrays
              /\ template' = [template EXCEPT !.len = n - 1]
              /\ removing' = [removing EXCEPT !.position = None]
    BY <1>7, <2>1, ShiftFacts
  <2>3. lists' = lists /\ Nodes' = Nodes
    BY <1>7 DEF ShiftId, Nodes
  <2>4. removing \in [position : (1..n) \cup {None}, left : SUBSET Nodes]
    BY <1>1, <2>1, <2>2 DEF Shifting
  <2>5. removing' \in Shifting'
    <3>1. CASE template' = template /\ removing' = [removing EXCEPT !.position = p + 1] /\ p + 1 \in 1..n
      BY <2>1, <2>3, <2>4, <3>1 DEF Shifting
    <3>2. CASE removing' = [removing EXCEPT !.position = None]
      BY <2>3, <2>4, <3>2 DEF Shifting
    <3> QED
      BY <2>2, <3>1, <3>2
  <2>6. template' \in Slice'
    <3>1. CASE template' = template
      BY <1>3, <2>2, <3>1
    <3>2. CASE p = n /\ arrays' = arrays /\ template' = [template EXCEPT !.len = n - 1]
      <4>1. n - 1 \in Nat /\ n - 1 <= n
        BY <2>2, <3>2
      <4>2. IsSlice(arrays, template)
        BY <1>1, SlicesAre
      <4>3. /\ template' \in [array : DOMAIN arrays, len : Nat]
            /\ template'.len = n - 1 /\ template'.array = template.array
        BY <2>1, <3>2, <4>1, <4>2 DEF IsSlice
      <4>4. n <= Len(arrays[template.array]) /\ Len(arrays[template.array]) \in Nat
        BY <1>1, <2>1, <4>2, SliceTyped
      <4>5. IsSlice(arrays, template')
        BY <2>2, <4>1, <4>3, <4>4 DEF IsSlice
      <4> QED
        BY <3>2, <4>5, SlicesAreNext
    <3> QED
      BY <2>2, <3>1, <3>2
  <2> QED
    BY <1>3, <2>2, <2>3, <2>5, <2>6 DEF ListTypes, KeepsArrays
<1>8. ASSUME FinishRemove
      PROVE  ListTypes' /\ KeepsArrays
  BY <1>1, <1>2, <1>8 DEF FinishRemove, listVars, ListTypes
<1>9. ASSUME UNCHANGED <<arrays, template, lists, removing>>
      PROVE  ListTypes' /\ KeepsArrays
  BY <1>1, <1>2, <1>9 DEF ListTypes, Shifting, Nodes
<1> QED
  BY <1>4, <1>5, <1>6, <1>7, <1>8, <1>9, Steps DEF Still, vars, listVars

LEMMA RestTypesStep ==
    ASSUME Types, [Next]_vars
    PROVE  RestTypes'
<1>1. RestTypes
  BY TypesAre
<1> USE DEF RestTypes, addressVars, runVars
<1>2. ASSUME NEW n \in Node, AddNode(n)
      PROVE  RestTypes'
  <2>1. late' = late \/ late' = late \cup {n}
    BY <1>2 DEF AddNode
  <2> QED
    BY <1>1, <1>2, <2>1 DEF AddNode
<1>3. ASSUME NEW n \in Node, StartRemove(n)
      PROVE  RestTypes'
  BY <1>1, <1>3 DEF StartRemove, TakeOut
<1>4. ASSUME NEW n \in Node, ReplaceList(n)
      PROVE  RestTypes'
  BY <1>1, <1>4 DEF ReplaceList
<1>5. ASSUME ShiftId
      PROVE  RestTypes'
  BY <1>1, <1>5 DEF ShiftId
<1>6. ASSUME FinishRemove
      PROVE  RestTypes'
  BY <1>1, <1>6 DEF FinishRemove
<1>7. ASSUME Start
      PROVE  RestTypes'
  BY <1>1, <1>7, NodesAre DEF Start, CopyAddresses
<1>8. ASSUME Stop
      PROVE  RestTypes'
  BY <1>1, <1>8, NodesAre DEF Stop
<1>9. ASSUME UNCHANGED vars
      PROVE  RestTypes'
  BY <1>1, <1>9 DEF vars
<1> QED
  BY <1>2, <1>3, <1>4, <1>5, <1>6, <1>7, <1>8, <1>9 DEF Next

LEMMA TypesStep ==
    ASSUME Types, [Next]_vars
    PROVE  Types'
BY ListTypesStep, RestTypesStep, TypesAreNext

-----------------------------------------------------------------------------
(* What the steps do to the lists *)

LEMMA TemplateIds ==
    ASSUME Types
    PROVE  /\ template.len \in Nat /\ Len(Ids(template)) = template.len
           /\ Ids(template) \in Seq(Id) /\ DOMAIN Ids(template) = 1..template.len
           /\ \A i \in 1..template.len : Ids(template)[i] = At(template, i)
           /\ ToSet(Ids(template)) = {At(template, i) : i \in 1..template.len}
<1>1. arrays \in Arrays /\ IsSlice(arrays, template) /\ template.len \in Nat
  BY SliceIsOne DEF Types, Arrays
<1>2. PICK ids : ids = Ids(template)
  OBVIOUS
<1>3. /\ ids \in Seq(Id) /\ Len(ids) = template.len /\ DOMAIN ids = 1..template.len
      /\ \A i \in 1..template.len : ids[i] = At(template, i)
  BY <1>1, <1>2, IdsAre DEF Ids, At
<1>4. ToSet(ids) = {At(template, i) : i \in 1..template.len}
  BY <1>3 DEF ToSet
<1> QED
  BY <1>1, <1>2, <1>3, <1>4

LEMMA NodeIds ==
    ASSUME Types, NEW n \in Nodes
    PROVE  /\ lists[n].len \in Nat /\ Len(Ids(lists[n])) = lists[n].len
           /\ Ids(lists[n]) \in Seq(Id) /\ DOMAIN Ids(lists[n]) = 1..lists[n].len
           /\ \A i \in 1..lists[n].len : Ids(lists[n])[i] = At(lists[n], i)
           /\ ToSet(Ids(lists[n])) = {At(lists[n], i) : i \in 1..lists[n].len}
<1>1. arrays \in Arrays /\ IsSlice(arrays, lists[n]) /\ lists[n].len \in Nat
  BY NodesAre, SliceIsOne DEF Types, Arrays
<1>2. PICK ids, s : s = lists[n] /\ ids = Ids(s)
  OBVIOUS
<1>3. /\ ids \in Seq(Id) /\ Len(ids) = s.len /\ DOMAIN ids = 1..s.len
      /\ \A i \in 1..s.len : ids[i] = At(s, i)
  BY <1>1, <1>2, IdsAre DEF Ids, At
<1>4. ToSet(ids) = {At(s, i) : i \in 1..s.len}
  BY <1>3 DEF ToSet
<1> QED
  BY <1>1, <1>2, <1>3, <1>4

LEMMA ListPlaces ==
    ASSUME Types, NEW n \in Nodes
    PROVE  /\ lists[n].array \in DOMAIN arrays
           /\ lists[n].len \in Nat
           /\ \A i \in 1..lists[n].len : i \in 1..Len(arrays[lists[n].array]) /\ i \in Nat
BY NodesAre, SlicesAre, SliceTyped, SliceIsOne DEF Types, Arrays

LEMMA TemplatePlaces ==
    ASSUME Types
    PROVE  /\ template.array \in DOMAIN arrays
           /\ template.len \in Nat
           /\ \A i \in 1..template.len : i \in 1..Len(arrays[template.array]) /\ i \in Nat
BY SlicesAre, SliceTyped, SliceIsOne DEF Types, Arrays

LEMMA AddContents ==
    ASSUME Types, NEW n \in Node, AddNode(n)
    PROVE  LET s == lists'[n]
           IN  /\ \A i \in 1..template.len : arrays'[template.array][i] = At(template, i)
               /\ \A m \in Nodes : \A i \in 1..lists[m].len :
                     \/ arrays'[lists[m].array][i] = At(lists[m], i)
                     \/ /\ lists[m].array = template.array /\ i = template.len + 1
                        /\ arrays'[lists[m].array][i] = n /\ late' = late \cup {n}
               /\ \A i \in 1..s.len :
                     \/ i \in 1..template.len /\ arrays'[s.array][i] = At(template, i)
                     \/ arrays'[s.array][i] = n /\ late' = late \cup {n}
               /\ \/ late' = late /\ n \in {At(template, i) : i \in 1..template.len}
                  \/ late' = late \cup {n} /\ \A i \in 1..template.len : At(template, i) # n
<1>1. PICK s, t : s = lists'[n] /\ t = template
  OBVIOUS
<1>2. Listed(n, s) \/ Unlisted(n, s)
  BY <1>1, AddGives
<1>3. t.array \in DOMAIN arrays /\ t.len \in Nat /\ \A i \in 1..t.len : i \in 1..Len(arrays[t.array]) /\ i \in Nat
  BY <1>1, TemplatePlaces
<1>4. ToSet(Ids(template)) = {At(template, i) : i \in 1..template.len}
  BY TemplateIds
<1>5. CASE Listed(n, s)
  BY <1>1, <1>4, <1>5 DEF Listed, At
<1>6. CASE Unlisted(n, s)
  <2>1. /\ s.len = t.len + 1 /\ late' = late \cup {n}
        /\ \A i \in 1..t.len : arrays'[s.array][i] = At(t, i)
        /\ arrays'[s.array][t.len + 1] = n
        /\ \A a \in DOMAIN arrays : \A i \in 1..Len(arrays[a]) :
              \/ arrays'[a][i] = arrays[a][i]
              \/ a = t.array /\ i = t.len + 1 /\ arrays'[a][i] = n
    BY <1>1, <1>6 DEF Unlisted
  <2>2. \A i \in 1..t.len : i # t.len + 1
    BY <1>3
  <2>3. \A i \in 1..t.len : arrays'[t.array][i] = At(t, i)
    BY <1>3, <2>1, <2>2 DEF At
  <2>4. ASSUME NEW m \in Nodes, NEW i \in 1..lists[m].len
        PROVE  \/ arrays'[lists[m].array][i] = At(lists[m], i)
               \/ /\ lists[m].array = t.array /\ i = t.len + 1
                  /\ arrays'[lists[m].array][i] = n
    BY <2>1, ListPlaces DEF At
  <2>5. \A i \in 1..s.len : i \in 1..t.len \/ i = t.len + 1
    BY <1>3, <2>1
  <2>6. \A i \in 1..t.len : At(t, i) # n
    BY <1>1, <1>4, <1>6 DEF Unlisted
  <2> QED
    BY <1>1, <2>1, <2>3, <2>4, <2>5, <2>6
<1> QED
  BY <1>1, <1>2, <1>5, <1>6

\* The places of a list while a node leaves its place to the next
LEMMA ShiftContents ==
    ASSUME Types, ShiftId
    PROVE  /\ Nodes' = Nodes /\ lists' = lists /\ late' = late /\ removed' = removed /\ shared' = shared
           /\ removing # None /\ removing' # None /\ removing'.left = removing.left
           /\ removing.position # None
           /\ \A i \in 1..template.len : arrays'[template.array][i] \in {At(template, j) : j \in 1..template.len}
           /\ \A m \in Nodes : \A i \in 1..lists[m].len :
                 \/ arrays'[lists[m].array][i] = At(lists[m], i)
                 \/ \E j \in 1..template.len : arrays'[lists[m].array][i] = At(template, j)
<1>1. PICK p, t, n : p = removing.position /\ t = template /\ n = template.len
  OBVIOUS
<1>2. /\ removing # None /\ p \in 1..n /\ p \in Nat /\ n \in Nat
      /\ \/ /\ p < n /\ p + 1 \in 1..n
            /\ \A a \in DOMAIN arrays : \A i \in 1..Len(arrays[a]) :
                  arrays'[a][i] = IF a = t.array /\ i = p THEN At(t, p + 1) ELSE arrays[a][i]
            /\ template' = template
            /\ removing' = [removing EXCEPT !.position = p + 1]
         \/ /\ arrays' = arrays
            /\ removing' = [removing EXCEPT !.position = None]
  BY <1>1, ShiftFacts
<1>3. /\ Nodes' = Nodes /\ lists' = lists /\ late' = late /\ removed' = removed /\ shared' = shared
      /\ removing.position # None
  BY DEF ShiftId, Nodes, addressVars
<1>4. removing \in [position : (1..n) \cup {None}, left : SUBSET Nodes]
  BY <1>1, <1>2, TypesAre DEF ListTypes, Shifting
<1>5. /\ removing'.left = removing.left
      /\ removing' \in [position : (1..n) \cup {None}, left : SUBSET Nodes]
  BY <1>2, <1>4
<1>6. removing' # None
  <2>1. Nodes \subseteq Node /\ 1..n \subseteq Nat
    BY <1>2, NodesAre
  <2>2. removing' \in [position : Nat \cup {None}, left : SUBSET Node]
    BY <1>5, <2>1
  <2> QED
    BY <2>2, NoneAssumption
<1>7. t.array \in DOMAIN arrays /\ \A i \in 1..n : i \in 1..Len(arrays[t.array])
  BY <1>1, TemplatePlaces
<1>8. \A i \in 1..n : arrays'[t.array][i] = At(t, i) \/ (p + 1 \in 1..n /\ arrays'[t.array][i] = At(t, p + 1))
  BY <1>2, <1>7 DEF At
<1>9. ASSUME NEW m \in Nodes, NEW i \in 1..lists[m].len
      PROVE  \/ arrays'[lists[m].array][i] = At(lists[m], i)
             \/ p + 1 \in 1..n /\ arrays'[lists[m].array][i] = At(t, p + 1)
  BY <1>2, ListPlaces DEF At
<1> QED
  BY <1>1, <1>2, <1>3, <1>5, <1>6, <1>8, <1>9

-----------------------------------------------------------------------------
(* Filled *)

LEMMA FilledStep ==
    ASSUME Types, Types', Filled, [Next]_vars
    PROVE  Filled'
<1>1. shared \subseteq Node /\ late \subseteq Node
  BY DEF Types
<1>2. /\ \A i \in 1..template.len : At(template, i) \in shared \ late /\ At(template, i) \in Node
      /\ \A n \in Nodes : \A i \in 1..lists[n].len : At(lists[n], i) \in Node
  BY <1>1 DEF Filled
<1>3. ASSUME NEW n \in Node, AddNode(n)
      PROVE  Filled'
  <2>1. /\ template' = template /\ Nodes' = Nodes \cup {n} /\ shared' = shared \cup {n}
        /\ \A m \in Node : m # n => lists'[m] = lists[m]
    BY <1>3, AddGives
  <2>2. /\ \A i \in 1..template.len : arrays'[template.array][i] = At(template, i)
        /\ \A m \in Nodes : \A i \in 1..lists[m].len :
              arrays'[lists[m].array][i] = At(lists[m], i) \/ arrays'[lists[m].array][i] = n
        /\ \A i \in 1..(lists'[n]).len :
              \/ i \in 1..template.len /\ arrays'[lists'[n].array][i] = At(template, i)
              \/ arrays'[lists'[n].array][i] = n
        /\ \/ late' = late
           \/ late' = late \cup {n} /\ \A i \in 1..template.len : At(template, i) # n
    BY <1>3, AddContents
  <2>3. \A i \in 1..template.len : arrays'[template.array][i] \in shared' \ late'
    BY <1>2, <2>1, <2>2
  <2>4. ASSUME NEW m \in Nodes', NEW i \in 1..(lists'[m]).len
        PROVE  arrays'[lists'[m].array][i] \in Node
    <3>1. CASE m = n
      BY <1>2, <2>2, <3>1
    <3>2. CASE m # n
      BY <1>2, <2>1, <2>2, <3>2, NodesAre
    <3> QED
      BY <3>1, <3>2
  <2> QED
    BY <2>1, <2>3, <2>4 DEF Filled, At
<1>4. ASSUME NEW n \in Node, StartRemove(n)
      PROVE  Filled'
  <2>1. Nodes' = Nodes \ {n} /\ \A m \in Node : m # n => lists'[m] = lists[m]
    BY <1>4, RemoveFacts
  <2>2. UNCHANGED <<arrays, template, shared, late>>
    BY <1>4 DEF StartRemove
  <2> QED
    BY <1>2, <2>1, <2>2, NodesAre DEF Filled, At
<1>5. ASSUME NEW n \in Node, ReplaceList(n)
      PROVE  Filled'
  <2>1. /\ Nodes' = Nodes /\ lists'[n] = template
        /\ \A m \in Node : m # n => lists'[m] = lists[m]
    BY <1>5, ReplaceFacts
  <2>2. UNCHANGED <<arrays, template, shared, late>>
    BY <1>5 DEF ReplaceList, addressVars
  <2> QED
    BY <1>2, <2>1, <2>2, NodesAre DEF Filled, At
<1>6. ASSUME ShiftId
      PROVE  Filled'
  <2>1. /\ Nodes' = Nodes /\ lists' = lists /\ late' = late /\ shared' = shared
        /\ \A i \in 1..template.len : \E j \in 1..template.len : arrays'[template.array][i] = At(template, j)
        /\ \A m \in Nodes : \A i \in 1..lists[m].len :
                 \/ arrays'[lists[m].array][i] = At(lists[m], i)
                 \/ \E j \in 1..template.len : arrays'[lists[m].array][i] = At(template, j)
    BY <1>6, ShiftContents
  <2>2. template'.array = template.array /\ \A i \in 1..template'.len : i \in 1..template.len
    <3>1. template \in Slice /\ template.len \in Nat
      BY TemplatePlaces DEF Types
    <3>2. \A i \in 1..(template.len - 1) : i \in 1..template.len
      BY <3>1
    <3>3. template' = template \/ template' = [template EXCEPT !.len = template.len - 1]
      BY <1>6, ShiftFacts
    <3> QED
      BY <3>1, <3>2, <3>3 DEF Slice
  <2>3. \A i \in 1..template'.len : arrays'[template'.array][i] \in shared' \ late'
    BY <1>2, <2>1, <2>2
  <2>4. \A m \in Nodes' : \A i \in 1..(lists'[m]).len : arrays'[lists'[m].array][i] \in Node
    BY <1>2, <2>1
  <2> QED
    BY <2>3, <2>4 DEF Filled, At
<1>7. ASSUME UNCHANGED <<arrays, template, lists, shared, late>>
      PROVE  Filled'
  BY <1>2, <1>7 DEF Filled, At, Nodes
<1>8. ASSUME FinishRemove
      PROVE  Filled'
  BY <1>7, <1>8 DEF FinishRemove, listVars, addressVars
<1> QED
  BY <1>3, <1>4, <1>5, <1>6, <1>7, <1>8, Steps DEF Still, vars, listVars, addressVars

-----------------------------------------------------------------------------
(* The configured list *)

LEMMA HeldIs ==
    ASSUME Types
    PROVE  /\ removing = None => Held = 1..template.len
           /\ removing # None /\ removing.position = None => Held = 1..template.len
           /\ removing # None /\ removing.position # None =>
                 /\ Held = 1..template.len \ {removing.position}
                 /\ removing.position \in 1..template.len
           /\ Held \subseteq 1..template.len
           /\ \A i \in 1..template.len : i \in Nat /\ i # None
<1>1. template.len \in Nat /\ (removing = None \/ removing \in Shifting)
  BY TemplatePlaces, TypesAre DEF ListTypes
<1>2. \A i \in 1..template.len : i \in Nat /\ i # None
  BY <1>1, NoneAssumption
<1> QED
  BY <1>1, <1>2 DEF Held, Skipped, Shifting

\* While a RemoveNode shifts, the ids but the one it shifts over stay the same.
LEMMA ShiftKeepsConfigured ==
    ASSUME Types, Types', ConfigInv, ShiftId
    PROVE  /\ Configured' = Configured
           /\ \A i, j \in Held' : arrays'[template'.array][i] = arrays'[template'.array][j] => i = j
<1>1. PICK p, t, n : p = removing.position /\ t = template /\ n = template.len
  OBVIOUS
<1>2. /\ removing # None /\ p # None /\ p \in 1..n /\ p \in Nat /\ n \in Nat /\ removing' # None
      /\ \/ /\ p < n /\ p + 1 \in 1..n
            /\ \A a \in DOMAIN arrays : \A i \in 1..Len(arrays[a]) :
                  arrays'[a][i] = IF a = t.array /\ i = p THEN At(t, p + 1) ELSE arrays[a][i]
            /\ template' = template
            /\ removing' = [removing EXCEPT !.position = p + 1]
         \/ /\ p = n /\ arrays' = arrays
            /\ template' = [template EXCEPT !.len = n - 1]
            /\ removing' = [removing EXCEPT !.position = None]
  BY <1>1, ShiftFacts, ShiftContents
<1>3. Held = 1..n \ {p}
  BY <1>1, <1>2, HeldIs
<1>4. removing \in [position : (1..n) \cup {None}, left : SUBSET Nodes]
  BY <1>1, <1>2, TypesAre DEF ListTypes, Shifting
<1>5. t.array \in DOMAIN arrays /\ \A i \in 1..n : i \in 1..Len(arrays[t.array]) /\ i \in Nat
  BY <1>1, TemplatePlaces
<1>6. \A i, j \in Held : At(t, i) = At(t, j) => i = j
  BY <1>1 DEF ConfigInv
<1>7. CASE p < n /\ p + 1 \in 1..n /\ template' = template
  <2>1. /\ removing' = [removing EXCEPT !.position = p + 1]
        /\ \A i \in 1..n : arrays'[t.array][i] = IF i = p THEN At(t, p + 1) ELSE At(t, i)
    BY <1>2, <1>5, <1>7 DEF At
  <2>2. removing'.position = p + 1 /\ p + 1 # None
    BY <1>4, <1>5, <1>7, <2>1, NoneAssumption
  <2>3. Held' = 1..n \ {p + 1}
    BY <1>1, <1>2, <1>7, <2>2, HeldIs DEF Held, Skipped
  <2>4. \A i \in Held' : i \in 1..n /\ i # p + 1
    BY <2>3
  <2>5. p \in Held' /\ p + 1 \in Held
    BY <1>2, <1>3, <1>7, <2>3
  <2>6. \A i \in Held' : i # p => i \in Held
    BY <1>3, <2>4
  <2>7. \A i \in Held : i # p + 1 => i \in Held' /\ i # p
    BY <1>3, <2>3
  <2>8. ASSUME NEW i \in Held', NEW j \in Held', arrays'[t.array][i] = arrays'[t.array][j]
        PROVE  i = j
    BY <1>6, <2>1, <2>4, <2>5, <2>6, <2>8
  <2>9. Configured' = {arrays'[t.array][i] : i \in Held'}
    BY <1>1, <1>7 DEF Configured, At
  <2>10. ASSUME NEW i \in Held'
         PROVE  \E j \in Held : arrays'[t.array][i] = At(t, j)
    BY <2>1, <2>4, <2>5, <2>6
  <2>11. ASSUME NEW i \in Held
         PROVE  \E j \in Held' : arrays'[t.array][j] = At(t, i)
    <3>1. CASE i = p + 1
      BY <1>2, <2>1, <2>5, <3>1
    <3>2. CASE i # p + 1
      BY <1>3, <2>1, <2>7, <3>2
    <3> QED
      BY <3>1, <3>2
  <2>12. Configured = {At(t, i) : i \in Held}
    BY <1>1 DEF Configured
  <2>13. Configured' = Configured
    BY <2>9, <2>10, <2>11, <2>12
  <2> QED
    BY <1>1, <1>7, <2>8, <2>13
<1>8. CASE p = n /\ arrays' = arrays /\ template' = [template EXCEPT !.len = n - 1]
  <2>1. removing' = [removing EXCEPT !.position = None]
    BY <1>2, <1>8
  <2>2. removing'.position = None
    BY <1>4, <2>1
  <2>3. template \in [array : DOMAIN arrays, len : Nat]
    BY SlicesAre DEF Types, IsSlice
  <2>4. template'.array = t.array /\ template'.len = n - 1
    BY <1>1, <1>8, <2>3
  <2>5. Held' = 1..(n - 1)
    <3>1. \A i \in 1..(n - 1) : i # None
      BY <1>2, NoneAssumption
    <3>2. Held' = {i \in 1..(n - 1) : i # None}
      BY <1>2, <2>2, <2>4 DEF Held, Skipped
    <3> QED
      BY <3>1, <3>2
  <2>6. Held' = Held
    BY <1>2, <1>3, <1>8, <2>5
  <2> QED
    BY <1>1, <1>6, <1>8, <2>4, <2>6 DEF Configured, At
<1> QED
  BY <1>1, <1>2, <1>7, <1>8

LEMMA ConfigStep ==
    ASSUME Types, Types', Filled, ConfigInv, [Next]_vars
    PROVE  ConfigInv'
<1>1. /\ \A i, j \in Held : At(template, i) = At(template, j) => i = j
      /\ Configured \cap removed = {}
      /\ Nodes \ late \subseteq Configured
  BY DEF ConfigInv
<1>2. ASSUME NEW n \in Node, AddNode(n)
      PROVE  ConfigInv'
  <2>1. /\ template' = template /\ Nodes' = Nodes \cup {n}
        /\ removing = None /\ removing' = None /\ removed' = removed
    BY <1>2, AddGives
  <2>2. /\ \A i \in 1..template.len : arrays'[template.array][i] = At(template, i)
        /\ \/ late' = late /\ n \in {At(template, i) : i \in 1..template.len}
           \/ late' = late \cup {n}
    BY <1>2, AddContents
  <2>3. Held = 1..template.len /\ Held' = 1..template.len
    BY <2>1, HeldIs DEF Held, Skipped
  <2>4. \A i \in Held : arrays'[template.array][i] = At(template, i)
    BY <2>2, <2>3
  <2>5. Configured' = {arrays'[template.array][i] : i \in Held}
    BY <2>1, <2>3 DEF Configured, At
  <2>6. Configured' = Configured
    BY <2>4, <2>5 DEF Configured
  <2>7. Nodes' \ late' \subseteq Configured
    BY <1>1, <2>1, <2>2, <2>3 DEF Configured
  <2>8. \A i, j \in Held' : arrays'[template'.array][i] = arrays'[template'.array][j] => i = j
    BY <1>1, <2>1, <2>3, <2>4
  <2> QED
    BY <1>1, <2>1, <2>6, <2>7, <2>8 DEF ConfigInv, At
<1>3. ASSUME NEW n \in Node, StartRemove(n)
      PROVE  ConfigInv'
  <2>1. /\ removing = None /\ removing' # None /\ Nodes' = Nodes \ {n} /\ n \in Nodes
        /\ n \in ToSet(Ids(template)) => /\ removing'.position \in 1..template.len
                                         /\ removing'.position # None
                                         /\ At(template, removing'.position) = n
        /\ n \notin ToSet(Ids(template)) => removing'.position = None
    BY <1>3, RemoveFacts
  <2>2. UNCHANGED <<arrays, template, late>> /\ removed' = removed \cup {n}
    BY <1>3 DEF StartRemove
  <2>3. Held = 1..template.len /\ \A i \in 1..template.len : i # None
    BY <2>1, HeldIs
  <2>4. Held' = {i \in 1..template.len : i # removing'.position}
    BY <2>1, <2>2 DEF Held, Skipped
  <2>5. Held' \subseteq Held
    BY <2>3, <2>4
  <2>6. Configured' = {At(template, i) : i \in Held'}
    BY <2>2 DEF Configured, At
  <2>7. ToSet(Ids(template)) = {At(template, i) : i \in 1..template.len}
    BY TemplateIds
  <2>8. \A i \in Held' : At(template, i) # n
    <3>1. CASE n \in ToSet(Ids(template))
      BY <1>1, <2>1, <2>3, <2>4, <3>1
    <3>2. CASE n \notin ToSet(Ids(template))
      BY <2>4, <2>7, <3>2
    <3> QED
      BY <3>1, <3>2
  <2>9. \A i \in Held : At(template, i) # n => i \in Held'
    <3>1. CASE n \in ToSet(Ids(template))
      BY <2>1, <2>3, <2>4, <3>1
    <3>2. CASE n \notin ToSet(Ids(template))
      BY <2>1, <2>3, <2>4, <3>2
    <3> QED
      BY <3>1, <3>2
  <2>10. Configured' \cap removed' = {}
    BY <1>1, <2>2, <2>5, <2>6, <2>8 DEF Configured
  <2>11. Nodes' \ late' \subseteq Configured'
    BY <1>1, <2>1, <2>2, <2>6, <2>9 DEF Configured
  <2>12. \A i, j \in Held' : At(template, i) = At(template, j) => i = j
    BY <1>1, <2>5
  <2> QED
    BY <2>2, <2>10, <2>11, <2>12 DEF ConfigInv, At
<1>4. ASSUME NEW n \in Node, ReplaceList(n)
      PROVE  ConfigInv'
  <2>1. /\ Nodes' = Nodes /\ removing # None /\ removing' # None
        /\ removing.position = None /\ removing'.position = None
    BY <1>4, ReplaceFacts
  <2>2. UNCHANGED <<arrays, template, late, removed>>
    BY <1>4 DEF ReplaceList
  <2>3. Held' = Held
    BY <2>1, <2>2 DEF Held, Skipped
  <2> QED
    BY <1>1, <2>1, <2>2, <2>3 DEF ConfigInv, Configured, At
<1>5. ASSUME ShiftId
      PROVE  ConfigInv'
  <2>1. Nodes' = Nodes /\ late' = late /\ removed' = removed
    BY <1>5, ShiftContents
  <2>2. /\ Configured' = Configured
        /\ \A i, j \in Held' : arrays'[template'.array][i] = arrays'[template'.array][j] => i = j
    BY <1>5, ShiftKeepsConfigured
  <2> QED
    BY <1>1, <2>1, <2>2 DEF ConfigInv, At
<1>6. ASSUME FinishRemove
      PROVE  ConfigInv'
  <2>1. removing # None /\ removing.position = None /\ removing' = None
    BY <1>6 DEF FinishRemove
  <2>2. UNCHANGED <<arrays, template, lists, late, removed>>
    BY <1>6 DEF FinishRemove, listVars
  <2>3. Held = 1..template.len
    BY <2>1, HeldIs
  <2>4. Held' = Held
    BY <2>1, <2>2, <2>3 DEF Held, Skipped
  <2> QED
    BY <1>1, <2>2, <2>4 DEF ConfigInv, Configured, At, Nodes
<1>7. ASSUME UNCHANGED <<arrays, template, lists, late, removed, removing>>
      PROVE  ConfigInv'
  BY <1>1, <1>7 DEF ConfigInv, Configured, Held, Skipped, At, Nodes
<1> QED
  BY <1>2, <1>3, <1>4, <1>5, <1>6, <1>7, Steps DEF Still, vars, listVars

-----------------------------------------------------------------------------
(* The nodes' lists *)

LEMMA ListsStep ==
    ASSUME Types, Types', ListsInv, [Next]_vars
    PROVE  ListsInv'
<1>1. /\ removing = None => \A n \in Nodes \ late : lists[n] = template
      /\ removing # None =>
          /\ removed # {}
          /\ removing.position # None => removing.left = Nodes
          /\ \A n \in Nodes \ removing.left : lists[n] = template
          /\ \A n \in removing.left \ late :
                /\ lists[n].array = template.array
                /\ lists[n].len \in {template.len, template.len + 1}
                /\ removing.position # None => lists[n] = template
  BY DEF ListsInv
<1>2. ASSUME NEW n \in Node, AddNode(n)
      PROVE  ListsInv'
  <2>1. /\ template' = template /\ Nodes' = Nodes \cup {n}
        /\ removing = None /\ removing' = None
        /\ \A m \in Node : m # n => lists'[m] = lists[m]
        /\ Listed(n, lists'[n]) \/ Unlisted(n, lists'[n])
    BY <1>2, AddGives
  <2>2. (late' = late /\ lists'[n] = template) \/ late' = late \cup {n}
    BY <2>1 DEF Listed, Unlisted
  <2>3. \A m \in Nodes' \ late' : lists'[m] = template
    BY <1>1, <2>1, <2>2, NodesAre
  <2> QED
    BY <2>1, <2>3 DEF ListsInv
<1>3. ASSUME NEW n \in Node, StartRemove(n)
      PROVE  ListsInv'
  <2>1. /\ removing = None /\ removing' # None /\ Nodes' = Nodes \ {n} /\ n \in Nodes
        /\ removing'.left = Nodes \ {n}
        /\ \A m \in Node : m # n => lists'[m] = lists[m]
    BY <1>3, RemoveFacts
  <2>2. UNCHANGED <<arrays, template, late>> /\ removed' = removed \cup {n}
    BY <1>3 DEF StartRemove
  <2>3. \A m \in removing'.left \ late : lists'[m] = template
    BY <1>1, <2>1, NodesAre
  <2> QED
    BY <2>1, <2>2, <2>3 DEF ListsInv
<1>4. ASSUME NEW n \in Node, ReplaceList(n)
      PROVE  ListsInv'
  <2>1. /\ removing # None /\ removing.position = None /\ n \in removing.left /\ n \in Nodes
        /\ Nodes' = Nodes /\ lists'[n] = template
        /\ \A m \in Node : m # n => lists'[m] = lists[m]
        /\ removing' # None /\ removing'.position = None /\ removing'.left = removing.left \ {n}
        /\ removing'.left \subseteq Nodes
    BY <1>4, ReplaceFacts
  <2>2. UNCHANGED <<arrays, template, late, removed>>
    BY <1>4 DEF ReplaceList
  <2>3. \A m \in Nodes \ removing'.left : lists'[m] = template
    BY <1>1, <2>1, NodesAre
  <2>4. \A m \in removing'.left \ late : m # n /\ m \in removing.left \ late /\ m \in Node
    BY <2>1, NodesAre
  <2>5. \A m \in removing'.left \ late : /\ lists'[m].array = template.array
                                         /\ lists'[m].len \in {template.len, template.len + 1}
    BY <1>1, <2>1, <2>4
  <2> QED
    BY <1>1, <2>1, <2>2, <2>3, <2>5 DEF ListsInv
<1>5. ASSUME ShiftId
      PROVE  ListsInv'
  <2>1. PICK n : n = template.len
    OBVIOUS
  <2>2. /\ Nodes' = Nodes /\ lists' = lists /\ late' = late /\ removed' = removed
        /\ removing # None /\ removing' # None /\ removing'.left = removing.left
        /\ removing.position # None
    BY <1>5, ShiftContents
  <2>3. n \in Nat /\ (template' = template \/ template' = [template EXCEPT !.len = n - 1])
    BY <1>5, <2>1, ShiftFacts
  <2>4. removing.left = Nodes /\ \A m \in Nodes \ late : lists[m] = template
    BY <1>1, <2>2
  <2>5. CASE template' = template
    BY <1>1, <2>2, <2>4, <2>5 DEF ListsInv
  <2>6. CASE ~(template' = template)
    <3>1. template \in [array : DOMAIN arrays, len : Nat]
      BY SlicesAre DEF Types, IsSlice
    <3>2. /\ template'.array = template.array /\ template'.len = n - 1
          /\ n = n - 1 + 1
      BY <2>1, <2>3, <2>6, <3>1
    <3>3. removing'.position = None
      <4>1. /\ removing' = [removing EXCEPT !.position = None]
        BY <1>5, <2>6, ShiftFacts
      <4>2. removing \in [position : (1..n) \cup {None}, left : SUBSET Nodes]
        BY <2>1, <2>2, TypesAre DEF ListTypes, Shifting
      <4> QED
        BY <4>1, <4>2
    <3>4. \A m \in Nodes \ late : /\ lists[m].array = template'.array
                                  /\ lists[m].len = template'.len + 1
      BY <2>1, <2>4, <3>2
    <3> QED
      BY <1>1, <2>2, <2>4, <3>3, <3>4 DEF ListsInv
  <2> QED
    BY <2>5, <2>6
<1>6. ASSUME FinishRemove
      PROVE  ListsInv'
  <2>1. removing # None /\ removing.left = {} /\ removing' = None
    BY <1>6 DEF FinishRemove
  <2>2. UNCHANGED <<arrays, template, lists, late, removed>>
    BY <1>6 DEF FinishRemove, listVars
  <2> QED
    BY <1>1, <2>1, <2>2 DEF ListsInv, Nodes
<1>7. ASSUME UNCHANGED <<template, lists, late, removed, removing>>
      PROVE  ListsInv'
  BY <1>1, <1>7 DEF ListsInv, Nodes
<1> QED
  BY <1>2, <1>3, <1>4, <1>5, <1>6, <1>7, Steps DEF Still, vars, listVars

-----------------------------------------------------------------------------
(* Nodes that were not configured *)

\* A finite set that is one element
LEMMA OnlyOne ==
    ASSUME NEW S, IsFiniteSet(S), Cardinality(S) <= 1, NEW x \in S
    PROVE  S = {x} /\ Cardinality(S) = 1
<1>1. Cardinality(S) \in Nat
  BY FS_CardinalityType
<1>2. Cardinality(S \ {x}) = Cardinality(S) - 1 /\ IsFiniteSet(S \ {x})
  BY FS_RemoveElement
<1>3. Cardinality(S \ {x}) \in Nat
  BY <1>2, FS_CardinalityType
<1>4. Cardinality(S \ {x}) = 0 /\ Cardinality(S) = 1
  BY <1>1, <1>2, <1>3
<1>5. S \ {x} = {}
  BY <1>2, <1>4, FS_EmptySet
<1> QED
  BY <1>4, <1>5

LEMMA LateStep ==
    ASSUME Types, Types', Filled, ListsInv, LateInv, [Next]_vars
    PROVE  LateInv'
<1>1. /\ IsFiniteSet(late) /\ IsFiniteSet(removed)
      /\ Cardinality(late) <= 1 =>
          \A n \in Nodes : \A i \in 1..lists[n].len : At(lists[n], i) \in (shared \ late) \cup {n}
      /\ Cardinality(late) = 1 /\ removed = {} =>
          \A n \in Nodes \cap late :
              /\ lists[n].len = template.len + 1
              /\ \A i \in 1..template.len : At(lists[n], i) = At(template, i)
              /\ At(lists[n], template.len + 1) = n
  BY DEF LateInv
<1>2. \A i \in 1..template.len : At(template, i) \in shared \ late
  BY DEF Filled
<1>3. ASSUME NEW n \in Node, AddNode(n)
      PROVE  LateInv'
  <2>1. /\ removing = None /\ template' = template /\ removed' = removed
        /\ shared' = shared \cup {n} /\ n \notin Nodes /\ Nodes' = Nodes \cup {n}
        /\ \A m \in Node : m # n => lists'[m] = lists[m]
        /\ Listed(n, lists'[n]) \/ Unlisted(n, lists'[n])
    BY <1>3, AddGives
  <2>2. PICK s : s = lists'[n]
    OBVIOUS
  <2>3. /\ \A i \in 1..template.len : arrays'[template.array][i] = At(template, i)
        /\ \A m \in Nodes : \A i \in 1..lists[m].len :
                     \/ arrays'[lists[m].array][i] = At(lists[m], i)
                     \/ /\ lists[m].array = template.array /\ i = template.len + 1
                        /\ arrays'[lists[m].array][i] = n /\ late' = late \cup {n}
        /\ \A i \in 1..s.len :
              \/ i \in 1..template.len /\ arrays'[s.array][i] = At(template, i)
              \/ arrays'[s.array][i] = n /\ late' = late \cup {n}
        /\ \/ late' = late /\ n \in {At(template, i) : i \in 1..template.len}
           \/ late' = late \cup {n} /\ \A i \in 1..template.len : At(template, i) # n
    BY <1>3, <2>2, AddContents
  <2>4. IsFiniteSet(late') /\ IsFiniteSet(removed')
    BY <1>1, <2>1, <2>3, FS_AddElement
  <2>5. CASE late' = late /\ n \in {At(template, i) : i \in 1..template.len}
    <3>1. n \notin late /\ shared' = shared
      BY <1>2, <2>1, <2>5
    <3>2. arrays' = arrays
      BY <1>2, <2>1, <2>5, <3>1 DEF Listed, Unlisted
    <3>3. \A i \in 1..s.len : i \in 1..template.len /\ arrays'[s.array][i] = At(template, i)
      BY <2>3, <2>5, <3>1
    <3>4. ASSUME Cardinality(late') <= 1, NEW m \in Nodes', NEW i \in 1..(lists'[m]).len
          PROVE  arrays'[lists'[m].array][i] \in (shared' \ late') \cup {m}
      <4>1. CASE m = n
        BY <1>2, <2>2, <2>5, <3>1, <3>3, <4>1
      <4>2. CASE m # n
        BY <1>1, <2>1, <2>5, <3>1, <3>2, <3>4, <4>2, NodesAre DEF At
      <4> QED
        BY <4>1, <4>2
    <3>5. ASSUME Cardinality(late') = 1, removed' = {}, NEW m \in Nodes' \cap late'
          PROVE  /\ lists'[m].len = template'.len + 1
                 /\ \A i \in 1..template'.len : arrays'[lists'[m].array][i] = arrays'[template'.array][i]
                 /\ arrays'[lists'[m].array][template'.len + 1] = m
      <4>1. m # n /\ m \in Nodes \cap late /\ m \in Node
        BY <2>1, <2>5, <3>1, NodesAre
      <4> QED
        BY <1>1, <2>1, <2>5, <3>2, <3>5, <4>1 DEF At
    <3> QED
      BY <2>4, <3>4, <3>5 DEF LateInv, At
  <2>6. CASE late' = late \cup {n} /\ \A i \in 1..template.len : At(template, i) # n
    <3>1. ASSUME Cardinality(late') <= 1
          PROVE  late' = {n} /\ \A m \in Nodes : m # n /\ m \notin late /\ lists[m] = template
      <4>1. late' = {n}
        BY <2>4, <2>6, <3>1, OnlyOne
      <4>2. \A m \in Nodes \ late : lists[m] = template
        BY <2>1 DEF ListsInv
      <4> QED
        BY <2>1, <2>6, <4>1, <4>2
    <3>2. ASSUME Cardinality(late') <= 1, NEW m \in Nodes', NEW i \in 1..(lists'[m]).len
          PROVE  arrays'[lists'[m].array][i] \in (shared' \ late') \cup {m}
      <4>1. \A j \in 1..template.len : At(template, j) \in shared' \ late'
        BY <1>2, <2>1, <2>6
      <4>2. CASE m = n
        BY <2>2, <2>3, <4>1, <4>2
      <4>3. CASE m # n
        <5>1. m \in Nodes /\ lists'[m] = template
          BY <2>1, <3>1, <3>2, <4>3, NodesAre
        <5> QED
          BY <2>3, <3>2, <4>1, <5>1
      <4> QED
        BY <4>2, <4>3
    <3>3. ASSUME Cardinality(late') = 1, removed' = {}, NEW m \in Nodes' \cap late'
          PROVE  /\ lists'[m].len = template'.len + 1
                 /\ \A i \in 1..template'.len : arrays'[lists'[m].array][i] = arrays'[template'.array][i]
                 /\ arrays'[lists'[m].array][template'.len + 1] = m
      <4>1. Cardinality(late') <= 1
        BY <3>3
      <4>2. m = n
        BY <3>1, <3>3, <4>1
      <4>3. Unlisted(n, s)
        <5>1. n \notin ToSet(Ids(template))
          BY <2>6, TemplateIds
        <5> QED
          BY <2>1, <2>2, <5>1 DEF Listed
      <4> QED
        BY <2>1, <2>2, <2>3, <4>2, <4>3 DEF Unlisted
    <3> QED
      BY <2>4, <3>2, <3>3 DEF LateInv, At
  <2> QED
    BY <2>3, <2>5, <2>6
<1>4. ASSUME NEW n \in Node, StartRemove(n)
      PROVE  LateInv'
  <2>1. Nodes' = Nodes \ {n} /\ \A m \in Node : m # n => lists'[m] = lists[m]
    BY <1>4, RemoveFacts
  <2>2. UNCHANGED <<arrays, template, late, shared>> /\ removed' = removed \cup {n}
    BY <1>4 DEF StartRemove
  <2>3. IsFiniteSet(removed')
    BY <1>1, <2>2, FS_AddElement
  <2>4. ASSUME Cardinality(late') <= 1, NEW m \in Nodes', NEW i \in 1..(lists'[m]).len
        PROVE  arrays'[lists'[m].array][i] \in (shared' \ late') \cup {m}
    BY <1>1, <2>1, <2>2, <2>4, NodesAre DEF At
  <2> QED
    BY <1>1, <2>2, <2>3, <2>4 DEF LateInv, At
<1>5. ASSUME removing # None
      PROVE  removed # {}
  BY <1>5 DEF ListsInv
<1>6. ASSUME NEW n \in Node, ReplaceList(n)
      PROVE  LateInv'
  <2>1. /\ removing # None /\ Nodes' = Nodes /\ lists'[n] = template
        /\ \A m \in Node : m # n => lists'[m] = lists[m]
    BY <1>6, ReplaceFacts
  <2>2. UNCHANGED <<arrays, template, late, removed, shared>>
    BY <1>6 DEF ReplaceList, addressVars
  <2>3. ASSUME Cardinality(late') <= 1, NEW m \in Nodes', NEW i \in 1..(lists'[m]).len
        PROVE  arrays'[lists'[m].array][i] \in (shared' \ late') \cup {m}
    <3>1. CASE m = n
      BY <1>2, <2>1, <2>2, <3>1 DEF At
    <3>2. CASE m # n
      BY <1>1, <2>1, <2>2, <2>3, <3>2, NodesAre DEF At
    <3> QED
      BY <3>1, <3>2
  <2> QED
    BY <1>1, <1>5, <2>1, <2>2, <2>3 DEF LateInv, At
<1>7. ASSUME ShiftId
      PROVE  LateInv'
  <2>1. /\ Nodes' = Nodes /\ lists' = lists /\ late' = late /\ removed' = removed /\ shared' = shared
        /\ removing # None
        /\ \A m \in Nodes : \A i \in 1..lists[m].len :
                 \/ arrays'[lists[m].array][i] = At(lists[m], i)
                 \/ \E j \in 1..template.len : arrays'[lists[m].array][i] = At(template, j)
    BY <1>7, ShiftContents
  <2>2. ASSUME Cardinality(late') <= 1, NEW m \in Nodes', NEW i \in 1..(lists'[m]).len
        PROVE  arrays'[lists'[m].array][i] \in (shared' \ late') \cup {m}
    <3>1. m \in Nodes /\ i \in 1..lists[m].len /\ At(lists[m], i) \in (shared \ late) \cup {m}
      BY <1>1, <2>1, <2>2
    <3> QED
      BY <1>2, <2>1, <3>1
  <2> QED
    BY <1>1, <1>5, <2>1, <2>2 DEF LateInv, At
<1>8. ASSUME UNCHANGED <<arrays, template, lists, late, removed, shared>>
      PROVE  LateInv'
  BY <1>1, <1>8 DEF LateInv, At, Nodes
<1>9. ASSUME FinishRemove
      PROVE  LateInv'
  BY <1>8, <1>9 DEF FinishRemove, listVars, addressVars
<1> QED
  BY <1>3, <1>4, <1>6, <1>7, <1>8, <1>9, Steps DEF Still, vars, listVars, addressVars

-----------------------------------------------------------------------------
(* Addresses *)

LEMMA AddressStep ==
    ASSUME Types, Types', Filled, AddressInv, [Next]_vars
    PROVE  AddressInv'
<1>1. /\ \A n \in Nodes : /\ n \in shared
                          /\ mapped /\ addresses[n] # None =>
                                (shared \ late) \cup {n} \subseteq addresses[n]
      /\ addresses \in [Node -> (SUBSET Node) \cup {None}]
  BY DEF AddressInv, Types
<1>2. ASSUME NEW n \in Node, AddNode(n)
      PROVE  AddressInv'
  <2>1. shared' = shared \cup {n} /\ Nodes' = Nodes \cup {n}
    BY <1>2, AddGives
  <2>2. /\ mapped' = mapped /\ (mapped => addresses'[n] = None)
        /\ \A m \in Nodes : m # n => addresses'[m] = addresses[m]
    BY <1>1, <1>2, NodesAre DEF AddNode
  <2>3. \/ late' = late /\ n \in {At(template, i) : i \in 1..template.len}
        \/ late' = late \cup {n}
    BY <1>2, AddContents
  <2>4. shared' \ late' \subseteq shared \ late
    <3>1. \A i \in 1..template.len : At(template, i) \in shared \ late
      BY DEF Filled
    <3> QED
      BY <2>1, <2>3, <3>1
  <2> QED
    BY <1>1, <2>1, <2>2, <2>4 DEF AddressInv
<1>3. ASSUME NEW n \in Node, StartRemove(n)
      PROVE  AddressInv'
  <2>1. Nodes' = Nodes \ {n}
    BY <1>3, RemoveFacts
  <2>2. /\ UNCHANGED <<mapped, shared, late>>
        /\ \A m \in Nodes : m # n => addresses'[m] = addresses[m]
    BY <1>1, <1>3, NodesAre DEF StartRemove
  <2> QED
    BY <1>1, <2>1, <2>2 DEF AddressInv
<1>4. ASSUME Start
      PROVE  AddressInv'
  <2>1. /\ UNCHANGED <<mapped, shared, late, lists>>
        /\ mapped => \A m \in Nodes : addresses'[m] = shared
    BY <1>4, NodesAre DEF Start, CopyAddresses, listVars
  <2> QED
    BY <1>1, <2>1 DEF AddressInv, Nodes
<1>5. ASSUME UNCHANGED <<lists, mapped, shared, addresses, late>>
      PROVE  AddressInv'
  BY <1>1, <1>5 DEF AddressInv, Nodes
<1>6. ASSUME NEW n \in Node, ReplaceList(n)
      PROVE  AddressInv'
  <2>1. Nodes' = Nodes
    BY <1>6, ReplaceFacts
  <2> QED
    BY <1>1, <1>6, <2>1 DEF AddressInv, ReplaceList, addressVars
<1>7. ASSUME ShiftId \/ FinishRemove \/ Stop
      PROVE  AddressInv'
  BY <1>5, <1>7 DEF ShiftId, FinishRemove, Stop, listVars, addressVars
<1>8. ASSUME UNCHANGED vars
      PROVE  AddressInv'
  BY <1>5, <1>8 DEF vars, listVars, addressVars
<1> QED
  BY <1>2, <1>3, <1>4, <1>6, <1>7, <1>8 DEF Next

-----------------------------------------------------------------------------
(* Stop *)

LEMMA RunStep ==
    ASSUME RunInv, [Next]_vars
    PROVE  RunInv'
<1>1. ASSUME NEW n \in Node, StartRemove(n)
      PROVE  RunInv'
  BY <1>1 DEF StartRemove, TakeOut, RunInv
<1>2. ASSUME Stop
      PROVE  RunInv'
  BY <1>2 DEF Stop, RunInv
<1>3. ASSUME UNCHANGED <<stopped, panicked, halted>>
      PROVE  RunInv'
  BY <1>3 DEF RunInv
<1>4. ASSUME NEW n \in Node, AddNode(n) \/ ReplaceList(n)
      PROVE  RunInv'
  BY <1>3, <1>4 DEF AddNode, ReplaceList, runVars
<1>5. ASSUME ShiftId \/ FinishRemove \/ Start \/ UNCHANGED vars
      PROVE  RunInv'
  BY <1>3, <1>5 DEF ShiftId, FinishRemove, Start, vars, runVars
<1> QED
  BY <1>1, <1>2, <1>4, <1>5 DEF Next

-----------------------------------------------------------------------------
(* The lists that nodes have had *)

Injective(u) == u \in Seq(Node) /\ IsInjective(u)
\* Two lists with the same nodes, but for one that one of them lacks
Neighbours(u, v) ==
    /\ Injective(u) /\ Injective(v)
    /\ \/ u = v
       \/ ToSet(u) \subseteq ToSet(v) /\ Len(v) = Len(u) + 1
       \/ ToSet(v) \subseteq ToSet(u) /\ Len(u) = Len(v) + 1
Coherent(had, u, v) ==
    \A a \in had : \/ a[2] = u /\ a[1] \in ToSet(u)
                   \/ a[2] = v /\ a[1] \in ToSet(v)

SettledTypes == settled \subseteq Node \X Seq(Node)

\* Up to the second change, nodes have had no more than two lists, which are neighbours.
TwoLists == \E u, v \in Seq(Node) : Neighbours(u, v) /\ Coherent(settled, u, v)

\* Before the first change, they are the list of clusterConfig;
BeforeChanges == late = {} /\ removed = {} => Coherent(settled, Ids(template), Ids(template))

\* after it they are this list and the one that is longer by the node removed,
Longer == IF removing # None /\ removing.position # None THEN template.len - 1 ELSE template.len
AfterRemoval ==
    late = {} /\ Cardinality(removed) = 1 =>
        \E u \in Seq(Node) :
            /\ Injective(u)
            /\ Configured \subseteq ToSet(u)
            /\ Len(u) = 1 + Longer
            /\ Coherent(settled, u, IF removing = None THEN Ids(template) ELSE u)
\* or the one that is longer by the node added.
AfterAddition ==
    removed = {} => \A n \in late : late = {n} => Coherent(settled, Ids(template), Append(Ids(template), n))

SettledInv == SettledTypes /\ TwoLists /\ BeforeChanges /\ AfterRemoval /\ AfterAddition

LEMMA NodeSeq ==
    ASSUME NEW s \in Seq(Id), \A i \in 1..Len(s) : s[i] \in Node
    PROVE  s \in Seq(Node)
<1>1. PICK n \in Nat : n = Len(s) /\ s \in [1..n -> Id]
  BY LenProperties, SeqDef
<1>2. s \in [1..n -> Node]
  BY <1>1
<1> QED
  BY <1>2, SeqDef

LEMMA TemplateInjective ==
    ASSUME Types, Filled, ConfigInv, removing = None \/ removing.position = None
    PROVE  /\ Injective(Ids(template)) /\ ToSet(Ids(template)) = Configured
           /\ ToSet(Ids(template)) \cap late = {} /\ Len(Ids(template)) = template.len
           /\ Held = 1..template.len
<1>1. PICK ids : ids = Ids(template)
  OBVIOUS
<1>2. /\ Len(ids) = template.len /\ ids \in Seq(Id) /\ DOMAIN ids = 1..template.len
      /\ \A i \in 1..template.len : ids[i] = At(template, i)
      /\ ToSet(ids) = {At(template, i) : i \in 1..template.len}
  BY <1>1, TemplateIds
<1>3. Held = 1..template.len
  BY HeldIs
<1>4. \A i \in 1..template.len : At(template, i) \in shared \ late /\ At(template, i) \in Node
  BY DEF Filled, Types
<1>5. ids \in Seq(Node)
  BY <1>2, <1>4, NodeSeq
<1>6. \A i, j \in 1..template.len : At(template, i) = At(template, j) => i = j
  BY <1>3 DEF ConfigInv
<1>7. IsInjective(ids)
  BY <1>2, <1>6 DEF IsInjective
<1>8. ToSet(ids) = Configured
  BY <1>2, <1>3 DEF Configured
<1>9. ToSet(ids) \cap late = {}
  BY <1>2, <1>4
<1> QED
  BY <1>1, <1>2, <1>3, <1>5, <1>7, <1>8, <1>9 DEF Injective

LEMMA WithOneMore ==
    ASSUME NEW u, Injective(u), NEW n \in Node, n \notin ToSet(u), NEW v, v = Append(u, n)
    PROVE  /\ Neighbours(u, v) /\ n \in ToSet(v)
           /\ ToSet(u) \subseteq ToSet(v)
           /\ u \in Seq(Node) /\ v \in Seq(Node)
<1>1. PICK k : k = Len(u)
  OBVIOUS
<1>2. k \in Nat /\ u \in Seq(Node) /\ k = Len(u) /\ DOMAIN u = 1..k
  BY <1>1, LenProperties DEF Injective
<1>3. /\ v \in Seq(Node) /\ Len(v) = k + 1 /\ v[k + 1] = n /\ \A i \in 1..k : v[i] = u[i]
      /\ DOMAIN v = 1..(k + 1)
  <2>1. v \in Seq(Node) /\ Len(v) = k + 1 /\ v[k + 1] = n /\ \A i \in 1..k : v[i] = u[i]
    BY <1>2, AppendProperties
  <2> QED
    BY <2>1, LenProperties
<1>4. \A i \in 1..(k + 1) : i \in 1..k \/ i = k + 1
  BY <1>2
<1>5. \A i \in 1..k : u[i] # n
  BY <1>2 DEF ToSet
<1>6. \A i, j \in 1..k : u[i] = u[j] => i = j
  BY <1>2 DEF Injective, IsInjective
<1>7. ASSUME NEW i \in 1..(k + 1), NEW j \in 1..(k + 1), v[i] = v[j]
      PROVE  i = j
  BY <1>3, <1>4, <1>5, <1>6, <1>7
<1>8. Injective(v)
  BY <1>3, <1>7 DEF Injective, IsInjective
<1>9. \A i \in 1..k : i \in 1..(k + 1)
  BY <1>2
<1>10. ToSet(u) \subseteq ToSet(v)
  BY <1>2, <1>3, <1>9 DEF ToSet
<1>11. n \in ToSet(v)
  <2>1. k + 1 \in 1..(k + 1)
    BY <1>2
  <2> QED
    BY <1>3, <2>1 DEF ToSet
<1>12. Neighbours(u, v)
  BY <1>2, <1>3, <1>8, <1>10 DEF Neighbours
<1> QED
  BY <1>2, <1>3, <1>10, <1>11, <1>12

LEMMA FewChanges ==
    ASSUME NEW A, NEW B, IsFiniteSet(A), IsFiniteSet(B), Cardinality(A) + Cardinality(B) <= 1
    PROVE  \/ A = {} /\ B = {}
           \/ A = {} /\ Cardinality(B) = 1 /\ B # {}
           \/ B = {} /\ \E x : A = {x}
<1>1. Cardinality(A) \in Nat /\ Cardinality(B) \in Nat
  BY FS_CardinalityType
<1>2. (Cardinality(A) = 0 <=> A = {}) /\ (Cardinality(B) = 0 <=> B = {})
  BY FS_EmptySet
<1>3. CASE A = {}
  BY <1>1, <1>2, <1>3
<1>4. CASE A # {}
  <2>1. PICK x : x \in A
    BY <1>4
  <2>2. Cardinality(A) <= 1 /\ Cardinality(B) = 0
    BY <1>1, <1>2, <1>4
  <2>3. A = {x}
    BY <2>1, <2>2, OnlyOne
  <2> QED
    BY <1>2, <2>2, <2>3
<1> QED
  BY <1>3, <1>4

\* From the second change on nothing is remembered.
LEMMA Forgotten ==
    ASSUME IsFiniteSet(late'), IsFiniteSet(removed'),
           ~(Cardinality(late') + Cardinality(removed') <= 1), settled' = {}
    PROVE  SettledInv'
<1>1. Cardinality({}) = 0
  BY FS_EmptySet
<1>2. ~(late' = {} /\ removed' = {})
  BY <1>1
<1>3. ~(late' = {} /\ Cardinality(removed') = 1)
  BY <1>1
<1>4. \A n : ~(removed' = {} /\ late' = {n})
  <2>1. \A n : Cardinality({n}) = 1
    BY FS_Singleton
  <2> QED
    BY <1>1, <2>1
<1>5. TwoLists'
  <2>1. <<>> \in Seq(Node) /\ IsInjective(<<>>)
    BY DEF IsInjective
  <2>2. Neighbours(<<>>, <<>>)
    BY <2>1 DEF Neighbours, Injective
  <2>3. Coherent({}, <<>>, <<>>)
    BY DEF Coherent
  <2> QED
    BY <2>1, <2>2, <2>3 DEF TwoLists
<1> QED
  BY <1>2, <1>3, <1>4, <1>5
  DEF SettledInv, SettledTypes, BeforeChanges, AfterRemoval, AfterAddition

LEMMA AddIds ==
    ASSUME Types, Types', NEW n \in Node, AddNode(n)
    PROVE  LET ids == Ids(template)
           IN  /\ Ids(template)' = ids
               /\ \/ late' = late /\ n \in ToSet(ids) /\ Ids(lists[n])' = ids
                  \/ late' = late \cup {n} /\ n \notin ToSet(ids) /\ Ids(lists[n])' = Append(ids, n)
<1>1. PICK ids, s, t, k : ids = Ids(template) /\ s = lists'[n] /\ t = template /\ k = template.len
  OBVIOUS
<1>2. /\ k \in Nat /\ Len(ids) = k /\ ids \in Seq(Id) /\ DOMAIN ids = 1..k
      /\ \A i \in 1..k : ids[i] = At(t, i)
      /\ ToSet(ids) = {At(t, i) : i \in 1..k}
  BY <1>1, TemplateIds
<1>3. /\ template' = t /\ KeepsArrays /\ IsSlice(arrays', s)
      /\ Listed(n, s) \/ Unlisted(n, s)
  BY <1>1, AddGives
<1>4. \A i \in 1..k : arrays'[t.array][i] = At(t, i)
  BY <1>1, AddContents
<1>5. PICK as : as = arrays' /\ as \in Arrays
  BY <1>3 DEF KeepsArrays
<1>6. IsSlice(as, t)
  BY <1>1, <1>3, <1>5, SlicesAreNext DEF Types
<1>7. SubSeq(as[t.array], 1, t.len) = ids
  <2>1. SubSeq(as[t.array], 1, t.len) = [i \in 1..t.len |-> as[t.array][i]]
    BY <1>5, <1>6, IdsAre
  <2>2. SubSeq(arrays[t.array], 1, t.len) = [i \in 1..t.len |-> arrays[t.array][i]]
    <3>1. arrays \in Arrays /\ template \in Slice
      BY TypesAre DEF ListTypes
    <3>2. IsSlice(arrays, t)
      BY <1>1, <3>1, SlicesAre
    <3> QED
      BY <3>1, <3>2, IdsAre
  <2> QED
    BY <1>1, <1>4, <1>5, <2>1, <2>2 DEF Ids, At
<1>8. Ids(template)' = ids
  BY <1>3, <1>5, <1>7 DEF Ids
<1>9. CASE Listed(n, s)
  <2>1. n \in ToSet(ids) /\ s = t /\ late' = late
    BY <1>1, <1>9 DEF Listed
  <2>2. Ids(lists[n])' = SubSeq(as[s.array], 1, s.len)
    BY <1>1, <1>5 DEF Ids
  <2> QED
    BY <1>1, <1>7, <1>8, <2>1, <2>2
<1>10. CASE Unlisted(n, s)
  <2>1. /\ s.len = k + 1 /\ n \notin ToSet(ids) /\ late' = late \cup {n}
        /\ \A i \in 1..k : as[s.array][i] = At(t, i)
        /\ as[s.array][k + 1] = n
    BY <1>1, <1>5, <1>10 DEF Unlisted
  <2>2. PICK v : v = SubSeq(as[s.array], 1, s.len)
    OBVIOUS
  <2>3. v \in Seq(Id) /\ Len(v) = k + 1 /\ \A i \in 1..(k + 1) : v[i] = as[s.array][i]
    BY <1>3, <1>5, <2>1, <2>2, IdsAre
  <2>4. PICK w : w = Append(ids, n)
    OBVIOUS
  <2>5. n \in Id
    BY DEF Id
  <2>6. w \in Seq(Id) /\ Len(w) = k + 1 /\ w[k + 1] = n /\ \A i \in 1..k : w[i] = ids[i]
    BY <1>2, <2>4, <2>5, AppendProperties
  <2>7. \A i \in 1..(k + 1) : i \in 1..k \/ i = k + 1
    BY <1>2
  <2>8. \A i \in 1..(k + 1) : v[i] = w[i]
    BY <1>2, <2>1, <2>3, <2>6, <2>7
  <2>9. v = w
    BY <2>3, <2>6, <2>8, SeqEqual
  <2> QED
    BY <1>1, <1>5, <1>8, <2>1, <2>2, <2>4, <2>9 DEF Ids
<1> QED
  BY <1>1, <1>3, <1>8, <1>9, <1>10

LEMMA AddSettled ==
    ASSUME Types, Types', Filled, ConfigInv, LateInv', SettledInv, NEW n \in Node, AddNode(n)
    PROVE  SettledInv'
<1>1. PICK ids : ids = Ids(template)
  OBVIOUS
<1>2. removing = None /\ removing' = None /\ template' = template /\ removed' = removed
  BY AddGives
<1>3. /\ Injective(ids) /\ ToSet(ids) = Configured /\ ToSet(ids) \cap late = {}
      /\ Len(ids) = template.len /\ Held = 1..template.len
  BY <1>1, <1>2, TemplateInjective
<1>4. PICK new : new = Ids(lists[n])'
  OBVIOUS
<1>5. /\ Ids(template)' = ids
      /\ \/ late' = late /\ n \in ToSet(ids) /\ new = ids
         \/ late' = late \cup {n} /\ n \notin ToSet(ids) /\ new = Append(ids, n)
  BY <1>1, <1>4, AddIds
<1>6. IsFiniteSet(late') /\ IsFiniteSet(removed')
  BY DEF LateInv
<1>7. settled' = IF Cardinality(late') + Cardinality(removed') <= 1 THEN settled \cup {<<n, new>>} ELSE {}
  BY <1>4 DEF AddNode, Settle, Changes
<1>8. CASE ~(Cardinality(late') + Cardinality(removed') <= 1)
  BY <1>6, <1>7, <1>8, Forgotten
<1>9. CASE Cardinality(late') + Cardinality(removed') <= 1
  <2>1. settled' = settled \cup {<<n, new>>}
    BY <1>7, <1>9
  <2>2. \/ late' = {} /\ removed' = {}
        \/ late' = {} /\ Cardinality(removed') = 1 /\ removed' # {}
        \/ removed' = {} /\ \E x : late' = {x}
    BY <1>6, <1>9, FewChanges
  <2>3. ids \in Seq(Node) /\ new \in Seq(Node)
    <3>1. ids \in Seq(Node)
      BY <1>3 DEF Injective
    <3>2. n \notin ToSet(ids) => Append(ids, n) \in Seq(Node)
      BY <3>1
    <3> QED
      BY <1>5, <3>1, <3>2
  <2>4. SettledTypes'
    BY <2>1, <2>3 DEF SettledInv, SettledTypes
  <2>5. CASE late' = {} /\ removed' = {}
    <3>1. late = {} /\ removed = {} /\ n \in ToSet(ids) /\ new = ids
      BY <1>2, <1>5, <2>5
    <3>2. Coherent(settled, ids, ids)
      BY <1>1, <3>1 DEF SettledInv, BeforeChanges
    <3>3. Coherent(settled', ids, ids)
      BY <2>1, <3>1, <3>2 DEF Coherent
    <3>4. TwoLists'
      BY <1>3, <2>3, <3>3 DEF TwoLists, Neighbours
    <3>5. BeforeChanges'
      BY <1>5, <3>3 DEF BeforeChanges
    <3>6. Cardinality(removed') # 1
      BY <2>5, FS_EmptySet
    <3> QED
      BY <2>4, <2>5, <3>4, <3>5, <3>6 DEF SettledInv, AfterRemoval, AfterAddition
  <2>6. CASE late' = {} /\ Cardinality(removed') = 1 /\ removed' # {}
    <3>1. late = {} /\ Cardinality(removed) = 1 /\ n \in ToSet(ids) /\ new = ids
      BY <1>2, <1>5, <2>6
    <3>2. PICK u \in Seq(Node) : /\ Injective(u)
                                 /\ Configured \subseteq ToSet(u)
                                 /\ Len(u) = 1 + template.len
                                 /\ Coherent(settled, u, ids)
      BY <1>1, <1>2, <3>1 DEF SettledInv, AfterRemoval, Longer
    <3>3. Coherent(settled', u, ids)
      BY <2>1, <3>1, <3>2 DEF Coherent
    <3>4. Len(u) = Len(ids) + 1
      BY <1>3, <3>2, TemplatePlaces
    <3>5. TwoLists'
      <4>1. Neighbours(u, ids)
        BY <1>3, <3>2, <3>4 DEF Neighbours
      <4> QED
        BY <2>3, <3>2, <3>3, <4>1 DEF TwoLists
    <3>6. Configured' = Configured
      <4>1. Types' /\ ToSet(Ids(template))' = {arrays'[template.array][i] : i \in 1..template.len}
        <5>1. \A i \in 1..template.len : arrays'[template.array][i] = At(template, i)
          BY AddContents
        <5>2. ToSet(ids) = {At(template, i) : i \in 1..template.len}
          BY <1>1, TemplateIds
        <5> QED
          BY <1>5, <5>1, <5>2
      <4>2. Held' = 1..template.len
        BY <1>2 DEF Held, Skipped
      <4>3. Configured' = {arrays'[template.array][i] : i \in 1..template.len}
        BY <1>2, <4>2 DEF Configured, At
      <4> QED
        BY <1>1, <1>3, <1>5, <4>1, <4>3
    <3>7. AfterRemoval'
      <4>1. Len(u) = 1 + Longer'
        BY <1>2, <3>2 DEF Longer
      <4>2. Coherent(settled', u, IF removing' = None THEN Ids(template)' ELSE u)
        BY <1>2, <1>5, <3>3
      <4> QED
        BY <3>2, <3>6, <4>1, <4>2 DEF AfterRemoval
    <3> QED
      BY <2>4, <2>6, <3>5, <3>7 DEF SettledInv, BeforeChanges, AfterAddition
  <2>7. CASE removed' = {} /\ \E x : late' = {x}
    <3>1. PICK x : late' = {x}
      BY <2>7
    <3>2. PICK v : v = Append(ids, x)
      OBVIOUS
    <3>3. x \in Node /\ x \notin ToSet(ids) /\ Coherent(settled, ids, v)
      <4>1. x \in Node
        BY <3>1 DEF Types
      <4>2. CASE late' = late
        BY <1>1, <1>2, <1>3, <2>7, <3>1, <3>2, <4>1, <4>2 DEF SettledInv, AfterAddition
      <4>3. CASE late' = late \cup {n} /\ n \notin ToSet(ids)
        <5>1. x = n /\ (late = {} \/ late = {n})
          BY <3>1, <4>3
        <5>2. CASE late = {}
          <6>1. Coherent(settled, ids, ids)
            BY <1>1, <1>2, <2>7, <5>2 DEF SettledInv, BeforeChanges
          <6> QED
            BY <4>1, <4>3, <5>1, <6>1 DEF Coherent
        <5>3. CASE late = {n}
          BY <1>1, <1>2, <2>7, <3>2, <4>1, <4>3, <5>1, <5>3 DEF SettledInv, AfterAddition
        <5> QED
          BY <5>1, <5>2, <5>3
      <4> QED
        BY <1>5, <4>2, <4>3
    <3>4. Neighbours(ids, v) /\ x \in ToSet(v) /\ v \in Seq(Node)
      BY <1>3, <3>2, <3>3, WithOneMore
    <3>5. (new = ids /\ n \in ToSet(ids)) \/ (new = v /\ n = x)
      BY <1>5, <3>1, <3>2
    <3>6. Coherent(settled', ids, v)
      BY <2>1, <3>3, <3>4, <3>5 DEF Coherent
    <3>7. TwoLists'
      BY <2>3, <3>4, <3>6 DEF TwoLists
    <3>8. AfterAddition'
      <4>1. \A k \in late' : k = x
        BY <3>1
      <4> QED
        BY <1>5, <3>2, <3>6, <4>1 DEF AfterAddition
    <3>9. late' # {}
      BY <3>1
    <3> QED
      BY <2>4, <3>7, <3>8, <3>9 DEF SettledInv, BeforeChanges, AfterRemoval
  <2> QED
    BY <2>2, <2>5, <2>6, <2>7
<1> QED
  BY <1>8, <1>9

LEMMA RemoveSettled ==
    ASSUME Types, Types', Filled, ConfigInv, ConfigInv', LateInv, SettledInv,
           NEW n \in Node, StartRemove(n)
    PROVE  SettledInv'
<1>1. PICK ids, l : ids = Ids(template) /\ l = template.len
  OBVIOUS
<1>2. /\ removing = None /\ removing' # None /\ n \in Nodes
      /\ n \in ToSet(ids) => /\ removing'.position \in 1..l
                             /\ removing'.position # None
  BY <1>1, RemoveFacts
<1>3. UNCHANGED <<arrays, template, late, settled>> /\ removed' = removed \cup {n}
  BY DEF StartRemove
<1>4. Injective(ids) /\ ToSet(ids) = Configured /\ Len(ids) = l /\ l \in Nat /\ Held = 1..l
  BY <1>1, <1>2, TemplateInjective, TemplatePlaces
<1>5. SettledTypes' /\ TwoLists'
  BY <1>3 DEF SettledInv, SettledTypes, TwoLists
<1>6. removed' # {}
  BY <1>3
<1>7. AfterRemoval'
  <2>1. SUFFICES ASSUME late = {}, Cardinality(removed') = 1
                 PROVE  \E u \in Seq(Node) :
                          /\ Injective(u)
                          /\ Configured' \subseteq ToSet(u)
                          /\ Len(u) = 1 + Longer'
                          /\ Coherent(settled, u, u)
    BY <1>2, <1>3 DEF AfterRemoval
  <2>2. n \in ToSet(ids) /\ n \notin removed
    BY <1>2, <1>4, <2>1 DEF ConfigInv
  <2>3. removed = {}
    <3>1. IsFiniteSet(removed')
      BY <1>3, FS_AddElement DEF LateInv
    <3>2. removed' = {n}
      <4>1. Cardinality(removed') <= 1 /\ n \in removed'
        BY <1>3, <2>1
      <4> QED
        BY <3>1, <4>1, OnlyOne
    <3> QED
      BY <1>3, <2>2, <3>2
  <2>4. Coherent(settled, ids, ids)
    BY <1>1, <2>1, <2>3 DEF SettledInv, BeforeChanges
  <2>5. Longer' = l - 1 /\ Len(ids) = 1 + (l - 1)
    BY <1>1, <1>2, <1>3, <1>4, <2>2 DEF Longer
  <2>6. Configured' \subseteq ToSet(ids)
    <3>1. Held' \subseteq 1..l
      BY <1>1, <1>3 DEF Held
    <3> QED
      BY <1>1, <1>3, <1>4, <3>1 DEF Configured, At
  <2> QED
    BY <1>4, <2>4, <2>5, <2>6 DEF Injective
<1> QED
  BY <1>5, <1>6, <1>7 DEF SettledInv, BeforeChanges, AfterAddition

\* Nothing of this changes but the places of the configured list.
LEMMA ShiftSettled ==
    ASSUME Types, Types', ConfigInv, ListsInv, SettledInv, ShiftId
    PROVE  SettledInv'
<1>1. /\ late' = late /\ removed' = removed /\ removing # None /\ removing' # None
      /\ removing.position # None
  BY ShiftContents
<1>2. settled' = settled /\ removed # {}
  BY <1>1 DEF ShiftId, ListsInv
<1>3. Configured' = Configured
  BY ShiftKeepsConfigured
<1>4. PICK l : l = template.len
  OBVIOUS
<1>5. /\ l \in Nat
      /\ \/ template' = template /\ removing' = [removing EXCEPT !.position = removing.position + 1]
            /\ removing.position + 1 \in 1..l
         \/ template' = [template EXCEPT !.len = l - 1] /\ removing' = [removing EXCEPT !.position = None]
  BY <1>4, ShiftFacts
<1>6. Longer = l - 1
  BY <1>1, <1>4 DEF Longer
<1>7. Longer' = l - 1
  <2>1. removing \in [position : (1..l) \cup {None}, left : SUBSET Nodes]
    BY <1>1, <1>4, TypesAre DEF ListTypes, Shifting
  <2>2. CASE template' = template /\ removing' = [removing EXCEPT !.position = removing.position + 1]
             /\ removing.position + 1 \in 1..l
    <3>1. removing'.position = removing.position + 1
      BY <2>1, <2>2
    <3>2. removing'.position # None
      BY <1>4, <2>2, <3>1, HeldIs
    <3> QED
      BY <1>1, <1>4, <2>2, <3>2 DEF Longer
  <2>3. CASE template' = [template EXCEPT !.len = l - 1] /\ removing' = [removing EXCEPT !.position = None]
    <3>1. removing'.position = None
      BY <2>1, <2>3
    <3>2. template \in [array : DOMAIN arrays, len : Nat]
      BY SlicesAre DEF Types, IsSlice
    <3>3. template'.len = l - 1
      BY <2>3, <3>2
    <3> QED
      BY <3>1, <3>3 DEF Longer
  <2> QED
    BY <1>5, <2>2, <2>3
<1>8. AfterRemoval'
  <2>1. SUFFICES ASSUME late = {}, Cardinality(removed) = 1
                 PROVE  \E u \in Seq(Node) :
                          /\ Injective(u)
                          /\ Configured' \subseteq ToSet(u)
                          /\ Len(u) = 1 + Longer'
                          /\ Coherent(settled, u, u)
    BY <1>1, <1>2 DEF AfterRemoval
  <2>2. PICK u \in Seq(Node) :
                          /\ Injective(u)
                          /\ Configured \subseteq ToSet(u)
                          /\ Len(u) = 1 + Longer
                          /\ Coherent(settled, u, u)
    BY <1>1, <2>1 DEF SettledInv, AfterRemoval
  <2> QED
    BY <1>3, <1>6, <1>7, <2>2
<1>9. SettledTypes' /\ TwoLists'
  BY <1>2 DEF SettledInv, SettledTypes, TwoLists
<1> QED
  BY <1>1, <1>2, <1>8, <1>9 DEF SettledInv, BeforeChanges, AfterAddition

LEMMA ReplaceSettled ==
    ASSUME Types, ListsInv, SettledInv, NEW n \in Node, ReplaceList(n)
    PROVE  SettledInv'
<1>1. /\ removing # None /\ removing' # None
      /\ removing.position = None /\ removing'.position = None
  BY ReplaceFacts
<1>2. UNCHANGED <<arrays, template, late, removed, settled>>
  BY DEF ReplaceList
<1>3. removed # {}
  BY <1>1 DEF ListsInv
<1>4. Held' = Held
  BY <1>1, <1>2 DEF Held, Skipped
<1>5. Configured' = Configured
  BY <1>2, <1>4 DEF Configured, At
<1>6. Longer' = Longer
  BY <1>1, <1>2 DEF Longer
<1>7. AfterRemoval'
  <2>1. SUFFICES ASSUME late = {}, Cardinality(removed) = 1
                 PROVE  \E u \in Seq(Node) :
                          /\ Injective(u)
                          /\ Configured' \subseteq ToSet(u)
                          /\ Len(u) = 1 + Longer'
                          /\ Coherent(settled, u, u)
    BY <1>1, <1>2 DEF AfterRemoval
  <2> QED
    BY <1>1, <1>5, <1>6, <2>1 DEF SettledInv, AfterRemoval
<1>8. SettledTypes' /\ TwoLists'
  BY <1>2 DEF SettledInv, SettledTypes, TwoLists
<1> QED
  BY <1>2, <1>3, <1>7, <1>8 DEF SettledInv, BeforeChanges, AfterAddition

LEMMA FinishSettled ==
    ASSUME Types, Types', Filled, ConfigInv, ListsInv, LateInv, SettledInv, FinishRemove
    PROVE  SettledInv'
<1>1. removing # None /\ removing.position = None /\ removing.left = {} /\ removing' = None
  BY DEF FinishRemove
<1>2. UNCHANGED <<arrays, template, lists, late, removed>>
  BY DEF FinishRemove, listVars
<1>3. removed # {} /\ \A n \in Nodes : lists[n] = template
  BY <1>1 DEF ListsInv
<1>4. PICK ids : ids = Ids(template)
  OBVIOUS
<1>5. /\ Injective(ids) /\ ToSet(ids) = Configured /\ Len(ids) = template.len
      /\ Held = 1..template.len /\ ids \in Seq(Node)
  BY <1>1, <1>4, TemplateInjective DEF Injective
<1>6. PICK new : new = {<<n, ids>> : n \in Nodes}
  OBVIOUS
<1>7. settled' = IF Cardinality(late') + Cardinality(removed') <= 1 THEN settled \cup new ELSE {}
  <2>1. settled' = IF Cardinality(late') + Cardinality(removed') <= 1
                     THEN settled \cup {<<n, Ids(lists[n])>> : n \in Nodes} ELSE {}
    BY DEF FinishRemove, Settle, Changes
  <2>2. \A n \in Nodes : Ids(lists[n]) = ids
    BY <1>3, <1>4
  <2> QED
    BY <1>6, <2>1, <2>2
<1>8. IsFiniteSet(late') /\ IsFiniteSet(removed')
  BY <1>2 DEF LateInv
<1>9. CASE ~(Cardinality(late') + Cardinality(removed') <= 1)
  BY <1>7, <1>8, <1>9, Forgotten
<1>10. CASE Cardinality(late') + Cardinality(removed') <= 1
  <2>1. settled' = settled \cup new
    BY <1>7, <1>10
  <2>2. late = {} /\ Cardinality(removed) = 1
    BY <1>2, <1>3, <1>8, <1>10, FewChanges
  <2>3. PICK u \in Seq(Node) : /\ Injective(u)
                               /\ Configured \subseteq ToSet(u)
                               /\ Len(u) = 1 + template.len
                               /\ Coherent(settled, u, u)
    BY <1>1, <2>2 DEF SettledInv, AfterRemoval, Longer
  <2>4. \A a \in new : a[2] = ids /\ a[1] \in ToSet(ids)
    BY <1>5, <1>6, <2>2 DEF ConfigInv
  <2>5. Coherent(settled', u, ids)
    BY <2>1, <2>3, <2>4 DEF Coherent
  <2>6. Neighbours(u, ids)
    <3>1. Len(u) = Len(ids) + 1
      BY <1>5, <2>3, TemplatePlaces
    <3> QED
      BY <1>5, <2>3, <3>1 DEF Neighbours
  <2>7. TwoLists'
    BY <1>5, <2>3, <2>5, <2>6 DEF TwoLists
  <2>8. Ids(template)' = ids
    BY <1>2, <1>4 DEF Ids
  <2>9. Configured' = Configured
    <3>1. Held' = 1..template.len
      BY <1>1, <1>2 DEF Held, Skipped
    <3> QED
      BY <1>2, <1>5, <3>1 DEF Configured, At
  <2>10. AfterRemoval'
    <3>1. Longer' = template.len
      BY <1>1, <1>2 DEF Longer
    <3>2. Coherent(settled', u, IF removing' = None THEN Ids(template)' ELSE u)
      BY <1>1, <2>5, <2>8
    <3> QED
      BY <2>3, <2>9, <3>1, <3>2 DEF AfterRemoval
  <2>11. SettledTypes'
    BY <1>5, <1>6, <2>1, NodesAre DEF SettledInv, SettledTypes
  <2> QED
    BY <1>2, <1>3, <2>7, <2>10, <2>11 DEF SettledInv, BeforeChanges, AfterAddition
<1> QED
  BY <1>9, <1>10

LEMMA SettledStep ==
    ASSUME Types, Types', Filled, ConfigInv, ConfigInv', ListsInv, LateInv, LateInv', SettledInv, [Next]_vars
    PROVE  SettledInv'
<1>1. ASSUME UNCHANGED <<arrays, template, lists, late, removed, removing, settled>>
      PROVE  SettledInv'
  <2>1. Ids(template)' = Ids(template) /\ Configured' = Configured /\ Longer' = Longer
    BY <1>1 DEF Ids, Configured, Held, Skipped, Longer, At
  <2> QED
    BY <1>1, <2>1
    DEF SettledInv, SettledTypes, TwoLists, BeforeChanges, AfterRemoval, AfterAddition
<1>2. ASSUME UNCHANGED vars
      PROVE  SettledInv'
  BY <1>1, <1>2 DEF vars, listVars
<1>3. ASSUME Still
      PROVE  SettledInv'
  BY <1>1, <1>3 DEF Still
<1> QED
  BY <1>2, <1>3, AddSettled, RemoveSettled, ShiftSettled, ReplaceSettled, FinishSettled, Steps

-----------------------------------------------------------------------------
(* The invariant holds *)

ClusterInv ==
    Types /\ Filled /\ ConfigInv /\ ListsInv /\ LateInv /\ AddressInv /\ RunInv /\ SettledInv

LEMMA InvStep ==
    ASSUME ClusterInv, [Next]_vars
    PROVE  ClusterInv'
<1>1. Types'
  BY TypesStep DEF ClusterInv
<1>2. Filled'
  BY <1>1, FilledStep DEF ClusterInv
<1>3. ConfigInv'
  BY <1>1, ConfigStep DEF ClusterInv
<1>4. ListsInv'
  BY <1>1, ListsStep DEF ClusterInv
<1>5. LateInv'
  BY <1>1, LateStep DEF ClusterInv
<1>6. AddressInv'
  BY <1>1, AddressStep DEF ClusterInv
<1>7. RunInv'
  BY RunStep DEF ClusterInv
<1>8. SettledInv'
  BY <1>1, <1>3, <1>5, SettledStep DEF ClusterInv
<1> QED
  BY <1>1, <1>2, <1>3, <1>4, <1>5, <1>6, <1>7, <1>8 DEF ClusterInv

LEMMA InvInit ==
    ASSUME Init
    PROVE  ClusterInv
<1>1. Types /\ Nodes = {}
  BY InitTypes
<1>2. PICK ids \in Seq(Node) :
          /\ IsInjective(ids) /\ template.len = Len(ids)
          /\ \A i \in 1..Len(ids) : At(template, i) = ids[i]
          /\ shared = ToSet(ids)
  BY InitTypes
<1>3. /\ removing = None /\ late = {} /\ removed = {} /\ settled = {} /\ stopped = {}
      /\ panicked = FALSE
  BY DEF Init
<1>4. DOMAIN ids = 1..Len(ids)
  BY <1>2, LenProperties
<1>5. Held = 1..Len(ids)
  BY <1>1, <1>2, <1>3, HeldIs
<1>6. Filled
  BY <1>1, <1>2, <1>3, <1>4 DEF Filled, ToSet
<1>7. ConfigInv
  BY <1>1, <1>2, <1>3, <1>4, <1>5 DEF ConfigInv, IsInjective
<1>8. ListsInv
  BY <1>1, <1>3 DEF ListsInv
<1>9. LateInv
  BY <1>1, <1>3, FS_EmptySet DEF LateInv
<1>10. AddressInv
  BY <1>1 DEF AddressInv
<1>11. RunInv
  BY <1>3 DEF RunInv
<1>12. SettledInv
  <2>1. SettledTypes /\ BeforeChanges /\ AfterAddition
    BY <1>3 DEF SettledTypes, BeforeChanges, AfterAddition, Coherent
  <2>2. AfterRemoval
    BY <1>3, FS_EmptySet DEF AfterRemoval
  <2>3. TwoLists
    <3>1. Neighbours(ids, ids)
      BY <1>2 DEF Neighbours, Injective
    <3> QED
      BY <1>2, <1>3, <3>1 DEF TwoLists, Coherent
  <2> QED
    BY <2>1, <2>2, <2>3 DEF SettledInv
<1> QED
  BY <1>1, <1>6, <1>7, <1>8, <1>9, <1>10, <1>11, <1>12 DEF ClusterInv

LEMMA InvAlways == Spec => []ClusterInv
<1>1. Init => ClusterInv
  BY InvInit
<1>2. ClusterInv /\ [Next]_vars => ClusterInv'
  BY InvStep
<1> QED
  BY <1>1, <1>2, PTL DEF Spec

-----------------------------------------------------------------------------
(* What it says *)

\* The types hold: a list stays inside the array it is kept in, although appends and the shift of
\* RemoveNode write to arrays that others share, and the position of a RemoveNode stays on the
\* list (cluster.go:82-91, 135-151).
THEOREM ClusterTypesAlways == Spec => []TypeOK
<1>1. ASSUME ClusterInv
      PROVE  TypeOK
  <2>1. Types /\ settled \subseteq Node \X Seq(Node)
    BY <1>1 DEF ClusterInv, SettledInv, SettledTypes
  <2>2. /\ \A n \in Node : lists[n] = None \/ lists[n] \in Slice
        /\ \A n \in Node : addresses[n] = None \/ addresses[n] \subseteq Node
    BY <2>1 DEF Types, Id
  <2> QED
    BY <2>1, <2>2 DEF Types, TypeOK, Id
<1>2. ClusterInv => TypeOK
  BY <1>1
<1> QED
  BY <1>2, InvAlways, PTL

\* No sequence of additions, removals and starts closes the channels of a node twice, unless
\* the cluster is used after its Stop (cluster.go:128, 214).
THEOREM OneStopUnlessHalted == Spec => []PanicOnlyOnceHalted
<1>1. ClusterInv => PanicOnlyOnceHalted
  BY DEF ClusterInv, RunInv, PanicOnlyOnceHalted
<1> QED
  BY <1>1, InvAlways, PTL

\* Between operations, unless a node was added that was not configured, every node has the list of
\* clusterConfig, which has each node once and none that was removed, after any number of removals
\* that shift ids in the array the nodes read (cluster.go:82-91, 135-151).
THEOREM ListsAreTheConfiguredOne == Spec => []ListsNameMembers
<1>1. ASSUME ClusterInv, late = {}, removing = None
      PROVE  /\ IsInjective(Ids(template))
             /\ Nodes \subseteq ToSet(Ids(template))
             /\ ToSet(Ids(template)) \cap removed = {}
             /\ \A n \in Nodes : Ids(lists[n]) = Ids(template)
  <2>1. Injective(Ids(template)) /\ ToSet(Ids(template)) = Configured
    BY <1>1, TemplateInjective DEF ClusterInv
  <2>2. Nodes \subseteq Configured /\ Configured \cap removed = {}
    BY <1>1 DEF ClusterInv, ConfigInv
  <2>3. \A n \in Nodes : lists[n] = template
    BY <1>1 DEF ClusterInv, ListsInv
  <2> QED
    BY <2>1, <2>2, <2>3 DEF Injective
<1>2. ClusterInv => ListsNameMembers
  BY <1>1 DEF ListsNameMembers
<1> QED
  BY <1>2, InvAlways, PTL

\* Where clusterConfig has a map of addresses, a node that runs has one for every node on its list,
\* whether it still reads that map or the copy Start made for it (cluster.go:76-80, 165-171).
THEOREM EveryAddressIsKnown == Spec => []AddressesKnown
<1>1. ASSUME ClusterInv, mapped, Cardinality(late) <= 1, NEW n \in started \cap Nodes
      PROVE  ToSet(Ids(lists[n])) \subseteq IF addresses[n] = None THEN shared ELSE addresses[n]
  <2>1. ToSet(Ids(lists[n])) = {At(lists[n], i) : i \in 1..lists[n].len}
    BY <1>1, NodeIds DEF ClusterInv
  <2>2. \A i \in 1..lists[n].len : At(lists[n], i) \in (shared \ late) \cup {n}
    BY <1>1 DEF ClusterInv, LateInv
  <2>3. n \in shared /\ (addresses[n] # None => (shared \ late) \cup {n} \subseteq addresses[n])
    BY <1>1 DEF ClusterInv, AddressInv
  <2> QED
    BY <2>1, <2>2, <2>3
<1>2. ClusterInv => AddressesKnown
  BY <1>1 DEF AddressesKnown
<1> QED
  BY <1>2, InvAlways, PTL

-----------------------------------------------------------------------------
(* Majorities *)

LEMMA TwoHalves ==
    ASSUME NEW a \in Nat, NEW b \in Nat, NEW m \in Nat, NEW p \in Nat, NEW q \in Nat,
           a + b >= 2 * m - 1, p + q <= m - 2
    PROVE  ~(1 + p >= a \div 2 + 1 /\ 1 + q >= b \div 2 + 1)
<1>1. a <= 2 * (a \div 2) + 1 /\ b <= 2 * (b \div 2) + 1 /\ a \div 2 \in Nat /\ b \div 2 \in Nat
  OBVIOUS
<1> QED
  BY <1>1

\* Of m voters, two of which are the candidates, there are no two majorities.
LEMMA NoTwoMajorities ==
    ASSUME NEW X, IsFiniteSet(X), NEW P \in SUBSET X, NEW Q \in SUBSET X, P \cap Q = {},
           NEW x \in X, NEW y \in X, x # y, {x, y} \cap (P \cup Q) = {},
           NEW a \in Nat, NEW b \in Nat, a + b >= 2 * Cardinality(X) - 1
    PROVE  ~(1 + Cardinality(P) >= a \div 2 + 1 /\ 1 + Cardinality(Q) >= b \div 2 + 1)
<1>1. IsFiniteSet(P) /\ IsFiniteSet(Q)
  BY FS_Subset
<1>2. PICK p \in Nat, q \in Nat, m \in Nat : p = Cardinality(P) /\ q = Cardinality(Q) /\ m = Cardinality(X)
  BY <1>1, FS_CardinalityType
<1>3. IsFiniteSet(P \cup Q) /\ Cardinality(P \cup Q) = p + q
  <2>1. Cardinality(P \cap Q) = 0
    BY FS_EmptySet
  <2>2. Cardinality(P \cup Q) = p + q - 0 /\ IsFiniteSet(P \cup Q)
    BY <1>1, <1>2, <2>1, FS_Union
  <2> QED
    BY <1>2, <2>2
<1>4. IsFiniteSet(X \ {x}) /\ Cardinality(X \ {x}) = m - 1
  BY <1>2, FS_RemoveElement
<1>5. IsFiniteSet((X \ {x}) \ {y}) /\ Cardinality((X \ {x}) \ {y}) = m - 1 - 1
  <2>1. PICK Y : Y = X \ {x}
    OBVIOUS
  <2>2. IsFiniteSet(Y) /\ Cardinality(Y) = m - 1 /\ y \in Y
    BY <1>4, <2>1
  <2>3. IsFiniteSet(Y \ {y}) /\ Cardinality(Y \ {y}) = Cardinality(Y) - 1
    BY <2>2, FS_RemoveElement
  <2> QED
    BY <2>1, <2>2, <2>3
<1>6. P \cup Q \in SUBSET ((X \ {x}) \ {y})
  OBVIOUS
<1>7. p + q <= m - 2
  <2>1. Cardinality(P \cup Q) <= Cardinality((X \ {x}) \ {y})
    BY <1>5, <1>6, FS_Subset
  <2> QED
    BY <1>2, <1>3, <1>5, <2>1
<1>8. a + b >= 2 * m - 1
  BY <1>2
<1> QED
  BY <1>2, <1>7, <1>8, TwoHalves

\* Two lists that agree on what both of them have
Agree(u, v) == \A i \in DOMAIN u \cap DOMAIN v : u[i] = v[i]
\* The places of the candidates
Candidates(u, n, m, x, y) == \A i \in {x, y} \cap DOMAIN u : u[i] \in {n, m}

LEMMA PlacesOverlap ==
    ASSUME NEW u \in Seq(Id), NEW v \in Seq(Id), NEW k \in Nat,
           Len(u) <= k, Len(v) <= k, Len(u) + Len(v) >= 2 * k - 1, Agree(u, v),
           NEW n, NEW m, NEW x \in 1..k, NEW y \in 1..k, x # y,
           Candidates(u, n, m, x, y), Candidates(v, n, m, x, y)
    PROVE  Overlapping(n, u, m, v)
<1>1. PICK rest : rest = Node \ {n, m}
  OBVIOUS
<1>2. SUFFICES ASSUME NEW voters \in SUBSET rest
               PROVE  ~(Wins(u, voters) /\ Wins(v, rest \ voters))
  BY <1>1 DEF Overlapping
<1>3. PICK a \in Nat, b \in Nat : /\ a = Len(u) /\ b = Len(v)
                                  /\ DOMAIN u = 1..a /\ DOMAIN v = 1..b
  BY LenProperties
<1>4. a <= k /\ b <= k /\ a + b >= 2 * k - 1
  BY <1>3
<1>5. PICK P, Q : P = {i \in DOMAIN u : u[i] \in voters} /\ Q = {i \in DOMAIN v : v[i] \in rest \ voters}
  OBVIOUS
<1>6. P \in SUBSET (1..k) /\ Q \in SUBSET (1..k)
  <2>1. (\A i \in 1..a : i \in 1..k) /\ (\A i \in 1..b : i \in 1..k)
    BY <1>4, Within
  <2> QED
    BY <1>3, <1>5, <2>1
<1>7. P \cap Q = {}
  BY <1>5 DEF Agree
<1>8. {x, y} \cap (P \cup Q) = {}
  BY <1>1, <1>5 DEF Candidates
<1>9. IsFiniteSet(1..k) /\ Cardinality(1..k) = k
  BY FS_Interval
<1>10. ~(1 + Cardinality(P) >= a \div 2 + 1 /\ 1 + Cardinality(Q) >= b \div 2 + 1)
  BY <1>4, <1>6, <1>7, <1>8, <1>9, NoTwoMajorities
<1> QED
  BY <1>3, <1>5, <1>10 DEF Wins

LEMMA ConfiguredPlace ==
    ASSUME ClusterInv, NEW n \in Nodes \ late
    PROVE  \E x \in 1..template.len : At(template, x) = n
<1>1. n \in Configured
  BY DEF ClusterInv, ConfigInv
<1> QED
  BY <1>1 DEF Configured, Held

\* The list of a node is in the array of the configured one, and no more than one id longer.
Near(n) ==
    /\ lists[n].array = template.array
    /\ lists[n].len \in {template.len, template.len + 1}

LEMMA NearOverlap ==
    ASSUME ClusterInv, NEW n \in Nodes \ late, NEW m \in Nodes \ late, n # m, Near(n), Near(m)
    PROVE  Overlapping(n, Ids(lists[n]), m, Ids(lists[m]))
<1>1. PICK x \in 1..template.len, y \in 1..template.len : At(template, x) = n /\ At(template, y) = m
  BY ConfiguredPlace
<1>2. x # y
  BY <1>1
<1>3. PICK u, v, a, b, l : /\ u = Ids(lists[n]) /\ v = Ids(lists[m])
                           /\ a = lists[n].len /\ b = lists[m].len /\ l = template.len
  OBVIOUS
<1>4. /\ a \in Nat /\ b \in Nat /\ u \in Seq(Id) /\ v \in Seq(Id)
      /\ Len(u) = a /\ Len(v) = b /\ DOMAIN u = 1..a /\ DOMAIN v = 1..b
      /\ \A i \in 1..a : u[i] = At(lists[n], i)
      /\ \A i \in 1..b : v[i] = At(lists[m], i)
  BY <1>3, NodeIds DEF ClusterInv
<1>5. /\ \A i \in 1..a : u[i] = At(template, i)
      /\ \A i \in 1..b : v[i] = At(template, i)
  BY <1>4 DEF Near, At
<1>6. l \in Nat /\ a \in {l, l + 1} /\ b \in {l, l + 1}
  BY <1>3, TemplatePlaces DEF Near, ClusterInv
<1>7. Agree(u, v) /\ Candidates(u, n, m, x, y) /\ Candidates(v, n, m, x, y)
  BY <1>1, <1>4, <1>5 DEF Agree, Candidates
<1>8. PICK k \in Nat : /\ a <= k /\ b <= k /\ a + b >= 2 * k - 1
                       /\ x \in 1..k /\ y \in 1..k
  <2>1. CASE a = l /\ b = l
    BY <1>3, <1>6, <2>1
  <2>2. CASE a = l + 1 \/ b = l + 1
    <3>1. /\ l + 1 \in Nat /\ a <= l + 1 /\ b <= l + 1 /\ a + b >= 2 * (l + 1) - 1
          /\ x \in 1..(l + 1) /\ y \in 1..(l + 1)
      BY <1>3, <1>6, <2>2
    <3> QED
      BY <3>1
  <2> QED
    BY <1>6, <2>1, <2>2
<1>9. Overlapping(n, u, m, v)
  BY <1>2, <1>4, <1>7, <1>8, PlacesOverlap
<1> QED
  BY <1>3, <1>9

LEMMA OverlapSymmetric ==
    ASSUME NEW n, NEW u, NEW m, NEW v, Overlapping(n, u, m, v)
    PROVE  Overlapping(m, v, n, u)
<1>1. CASE n = m
  BY <1>1 DEF Overlapping
<1>2. CASE n # m
  <2>1. PICK rest : rest = Node \ {n, m}
    OBVIOUS
  <2>2. \A voters \in SUBSET rest : ~(Wins(u, voters) /\ Wins(v, rest \ voters))
    BY <1>2, <2>1 DEF Overlapping
  <2>3. ASSUME NEW voters \in SUBSET rest
        PROVE  ~(Wins(v, voters) /\ Wins(u, rest \ voters))
    <3>1. rest \ voters \in SUBSET rest /\ rest \ (rest \ voters) = voters
      OBVIOUS
    <3> QED
      BY <2>2, <3>1
  <2>4. rest = Node \ {m, n}
    BY <2>1
  <2> QED
    BY <2>3, <2>4 DEF Overlapping
<1> QED
  BY <1>1, <1>2

\* The node that was added without being configured is at the end of its own list.
LEMMA LateOverlap ==
    ASSUME ClusterInv, Cardinality(late) = 1, removed = {},
           NEW n \in Nodes \cap late, NEW m \in Nodes \ late
    PROVE  Overlapping(n, Ids(lists[n]), m, Ids(lists[m]))
<1>1. PICK y \in 1..template.len : At(template, y) = m
  BY ConfiguredPlace
<1>2. PICK u, v, l : u = Ids(lists[n]) /\ v = Ids(lists[m]) /\ l = template.len
  OBVIOUS
<1>3. /\ lists[n].len = l + 1
      /\ \A i \in 1..l : At(lists[n], i) = At(template, i)
      /\ At(lists[n], l + 1) = n
  BY <1>2 DEF ClusterInv, LateInv
<1>4. lists[m] = template
  BY DEF ClusterInv, ListsInv
<1>5. /\ l \in Nat /\ u \in Seq(Id) /\ v \in Seq(Id)
      /\ Len(u) = l + 1 /\ Len(v) = l /\ DOMAIN u = 1..(l + 1) /\ DOMAIN v = 1..l
      /\ \A i \in 1..(l + 1) : u[i] = At(lists[n], i)
      /\ \A i \in 1..l : v[i] = At(template, i)
  BY <1>2, <1>3, <1>4, NodeIds, TemplatePlaces DEF ClusterInv
<1>6. /\ y \in 1..(l + 1) /\ l + 1 \in 1..(l + 1) /\ l + 1 \in Nat /\ y # l + 1
      /\ \A i \in 1..l : i \in 1..(l + 1) /\ i # l + 1
  BY <1>2, <1>5
<1>7. /\ \A i \in 1..l : u[i] = At(template, i)
      /\ u[l + 1] = n
  BY <1>3, <1>5, <1>6
<1>8. Agree(u, v)
  BY <1>5, <1>7 DEF Agree
<1>9. Candidates(u, n, m, l + 1, y) /\ Candidates(v, n, m, l + 1, y)
  BY <1>1, <1>2, <1>5, <1>6, <1>7 DEF Candidates
<1>10. Len(u) <= l + 1 /\ Len(v) <= l + 1 /\ Len(u) + Len(v) >= 2 * (l + 1) - 1
  BY <1>5
<1>11. PICK k : k = l + 1
  OBVIOUS
<1>12. Overlapping(n, u, m, v)
  BY <1>5, <1>6, <1>8, <1>9, <1>10, <1>11, PlacesOverlap
<1> QED
  BY <1>2, <1>12

\* Two nodes never win an election at the same moment with voters that have no node in common: not
\* while a RemoveNode shifts the ids under them and replaces their lists one by one, and not with one
\* node added that the others do not know, in a cluster of any size (cluster.go:82-91, 135-151,
\* raft.go:278-283, 864-866).
THEOREM MajoritiesAlwaysOverlap == Spec => []MajoritiesOverlap
<1>1. ASSUME ClusterInv, late = {} \/ (Cardinality(late) = 1 /\ removed = {}),
             NEW n \in Nodes, NEW m \in Nodes
      PROVE  Overlapping(n, Ids(lists[n]), m, Ids(lists[m]))
  <2>1. CASE n = m
    BY <2>1 DEF Overlapping
  <2>2. CASE n # m /\ late = {}
    <3>1. \A k \in Nodes : Near(k)
      BY <1>1, <2>2 DEF ClusterInv, ListsInv, Near
    <3> QED
      BY <1>1, <2>2, <3>1, NearOverlap
  <2>3. CASE n # m /\ Cardinality(late) = 1 /\ removed = {}
    <3>1. \A k \in Nodes \ late : Near(k)
      BY <1>1, <2>3 DEF ClusterInv, ListsInv, Near
    <3>2. ~(n \in late /\ m \in late)
      <4>1. IsFiniteSet(late) /\ Cardinality(late) <= 1
        BY <1>1, <2>3 DEF ClusterInv, LateInv
      <4>2. n \in late => late = {n}
        BY <4>1, OnlyOne
      <4> QED
        BY <2>3, <4>2
    <3>3. CASE n \notin late /\ m \notin late
      BY <1>1, <2>3, <3>1, <3>3, NearOverlap
    <3>4. CASE n \in late /\ m \notin late
      BY <1>1, <2>3, <3>4, LateOverlap
    <3>5. CASE n \notin late /\ m \in late
      BY <1>1, <2>3, <3>5, LateOverlap, OverlapSymmetric
    <3> QED
      BY <3>2, <3>3, <3>4, <3>5
  <2> QED
    BY <1>1, <2>1, <2>2, <2>3
<1>2. ClusterInv => MajoritiesOverlap
  BY <1>1 DEF MajoritiesOverlap
<1> QED
  BY <1>2, InvAlways, PTL

-----------------------------------------------------------------------------
(* Majorities of different times *)

\* The places of some nodes on a list that has each node once
LEMMA PlacesOf ==
    ASSUME NEW u, Injective(u), NEW V
    PROVE  /\ IsFiniteSet(ToSet(u) \cap V)
           /\ Cardinality({i \in DOMAIN u : u[i] \in V}) = Cardinality(ToSet(u) \cap V)
<1>1. PICK k : k = Len(u)
  OBVIOUS
<1>2. k \in Nat /\ DOMAIN u = 1..k
  BY <1>1, LenProperties DEF Injective
<1>3. PICK I, S, f : /\ I = {i \in DOMAIN u : u[i] \in V} /\ S = ToSet(u) \cap V
                     /\ f = [i \in I |-> u[i]]
  OBVIOUS
<1>4. IsFiniteSet(I)
  <2>1. IsFiniteSet(1..k)
    BY <1>2, FS_Interval
  <2>2. I \in SUBSET (1..k)
    BY <1>2, <1>3
  <2> QED
    BY <2>1, <2>2, FS_Subset
<1>5. f \in [I -> S] /\ \A i \in I : f[i] = u[i]
  BY <1>3 DEF ToSet
<1>6. \A i, j \in I : f[i] = f[j] => i = j
  BY <1>3, <1>5 DEF Injective, IsInjective
<1>7. \A s \in S : \E i \in I : f[i] = s
  BY <1>3, <1>5 DEF ToSet
<1>8. f \in Bijection(I, S)
  BY <1>5, <1>6, <1>7 DEF Bijection, Injection, Surjection, IsInjective
<1>9. ExistsBijection(I, S)
  BY <1>8 DEF ExistsBijection
<1> QED
  BY <1>3, <1>4, <1>9, FS_Bijection

LEMMA ListSize ==
    ASSUME NEW u, Injective(u)
    PROVE  IsFiniteSet(ToSet(u)) /\ Cardinality(ToSet(u)) = Len(u) /\ Len(u) \in Nat /\ u \in Seq(Node)
<1>1. PICK k : k = Len(u)
  OBVIOUS
<1>2. u \in Seq(Node) /\ k \in Nat /\ DOMAIN u = 1..k
  BY <1>1, LenProperties DEF Injective
<1>3. {i \in DOMAIN u : u[i] \in Node} = 1..k /\ ToSet(u) \cap Node = ToSet(u)
  BY <1>1, <1>2, ElementOfSeq DEF ToSet
<1>4. Cardinality(1..k) = k
  BY <1>2, FS_Interval
<1> QED
  BY <1>1, <1>2, <1>3, <1>4, PlacesOf

LEMMA IdsOverlap ==
    ASSUME NEW u, NEW v, Injective(u), Injective(v), NEW X, IsFiniteSet(X),
           ToSet(u) \subseteq X, ToSet(v) \subseteq X,
           Len(u) + Len(v) >= 2 * Cardinality(X) - 1, NEW n \in X, NEW m \in X
    PROVE  Overlapping(n, u, m, v)
<1>1. CASE n = m
  BY <1>1 DEF Overlapping
<1>2. CASE n # m
  <2>1. PICK rest : rest = Node \ {n, m}
    OBVIOUS
  <2>2. ASSUME NEW voters \in SUBSET rest
        PROVE  ~(Wins(u, voters) /\ Wins(v, rest \ voters))
    <3>1. PICK P, Q : P = ToSet(u) \cap voters /\ Q = ToSet(v) \cap (rest \ voters)
      OBVIOUS
    <3>2. /\ Cardinality({i \in DOMAIN u : u[i] \in voters}) = Cardinality(P)
          /\ Cardinality({i \in DOMAIN v : v[i] \in rest \ voters}) = Cardinality(Q)
      BY <3>1, PlacesOf
    <3>3. P \in SUBSET X /\ Q \in SUBSET X /\ P \cap Q = {} /\ {n, m} \cap (P \cup Q) = {}
      BY <2>1, <3>1
    <3>4. PICK a \in Nat, b \in Nat : a = Len(u) /\ b = Len(v)
      BY ListSize
    <3>5. ~(1 + Cardinality(P) >= a \div 2 + 1 /\ 1 + Cardinality(Q) >= b \div 2 + 1)
      BY <1>2, <3>3, <3>4, NoTwoMajorities
    <3> QED
      BY <3>2, <3>4, <3>5 DEF Wins
  <2> QED
    BY <2>1, <2>2 DEF Overlapping
<1> QED
  BY <1>1, <1>2

LEMMA HadOverlap ==
    ASSUME NEW u, NEW v, Injective(u), Injective(v), ToSet(u) \subseteq ToSet(v),
           Len(v) = Len(u) \/ Len(v) = Len(u) + 1, NEW had, Coherent(had, u, v),
           NEW a \in had, NEW b \in had
    PROVE  Overlapping(a[1], a[2], b[1], b[2])
<1>1. PICK k, l : k = Cardinality(ToSet(u)) /\ l = Cardinality(ToSet(v))
  OBVIOUS
<1>2. /\ IsFiniteSet(ToSet(u)) /\ k = Len(u) /\ k \in Nat
      /\ IsFiniteSet(ToSet(v)) /\ l = Len(v) /\ l \in Nat
  BY <1>1, ListSize
<1>3. k + k >= 2 * k - 1 /\ l + l >= 2 * l - 1 /\ k + l >= 2 * l - 1 /\ l + k >= 2 * l - 1
  BY <1>2
<1>4. /\ (a[2] = u /\ a[1] \in ToSet(u)) \/ (a[2] = v /\ a[1] \in ToSet(v))
      /\ (b[2] = u /\ b[1] \in ToSet(u)) \/ (b[2] = v /\ b[1] \in ToSet(v))
  BY DEF Coherent
<1>5. CASE a[2] = u /\ a[1] \in ToSet(u) /\ b[2] = u /\ b[1] \in ToSet(u)
  BY <1>1, <1>2, <1>3, <1>5, IdsOverlap
<1>6. CASE a[2] = v /\ a[1] \in ToSet(v) /\ b[2] = v /\ b[1] \in ToSet(v)
  BY <1>1, <1>2, <1>3, <1>6, IdsOverlap
<1>7. CASE a[2] = u /\ a[1] \in ToSet(u) /\ b[2] = v /\ b[1] \in ToSet(v)
  BY <1>1, <1>2, <1>3, <1>7, IdsOverlap
<1>8. CASE a[2] = v /\ a[1] \in ToSet(v) /\ b[2] = u /\ b[1] \in ToSet(u)
  BY <1>1, <1>2, <1>3, <1>8, IdsOverlap
<1> QED
  BY <1>4, <1>5, <1>6, <1>7, <1>8

\* Up to the second change, no two nodes win with voters that have no node in common even if each
\* counts on a list of another time: the lists that nodes have had are two, of which one lacks one
\* node of the other (cluster.go:149-151).
THEOREM MajoritiesAlwaysOverlapOverTime == Spec => []MajoritiesOverlapOverTime
<1>1. ASSUME ClusterInv, NEW a \in settled, NEW b \in settled
      PROVE  Overlapping(a[1], a[2], b[1], b[2])
  <2>1. PICK u, v : Neighbours(u, v) /\ Coherent(settled, u, v)
    BY <1>1 DEF ClusterInv, SettledInv, TwoLists
  <2>2. Coherent(settled, v, u)
    BY <2>1 DEF Coherent
  <2>3. Injective(u) /\ Injective(v)
    BY <2>1 DEF Neighbours
  <2>4. CASE u = v
    BY <1>1, <2>1, <2>3, <2>4, HadOverlap
  <2>5. CASE ToSet(u) \subseteq ToSet(v) /\ Len(v) = Len(u) + 1
    BY <1>1, <2>1, <2>3, <2>5, HadOverlap
  <2>6. CASE ToSet(v) \subseteq ToSet(u) /\ Len(u) = Len(v) + 1
    BY <1>1, <2>2, <2>3, <2>6, HadOverlap
  <2> QED
    BY <2>1, <2>4, <2>5, <2>6 DEF Neighbours
<1>2. ClusterInv => MajoritiesOverlapOverTime
  BY <1>1 DEF MajoritiesOverlapOverTime
<1> QED
  BY <1>2, InvAlways, PTL

=============================================================================
