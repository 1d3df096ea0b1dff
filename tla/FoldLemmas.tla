----------------------------- MODULE FoldLemmas ------------------------------
(***************************************************************************)
(* Lemmas about Min, Max and FoldLeft of the community modules.            *)
(*                                                                         *)
(* FoldLeft is defined by recursion over the sets of positions of the      *)
(* sequence.  The operation folded is given here as a function, step:       *)
(* step[value so far][element] is the next,  since no operator can be a *)
(* parameter of a fact the provers are to use.                             *)
(***************************************************************************)
EXTENDS Integers, SequencesExt, SequenceTheorems, WellFoundedInduction, TLAPS

\* Min, a CHOOSE, of a set of numbers that is not empty
LEMMA LeastMember ==
    ASSUME NEW S, S \subseteq Nat, S # {}
    PROVE  /\ Min(S) \in S
           /\ \A y \in S : Min(S) <= y
<1>1. \E x \in S : \A y \in S : ~(<<y, x>> \in OpToRel(<, Nat))
  BY NatLessThanWellFounded, WFMin
<1>2. \E x \in S : \A y \in S : x <= y
  <2>1. PICK x \in S : \A y \in S : ~(<<y, x>> \in OpToRel(<, Nat))
    BY <1>1
  <2>2. ASSUME NEW y \in S, ~(x <= y)
        PROVE  FALSE
    <3>1. x \in Nat /\ y \in Nat /\ y < x
      BY <2>2
    <3>2. <<y, x>> \in OpToRel(<, Nat)
      BY <3>1 DEF OpToRel
    <3> QED
      BY <3>2, <2>1
  <2> QED
    BY <2>2
<1> QED
  BY <1>2 DEF Min

\* Max of a set of numbers that is not empty and has a bound
LEMMA GreatestMember ==
    ASSUME NEW S, S \subseteq Nat, S # {}, NEW n \in Nat, \A x \in S : x <= n
    PROVE  /\ Max(S) \in S
           /\ \A y \in S : y <= Max(S)
<1> DEFINE R == {n - x : x \in S}
<1>1. R \subseteq Nat /\ R # {}
  <2>1. \A x \in S : n - x \in Nat
    OBVIOUS
  <2>2. R \subseteq Nat
    BY <2>1, Zenon
  <2>3. PICK x \in S : TRUE
    OBVIOUS
  <2>4. n - x \in R
    BY Zenon
  <2> QED
    BY <2>2, <2>4, Zenon
<1>2. PICK r \in R : \A y \in R : r <= y
  <2> HIDE DEF R
  <2> QED
    BY <1>1, LeastMember
<1>3. PICK x \in S : r = n - x
  BY <1>2
<1>4. ASSUME NEW y \in S
      PROVE  x >= y
  <2>1. n - y \in R
    OBVIOUS
  <2>2. n - x <= n - y
    BY <1>2, <1>3, <2>1
  <2>3. x \in Nat /\ y \in Nat
    OBVIOUS
  <2> QED
    BY <2>2, <2>3
<1>5. Max(S) \in S /\ \A y \in S : Max(S) >= y
  BY <1>4 DEF Max
<1>6. ASSUME NEW y \in S
      PROVE  y <= Max(S)
  <2>1. Max(S) >= y /\ Max(S) \in Nat /\ y \in Nat
    BY <1>5
  <2> QED
    BY <2>1
<1> QED
  BY <1>5, <1>6

LEMMA LastOfAll ==
    ASSUME NEW n \in Nat, n # 0
    PROVE  Max(1..n) = n /\ (1..n) \ {n} = 1..(n - 1)
<1>1. 1..n \subseteq Nat /\ n \in 1..n /\ \A i \in 1..n : i <= n
  OBVIOUS
<1>2. Max(1..n) \in 1..n /\ n <= Max(1..n)
  <2> DEFINE S == 1..n
  <2>1. S \subseteq Nat /\ S # {} /\ \A i \in S : i <= n
    BY <1>1
  <2> HIDE DEF S
  <2>2. Max(S) \in S /\ \A y \in S : y <= Max(S)
    BY <2>1, GreatestMember
  <2> QED
    BY <1>1, <2>2 DEF S
<1>3. Max(1..n) = n
  <2>1. \A m \in 1..n : n <= m => m = n
    OBVIOUS
  <2> QED
    BY <1>2, <2>1
<1> QED
  BY <1>3

\* The recursion by which FoldLeft is defined: F gives the result for every set of positions
Folds(F, step, base, s, n) ==
    \A t \in SUBSET (1..n) :
        F[t] = IF t = {} THEN base ELSE step[F[t \ {Max(t)}]][s[Max(t)]]

\* The last of a set of positions, and the others
LEMMA LastPosition ==
    ASSUME NEW n \in Nat, NEW t \in SUBSET (1..n), t # {}
    PROVE  /\ Max(t) \in t /\ Max(t) \in 1..n
           /\ \A i \in t : i <= Max(t)
           /\ t \ {Max(t)} \in SUBSET (1..(Max(t) - 1))
<1>1. t \subseteq Nat /\ \A i \in t : i <= n
  OBVIOUS
<1>2. Max(t) \in t /\ \A i \in t : i <= Max(t)
  BY <1>1, GreatestMember
<1>3. ASSUME NEW i \in t \ {Max(t)}
      PROVE  i \in 1..(Max(t) - 1)
  <2>1. i \in 1..n /\ Max(t) \in 1..n /\ i <= Max(t) /\ i # Max(t)
    BY <1>2
  <2> HIDE <1>2, <1>1
  <2> QED
    BY <2>1
<1> QED
  BY <1>2, <1>3

FoldTyped(D, E, step, base, s) ==
    step \in [D -> [E -> D]] /\ base \in D /\ s \in Seq(E)
IsFold(F, D, E, step, base, s) ==
    /\ FoldTyped(D, E, step, base, s)
    /\ F \in [SUBSET (1..Len(s)) -> D]
    /\ Folds(F, step, base, s, Len(s))

\* Such a function exists,
LEMMA FoldUpTo ==
    ASSUME NEW D, NEW E, NEW step \in [D -> [E -> D]], NEW base \in D, NEW s \in Seq(E)
    PROVE  \A n \in 0..Len(s) : \E F \in [SUBSET (1..n) -> D] : Folds(F, step, base, s, n)
<1> DEFINE P(n) == \E F \in [SUBSET (1..n) -> D] : Folds(F, step, base, s, n)
           Bad == {n \in 0..Len(s) : ~P(n)}
<1>1. Len(s) \in Nat
  BY LenProperties
<1>2. P(0)
  <2> DEFINE F == [t \in SUBSET (1..0) |-> base]
  <2>1. Folds(F, step, base, s, 0)
    <3> SUFFICES ASSUME NEW t \in SUBSET (1..0)
                 PROVE  F[t] = base /\ t = {}
      BY DEF Folds
    <3> QED
      OBVIOUS
  <2>2. F \in [SUBSET (1..0) -> D]
    OBVIOUS
  <2> QED
    BY <2>1, <2>2
<1>3. ASSUME NEW n \in 0..Len(s), n + 1 \in 0..Len(s), P(n)
      PROVE  P(n + 1)
  <2>1. PICK F \in [SUBSET (1..n) -> D] : Folds(F, step, base, s, n)
    BY <1>3
  <2> DEFINE T == SUBSET (1..(n + 1))
             G == [t \in T |-> IF n + 1 \in t THEN step[F[t \ {n + 1}]][s[n + 1]] ELSE F[t]]
  <2>2. n \in Nat /\ s[n + 1] \in E
    BY <1>1, <1>3, ElementOfSeq
  <2>3. ASSUME NEW t \in T, n + 1 \in t
        PROVE  /\ t \ {n + 1} \in SUBSET (1..n) /\ n + 1 \notin t \ {n + 1}
               /\ Max(t) = n + 1
    <3>1. n + 1 \in Nat /\ t # {}
      BY <2>2, <2>3
    <3>2. Max(t) \in t /\ Max(t) \in 1..(n + 1) /\ n + 1 <= Max(t)
      BY <2>3, <3>1, LastPosition
    <3>3. Max(t) = n + 1
      BY <2>2, <3>2
    <3> QED
      BY <2>2, <3>3
  <2>4. ASSUME NEW t \in T, n + 1 \notin t
        PROVE  t \in SUBSET (1..n) /\ t \ {Max(t)} \in SUBSET (1..n) /\ n + 1 \notin t \ {Max(t)}
    <3>1. ASSUME NEW i \in t
          PROVE  i \in 1..n
      <4>1. i \in 1..(n + 1) /\ i # n + 1
        BY <2>4
      <4> QED
        BY <4>1, <2>2
    <3> HIDE DEF T
    <3> QED
      BY <2>4, <3>1, Zenon
  <2>5. G \in [T -> D]
    <3> SUFFICES ASSUME NEW t \in T
                 PROVE  G[t] \in D
      OBVIOUS
    <3>1. CASE n + 1 \in t
      <4>1. F[t \ {n + 1}] \in D
        BY <2>3, <3>1
      <4> QED
        BY <2>2, <3>1, <4>1
    <3>2. CASE n + 1 \notin t
      BY <2>4, <3>2
    <3> QED
      BY <3>1, <3>2
  <2>6. ASSUME NEW t \in T
        PROVE  G[t] = IF t = {} THEN base ELSE step[G[t \ {Max(t)}]][s[Max(t)]]
    <3>1. CASE n + 1 \in t
      <4>1. G[t \ {n + 1}] = F[t \ {n + 1}]
        BY <2>3, <3>1
      <4>2. t # {} /\ Max(t) = n + 1
        BY <2>3, <3>1
      <4>3. G[t] = step[F[t \ {n + 1}]][s[n + 1]]
        BY <3>1
      <4> HIDE DEF G
      <4> QED
        BY <4>1, <4>2, <4>3
    <3>2. CASE n + 1 \notin t
      <4>1. F[t] = IF t = {} THEN base ELSE step[F[t \ {Max(t)}]][s[Max(t)]]
        BY <2>1, <2>4, <3>2 DEF Folds
      <4>2. G[t] = F[t]
        BY <3>2
      <4>3. G[t \ {Max(t)}] = F[t \ {Max(t)}]
        BY <2>4, <3>2
      <4> HIDE DEF G
      <4> QED
        BY <4>1, <4>2, <4>3
    <3> QED
      BY <3>1, <3>2
  <2> HIDE DEF G
  <2>7. Folds(G, step, base, s, n + 1)
    BY <2>6 DEF Folds
  <2> QED
    BY <2>5, <2>7
<1>4. Bad = {}
  <2> SUFFICES ASSUME Bad # {}
               PROVE  FALSE
    OBVIOUS
  <2> HIDE DEF P
  <2>1. Bad \subseteq Nat
    BY <1>1
  <2>2. Min(Bad) \in Bad /\ \A y \in Bad : Min(Bad) <= y
    <3> HIDE DEF Bad
    <3> QED
      BY <2>1, LeastMember
  <2>3. PICK m \in Bad : \A y \in Bad : m <= y
    BY <2>2
  <2>4. m \in 0..Len(s) /\ ~P(m) /\ m # 0
    BY <2>3, <1>2
  <2>5. m - 1 \in 0..Len(s) /\ (m - 1) + 1 = m /\ m - 1 \notin Bad
    BY <2>3, <2>4, <1>1
  <2>6. P(m - 1)
    BY <2>5
  <2>7. P((m - 1) + 1)
    BY <1>3, <2>4, <2>5, <2>6
  <2> QED
    BY <2>4, <2>5, <2>7
<1> QED
  BY <1>4

LEMMA FoldExists ==
    ASSUME NEW D, NEW E, NEW step, NEW base, NEW s, FoldTyped(D, E, step, base, s)
    PROVE  \E F : IsFold(F, D, E, step, base, s)
<1>1. step \in [D -> [E -> D]] /\ base \in D /\ s \in Seq(E)
  BY DEF FoldTyped
<1>2. Len(s) \in 0..Len(s)
  BY <1>1, LenProperties
<1>3. \E F \in [SUBSET (1..Len(s)) -> D] : Folds(F, step, base, s, Len(s))
  BY <1>1, <1>2, FoldUpTo
<1> QED
  BY <1>3 DEF IsFold

\* and every function that obeys the recursion wherever its values have the type is this one.
FoldsWhereTyped(G, D, step, base, s) ==
    /\ G[{}] = base
    /\ \A t \in SUBSET (1..Len(s)) :
           t # {} /\ G[t \ {Max(t)}] \in D => G[t] = step[G[t \ {Max(t)}]][s[Max(t)]]

LEMMA FoldUnique ==
    ASSUME NEW D, NEW E, NEW step, NEW base, NEW s, NEW F, IsFold(F, D, E, step, base, s),
           NEW G, FoldsWhereTyped(G, D, step, base, s)
    PROVE  G[1..Len(s)] = F[1..Len(s)]
<1> USE DEF FoldTyped, IsFold, FoldsWhereTyped
<1> DEFINE P(n) == \A t \in SUBSET (1..n) : G[t] = F[t]
           Bad == {n \in 0..Len(s) : ~P(n)}
<1>1. Len(s) \in Nat /\ {} \in SUBSET (1..Len(s)) /\ F[{}] = base
  BY LenProperties DEF Folds
<1>2. P(0)
  <2>1. 1..0 = {} /\ SUBSET {} = {{}}
    OBVIOUS
  <2> QED
    BY <1>1, <2>1
<1>3. ASSUME NEW n \in 0..Len(s), n + 1 \in 0..Len(s), P(n)
      PROVE  P(n + 1)
  <2> SUFFICES ASSUME NEW t \in SUBSET (1..(n + 1)), t # {}
               PROVE  G[t] = F[t]
    BY <1>1
  <2>1. n + 1 \in Nat /\ n \in Nat /\ 1..(n + 1) \subseteq 1..Len(s)
    BY <1>1, <1>3
  <2>2. /\ Max(t) \in 1..(n + 1)
        /\ t \ {Max(t)} \in SUBSET (1..(Max(t) - 1))
    BY <2>1, LastPosition
  <2>3. t \ {Max(t)} \in SUBSET (1..n)
    <3>1. 1..(Max(t) - 1) \subseteq 1..n
      BY <2>1, <2>2
    <3> QED
      BY <2>2, <3>1
  <2>4. t \in SUBSET (1..Len(s)) /\ t \ {Max(t)} \in SUBSET (1..Len(s))
    BY <2>1
  <2>5. G[t \ {Max(t)}] = F[t \ {Max(t)}] /\ F[t \ {Max(t)}] \in D
    BY <1>3, <2>3, <2>4
  <2>6. G[t] = step[G[t \ {Max(t)}]][s[Max(t)]]
    BY <2>4, <2>5
  <2>7. F[t] = step[F[t \ {Max(t)}]][s[Max(t)]]
    BY <2>4 DEF Folds
  <2> QED
    BY <2>5, <2>6, <2>7
<1>4. Bad = {}
  <2> SUFFICES ASSUME Bad # {}
               PROVE  FALSE
    OBVIOUS
  <2> HIDE DEF P
  <2>1. Bad \subseteq Nat
    BY <1>1
  <2>2. Min(Bad) \in Bad /\ \A y \in Bad : Min(Bad) <= y
    <3> HIDE DEF Bad
    <3> QED
      BY <2>1, LeastMember
  <2>3. PICK m \in Bad : \A y \in Bad : m <= y
    BY <2>2
  <2>4. m \in 0..Len(s) /\ ~P(m) /\ m # 0
    BY <2>3, <1>2
  <2>5. m - 1 \in 0..Len(s) /\ (m - 1) + 1 = m /\ m - 1 \notin Bad
    BY <2>3, <2>4, <1>1
  <2>6. P(m - 1)
    BY <2>5
  <2>7. P((m - 1) + 1)
    BY <1>3, <2>4, <2>5, <2>6
  <2> QED
    BY <2>4, <2>5, <2>7
<1>5. P(Len(s))
  <2>1. Len(s) \in 0..Len(s)
    BY <1>1
  <2> HIDE DEF P
  <2> QED
    BY <1>4, <2>1
<1> QED
  BY <1>1, <1>5

\* FoldLeft of an operation that is a function
FoldBy(step, base, s) == FoldLeft(LAMBDA d, e : step[d][e], base, s)

LEMMA FoldByIs ==
    ASSUME NEW D, NEW E, NEW step, NEW base, NEW s, NEW F, IsFold(F, D, E, step, base, s)
    PROVE  FoldBy(step, base, s) = F[1..Len(s)]
<1>0. /\ step \in [D -> [E -> D]] /\ base \in D /\ s \in Seq(E)
      /\ F \in [SUBSET (1..Len(s)) -> D] /\ Folds(F, step, base, s, Len(s))
  BY DEF IsFold, FoldTyped
<1> DEFINE iter[t \in SUBSET DOMAIN s] ==
               IF t = {} THEN base ELSE step[iter[t \ {Max(t)}]][s[Max(t)]]
<1>1. DOMAIN s = 1..Len(s)
  BY <1>0, LenProperties
<1>2. FoldBy(step, base, s) = iter[DOMAIN s]
  BY Zenon DEF FoldBy, FoldLeft, MapThenFoldSet
<1>3. F = [t \in SUBSET DOMAIN s |->
               IF t = {} THEN base ELSE step[F[t \ {Max(t)}]][s[Max(t)]]]
  BY <1>0, <1>1 DEF Folds
<1>4. iter = [t \in SUBSET DOMAIN s |->
                  IF t = {} THEN base ELSE step[iter[t \ {Max(t)}]][s[Max(t)]]]
  BY <1>3, Zenon
<1> HIDE DEF iter
<1>5. \A t \in SUBSET (1..Len(s)) :
          iter[t] = IF t = {} THEN base ELSE step[iter[t \ {Max(t)}]][s[Max(t)]]
  BY <1>1, <1>4
<1>6. /\ iter[{}] = base
      /\ \A t \in SUBSET (1..Len(s)) :
             t # {} /\ iter[t \ {Max(t)}] \in D =>
                 iter[t] = step[iter[t \ {Max(t)}]][s[Max(t)]]
  BY <1>5
<1>7. iter[1..Len(s)] = F[1..Len(s)]
  <2>1. FoldsWhereTyped(iter, D, step, base, s)
    BY <1>6 DEF FoldsWhereTyped
  <2> QED
    BY <2>1, FoldUnique
<1> QED
  BY <1>0, <1>1, <1>2, <1>7

\* What is needed to show that another fold is this one: a function that obeys the recursion, and
\* that one which obeys it as long as it stays within the types comes to the same value.
IsWitness(F, D, E, step, base, s) ==
    /\ F \in [SUBSET DOMAIN s -> D]
    /\ F[{}] = base
    /\ \A t \in SUBSET DOMAIN s : t # {} =>
           /\ F[t \ {Max(t)}] \in D
           /\ s[Max(t)] \in E
           /\ F[t] = step[F[t \ {Max(t)}]][s[Max(t)]]

FoldsInside(G, D, E, step, base, s) ==
    /\ G[{}] = base
    /\ \A t \in SUBSET DOMAIN s :
           t # {} /\ G[t \ {Max(t)}] \in D /\ s[Max(t)] \in E =>
               G[t] = step[G[t \ {Max(t)}]][s[Max(t)]]

LEMMA FoldWitness ==
    ASSUME NEW D, NEW E, NEW step, NEW base, NEW s, FoldTyped(D, E, step, base, s)
    PROVE  \E F : IsWitness(F, D, E, step, base, s)
<1>1. PICK F : IsFold(F, D, E, step, base, s)
  BY FoldExists
<1>2. s \in Seq(E) /\ DOMAIN s = 1..Len(s) /\ Len(s) \in Nat
  BY LenProperties DEF FoldTyped
<1>3. ASSUME NEW t \in SUBSET (1..Len(s)), t # {}
      PROVE  /\ F[t \ {Max(t)}] \in D
             /\ s[Max(t)] \in E
             /\ F[t] = step[F[t \ {Max(t)}]][s[Max(t)]]
  <2>1. Max(t) \in 1..Len(s)
    BY <1>2, <1>3, LastPosition
  <2>2. s[Max(t)] \in E
    BY <1>2, <2>1, ElementOfSeq
  <2> QED
    BY <1>1, <1>3, <2>2 DEF IsFold, Folds
<1>4. F \in [SUBSET (1..Len(s)) -> D] /\ F[{}] = base
  BY <1>1 DEF IsFold, Folds
<1>5. IsWitness(F, D, E, step, base, s)
  BY <1>2, <1>3, <1>4 DEF IsWitness
<1> QED
  BY <1>5

LEMMA FoldIs ==
    ASSUME NEW D, NEW E, NEW step, NEW base, NEW s, FoldTyped(D, E, step, base, s),
           NEW G, FoldsInside(G, D, E, step, base, s)
    PROVE  G[DOMAIN s] = FoldBy(step, base, s)
<1>1. PICK F : IsFold(F, D, E, step, base, s)
  BY FoldExists
<1>2. s \in Seq(E) /\ DOMAIN s = 1..Len(s) /\ Len(s) \in Nat
  BY LenProperties DEF FoldTyped
<1>3. ASSUME NEW t \in SUBSET (1..Len(s)), t # {}, G[t \ {Max(t)}] \in D
      PROVE  G[t] = step[G[t \ {Max(t)}]][s[Max(t)]]
  <2>1. Max(t) \in 1..Len(s)
    BY <1>2, <1>3, LastPosition
  <2>2. s[Max(t)] \in E
    BY <1>2, <2>1, ElementOfSeq
  <2> QED
    BY <1>2, <1>3, <2>2 DEF FoldsInside
<1>4. FoldsWhereTyped(G, D, step, base, s)
  BY <1>3 DEF FoldsWhereTyped, FoldsInside
<1>5. G[1..Len(s)] = F[1..Len(s)]
  BY <1>1, <1>4, FoldUnique
<1>6. FoldBy(step, base, s) = F[1..Len(s)]
  BY <1>1, FoldByIs
<1> QED
  BY <1>2, <1>5, <1>6

\* The value of such a fold is of the type of its steps,
LEMMA FoldByTyped ==
    ASSUME NEW D, NEW E, NEW step, NEW base, NEW s, FoldTyped(D, E, step, base, s)
    PROVE  FoldBy(step, base, s) \in D
<1>1. PICK F : IsFold(F, D, E, step, base, s)
  BY FoldExists
<1>2. FoldBy(step, base, s) = F[1..Len(s)]
  BY <1>1, FoldByIs
<1>3. F[1..Len(s)] \in D
  BY <1>1 DEF IsFold
<1> QED
  BY <1>2, <1>3

\* has every property that the steps keep, given as the set I[n] of the values that are
\* right after n elements,
FoldKeeps(I, D, step, base, s) ==
    /\ base \in I[0]
    /\ \A n \in 1..Len(s) : \A d \in D : d \in I[n - 1] => step[d][s[n]] \in I[n]

LEMMA FoldByKeeps ==
    ASSUME NEW D, NEW E, NEW step, NEW base, NEW s, FoldTyped(D, E, step, base, s),
           NEW I, FoldKeeps(I, D, step, base, s)
    PROVE  FoldBy(step, base, s) \in I[Len(s)]
<1>1. PICK F : IsFold(F, D, E, step, base, s)
  BY FoldExists
<1>2. FoldBy(step, base, s) = F[1..Len(s)]
  BY <1>1, FoldByIs
<1> DEFINE P(n) == F[1..n] \in I[n]
           Bad == {n \in 0..Len(s) : ~P(n)}
<1>3. Len(s) \in Nat
  BY LenProperties DEF FoldTyped
<1>4. P(0)
  <2>1. 1..0 = {} /\ {} \in SUBSET (1..Len(s))
    OBVIOUS
  <2>2. F[{}] = base
    BY <1>1, <2>1 DEF IsFold, Folds
  <2> QED
    BY <2>1, <2>2 DEF FoldKeeps
<1>5. ASSUME NEW n \in 1..Len(s), P(n - 1)
      PROVE  P(n)
  <2>1. n \in Nat /\ n - 1 \in Nat /\ 1..n \in SUBSET (1..Len(s)) /\ 1..n # {}
    BY <1>3
  <2>2. 1..(n - 1) \subseteq 1..Len(s)
    BY <1>3
  <2>3. F[1..(n - 1)] \in D
    BY <1>1, <2>2 DEF IsFold
  <2>4. F[1..n] = step[F[1..(n - 1)]][s[n]]
    <3>1. F[1..n] = step[F[(1..n) \ {Max(1..n)}]][s[Max(1..n)]]
      BY <1>1, <2>1 DEF IsFold, Folds
    <3>2. Max(1..n) = n /\ (1..n) \ {n} = 1..(n - 1)
      BY <2>1, LastOfAll
    <3> QED
      BY <3>1, <3>2
  <2> QED
    BY <1>5, <2>3, <2>4 DEF FoldKeeps
<1>6. Bad = {}
  <2> SUFFICES ASSUME Bad # {}
               PROVE  FALSE
    OBVIOUS
  <2> HIDE DEF P
  <2>1. Bad \subseteq Nat
    BY <1>3
  <2>2. PICK m \in Bad : \A y \in Bad : m <= y
    <3> HIDE DEF Bad
    <3> QED
      BY <2>1, LeastMember
  <2>3. m \in 1..Len(s) /\ ~P(m)
    BY <2>2, <1>3, <1>4
  <2>4. m - 1 \in 0..Len(s) /\ m - 1 \notin Bad
    BY <2>2, <2>3, <1>3
  <2>5. P(m - 1)
    BY <2>4
  <2> QED
    BY <1>5, <2>3, <2>5
<1> QED
  BY <1>2, <1>3, <1>6

\* is the base when there is no element,
LEMMA FoldByEmpty ==
    ASSUME NEW D, NEW E, NEW step, NEW base, FoldTyped(D, E, step, base, <<>>)
    PROVE  FoldBy(step, base, <<>>) = base
<1>1. PICK F : IsFold(F, D, E, step, base, <<>>)
  BY FoldExists
<1>2. FoldBy(step, base, <<>>) = F[1..Len(<<>>)]
  BY <1>1, FoldByIs
<1>3. 1..Len(<<>>) = {}
  <2>1. Len(<<>>) = 0
    BY EmptySeq
  <2> QED
    BY <2>1
<1>4. F[{}] = base
  BY <1>1 DEF IsFold, Folds
<1> QED
  BY <1>2, <1>3, <1>4

\* and an element appended is one step more.
LEMMA FoldByAppend ==
    ASSUME NEW D, NEW E, NEW step, NEW base, NEW s, FoldTyped(D, E, step, base, s), NEW e \in E
    PROVE  FoldBy(step, base, Append(s, e)) = step[FoldBy(step, base, s)][e]
<1>1. PICK F : IsFold(F, D, E, step, base, s)
  BY FoldExists
<1>2. FoldBy(step, base, s) = F[1..Len(s)]
  BY <1>1, FoldByIs
<1> DEFINE u == Append(s, e)
<1>3. /\ s \in Seq(E) /\ u \in Seq(E) /\ Len(s) \in Nat /\ Len(u) = Len(s) + 1
      /\ u[Len(s) + 1] = e
      /\ \A i \in 1..Len(s) : u[i] = s[i]
  BY AppendProperties, LenProperties DEF FoldTyped
<1> HIDE DEF u
<1>4. FoldTyped(D, E, step, base, u)
  BY <1>3 DEF FoldTyped
<1>5. PICK H : IsFold(H, D, E, step, base, u)
  BY <1>4, FoldExists
<1>6. FoldBy(step, base, u) = H[1..Len(u)]
  BY <1>5, FoldByIs
<1>7. /\ 1..Len(u) \in SUBSET (1..Len(u)) /\ 1..Len(u) # {}
      /\ Max(1..Len(u)) = Len(s) + 1 /\ (1..Len(u)) \ {Len(s) + 1} = 1..Len(s)
  <2>1. Len(s) + 1 \in Nat /\ Len(s) + 1 # 0 /\ (Len(s) + 1) - 1 = Len(s)
    BY <1>3
  <2>2. Max(1..(Len(s) + 1)) = Len(s) + 1 /\ (1..(Len(s) + 1)) \ {Len(s) + 1} = 1..Len(s)
    BY <2>1, LastOfAll
  <2>3. 1..(Len(s) + 1) # {}
    BY <1>3
  <2> QED
    BY <1>3, <2>2, <2>3
<1>8. H[1..Len(u)] = step[H[1..Len(s)]][e]
  <2>1. H[1..Len(u)] = step[H[(1..Len(u)) \ {Max(1..Len(u))}]][u[Max(1..Len(u))]]
    BY <1>5, <1>7 DEF IsFold, Folds
  <2> QED
    BY <1>3, <1>7, <2>1
<1>9. FoldsWhereTyped(H, D, step, base, s)
  <2>1. SUBSET (1..Len(s)) \subseteq SUBSET (1..Len(u))
    BY <1>3
  <2>2. H[{}] = base
    BY <1>5 DEF IsFold, Folds
  <2>3. ASSUME NEW t \in SUBSET (1..Len(s)), t # {}
        PROVE  H[t] = step[H[t \ {Max(t)}]][s[Max(t)]]
    <3>1. H[t] = step[H[t \ {Max(t)}]][u[Max(t)]]
      BY <1>5, <2>1, <2>3 DEF IsFold, Folds
    <3>2. Max(t) \in 1..Len(s)
      BY <1>3, <2>3, LastPosition
    <3> QED
      BY <1>3, <3>1, <3>2
  <2> QED
    BY <2>2, <2>3 DEF FoldsWhereTyped
<1>10. H[1..Len(s)] = F[1..Len(s)]
  BY <1>1, <1>9, FoldUnique
<1> QED
  BY <1>2, <1>6, <1>8, <1>10 DEF u

\* Of a sequence, the first n elements
First(s, n) == SubSeq(s, 1, n)

LEMMA FirstFacts ==
    ASSUME NEW E, NEW s \in Seq(E), NEW n \in 0..Len(s)
    PROVE  /\ First(s, n) \in Seq(E)
           /\ Len(First(s, n)) = n
           /\ n = 0 => First(s, n) = <<>>
           /\ n = Len(s) => First(s, n) = s
           /\ n # Len(s) => s[n + 1] \in E /\ First(s, n + 1) = Append(First(s, n), s[n + 1])
<1>0. Len(s) \in Nat
  BY LenProperties
<1>00. n \in Nat /\ n <= Len(s)
  BY <1>0
<1>1. Len(s) \in Nat /\ n \in Nat /\ s \in [1..Len(s) -> E]
  BY <1>0, <1>00, LenProperties
<1>2. First(s, n) = [i \in 1..n |-> s[i]]
  BY <1>1 DEF First
<1>3. 1..n \subseteq 1..Len(s)
  BY <1>1
<1>4. First(s, n) \in Seq(E) /\ Len(First(s, n)) = n
  <2>1. First(s, n) \in [1..n -> E]
    BY <1>1, <1>2, <1>3
  <2> QED
    BY <1>1, <2>1
<1>5. n = 0 => First(s, n) = <<>>
  BY <1>4, EmptySeq
<1>6. n = Len(s) => First(s, n) = s
  BY <1>1, <1>2
<1>7. ASSUME n # Len(s)
      PROVE  s[n + 1] \in E /\ First(s, n + 1) = Append(First(s, n), s[n + 1])
  <2>1. n + 1 \in 1..Len(s)
    <3>1. n # Len(s)
      BY <1>7
    <3> QED
      BY <3>1, <1>0, <1>00
  <2>2. s[n + 1] \in E
    BY <1>1, <2>1
  <2>3. First(s, n + 1) = [i \in 1..(n + 1) |-> s[i]]
    BY <1>1, <2>1 DEF First
  <2>4. /\ Append(First(s, n), s[n + 1]) \in Seq(E)
        /\ Len(Append(First(s, n), s[n + 1])) = n + 1
        /\ \A i \in 1..n : Append(First(s, n), s[n + 1])[i] = First(s, n)[i]
        /\ Append(First(s, n), s[n + 1])[n + 1] = s[n + 1]
    BY <1>1, <1>4, <2>2, AppendProperties
  <2>5. First(s, n + 1) \in [1..(n + 1) -> E]
    <3>1. 1..(n + 1) \subseteq 1..Len(s)
      BY <1>1, <2>1
    <3> QED
      BY <1>1, <2>3, <3>1
  <2>6. First(s, n + 1) \in Seq(E) /\ Len(First(s, n + 1)) = n + 1
    BY <1>1, <2>5
  <2>7. \A i \in 1..(n + 1) : First(s, n + 1)[i] = Append(First(s, n), s[n + 1])[i]
    <3> SUFFICES ASSUME NEW i \in 1..(n + 1)
                 PROVE  First(s, n + 1)[i] = Append(First(s, n), s[n + 1])[i]
      OBVIOUS
    <3>1. First(s, n + 1)[i] = s[i]
      BY <2>3
    <3>2. CASE i = n + 1
      BY <2>4, <3>1, <3>2
    <3>3. CASE i # n + 1
      <4>1. i \in 1..n
        BY <1>1, <3>3
      <4> QED
        BY <1>2, <2>4, <3>1, <4>1
    <3> QED
      BY <3>2, <3>3
  <2> DEFINE a == First(s, n + 1)
             b == Append(First(s, n), s[n + 1])
  <2>8. a \in Seq(E) /\ b \in Seq(E) /\ Len(a) = Len(b) /\ \A i \in 1..Len(a) : a[i] = b[i]
    BY <2>4, <2>6, <2>7
  <2> HIDE DEF a, b
  <2>9. a = b
    BY <2>8, SeqEqual
  <2> QED
    BY <2>2, <2>9 DEF a, b
<1> QED
  BY <1>4, <1>5, <1>6, <1>7

\* A set that 0 is in, and n + 1 whenever n is, has every number in it.
LEMMA CountUp ==
    ASSUME NEW m \in Nat, NEW S, 0 \in S, \A n \in 0..m : n # m /\ n \in S => n + 1 \in S
    PROVE  m \in S
<1> DEFINE Bad == (0..m) \ S
<1>1. Bad = {}
  <2> SUFFICES ASSUME Bad # {}
               PROVE  FALSE
    OBVIOUS
  <2>1. Bad \subseteq Nat
    OBVIOUS
  <2>2. PICK n \in Bad : \A y \in Bad : n <= y
    <3> HIDE DEF Bad
    <3> QED
      BY <2>1, LeastMember
  <2>3. n \in 0..m /\ n \notin S /\ n # 0
    BY <2>2
  <2>4. n - 1 \in 0..m /\ n - 1 # m /\ (n - 1) + 1 = n /\ n - 1 \notin Bad
    BY <2>2, <2>3
  <2>5. n - 1 \in S
    BY <2>4
  <2> QED
    BY <2>3, <2>4, <2>5
<1> QED
  BY <1>1

LEMMA ConcatAppend ==
    ASSUME NEW E, NEW s \in Seq(E), NEW u \in Seq(E), NEW e \in E
    PROVE  s \o Append(u, e) = Append(s \o u, e)
<1>1. Append(u, e) = u \o <<e>> /\ <<e>> \in Seq(E) /\ s \o u \in Seq(E)
  BY AppendIsConcat, ConcatProperties
<1>2. Append(s \o u, e) = (s \o u) \o <<e>>
  BY <1>1, AppendIsConcat
<1>3. (s \o u) \o <<e>> = s \o (u \o <<e>>)
  BY <1>1, ConcatAssociative
<1> QED
  BY <1>1, <1>2, <1>3

\* A fold over two sequences, one after the other, is one fold after the other.
LEMMA FoldByConcat ==
    ASSUME NEW D, NEW E, NEW step, NEW base, NEW s, FoldTyped(D, E, step, base, s),
           NEW t, t \in Seq(E)
    PROVE  FoldBy(step, base, s \o t) = FoldBy(step, FoldBy(step, base, s), t)
<1> DEFINE f == FoldBy(step, base, s)
           P == {n \in 0..Len(t) :
                    FoldBy(step, base, s \o First(t, n)) = FoldBy(step, f, First(t, n))}
<1>1. step \in [D -> [E -> D]] /\ base \in D /\ s \in Seq(E) /\ f \in D /\ Len(t) \in Nat
  BY FoldByTyped, LenProperties DEF FoldTyped
<1> HIDE DEF f
<1>2. FoldBy(step, base, s \o First(t, 0)) = FoldBy(step, f, First(t, 0))
  <2>1. First(t, 0) = <<>> /\ s \o <<>> = s
    <3>1. 0 \in 0..Len(t)
      BY <1>1
    <3>2. First(t, 0) = <<>>
      BY <3>1, FirstFacts
    <3>3. s \o <<>> = s
      BY <1>1, ConcatEmptySeq
    <3> QED
      BY <3>2, <3>3
  <2>2. FoldTyped(D, E, step, f, <<>>)
    BY <1>1, EmptySeq DEF FoldTyped
  <2>3. FoldBy(step, f, <<>>) = f
    BY <2>2, FoldByEmpty
  <2> QED
    BY <2>1, <2>3 DEF f
<1>3. ASSUME NEW n \in 0..Len(t), n # Len(t),
             FoldBy(step, base, s \o First(t, n)) = FoldBy(step, f, First(t, n))
      PROVE  FoldBy(step, base, s \o First(t, n + 1)) = FoldBy(step, f, First(t, n + 1))
  <2> DEFINE u == First(t, n)
             e == t[n + 1]
  <2>1. u \in Seq(E) /\ e \in E /\ First(t, n + 1) = Append(u, e)
    BY <1>3, FirstFacts
  <2> HIDE DEF u, e
  <2>2. s \o Append(u, e) = Append(s \o u, e) /\ s \o u \in Seq(E)
    <3>1. s \in Seq(E)
      BY <1>1
    <3>2. s \o Append(u, e) = Append(s \o u, e)
      BY <2>1, <3>1, ConcatAppend
    <3>3. s \o u \in Seq(E)
      BY <2>1, <3>1, ConcatProperties
    <3> QED
      BY <3>2, <3>3
  <2>3. FoldTyped(D, E, step, base, s \o u) /\ FoldTyped(D, E, step, f, u)
    BY <1>1, <2>1, <2>2 DEF FoldTyped
  <2>4. FoldBy(step, base, Append(s \o u, e)) = step[FoldBy(step, base, s \o u)][e]
    BY <2>1, <2>3, FoldByAppend
  <2>5. FoldBy(step, f, Append(u, e)) = step[FoldBy(step, f, u)][e]
    BY <2>1, <2>3, FoldByAppend
  <2> QED
    BY <1>3, <2>1, <2>2, <2>4, <2>5 DEF u
<1>4. 0 \in P
  BY <1>1, <1>2
<1>5. ASSUME NEW n \in 0..Len(t), n # Len(t), n \in P
      PROVE  n + 1 \in P
  <2>1. n + 1 \in 0..Len(t)
    <3>1. Len(t) \in Nat /\ n # Len(t)
      BY <1>1, <1>5
    <3> HIDE <1>1, <1>5
    <3> QED
      BY <3>1
  <2> QED
    BY <1>3, <1>5, <2>1
<1> HIDE DEF P
<1>7. Len(t) \in P
  BY <1>1, <1>4, <1>5, CountUp
<1>6. First(t, Len(t)) = t
  <2>1. Len(t) \in 0..Len(t)
    BY <1>1
  <2> QED
    BY <2>1, FirstFacts
<1> QED
  BY <1>1, <1>6, <1>7 DEF P, f

\* Two folds over the same sequence stay in a relation R, a set of pairs, that the steps keep.
FoldRelates(R, D, step, step2, base, base2, s) ==
    /\ <<base, base2>> \in R
    /\ \A d, d2 \in D : <<d, d2>> \in R =>
          \A i \in 1..Len(s) : <<step[d][s[i]], step2[d2][s[i]]>> \in R

LEMMA FoldByRelated ==
    ASSUME NEW D, NEW E, NEW step, NEW step2, NEW base, NEW base2, NEW s,
           FoldTyped(D, E, step, base, s), FoldTyped(D, E, step2, base2, s),
           NEW R, FoldRelates(R, D, step, step2, base, base2, s)
    PROVE  <<FoldBy(step, base, s), FoldBy(step2, base2, s)>> \in R
<1> DEFINE P == {n \in 0..Len(s) :
                    <<FoldBy(step, base, First(s, n)), FoldBy(step2, base2, First(s, n))>> \in R}
<1>1. /\ step \in [D -> [E -> D]] /\ step2 \in [D -> [E -> D]] /\ base \in D /\ base2 \in D
      /\ s \in Seq(E) /\ Len(s) \in Nat
  BY LenProperties DEF FoldTyped
<1>2. <<FoldBy(step, base, First(s, 0)), FoldBy(step2, base2, First(s, 0))>> \in R
  <2>1. First(s, 0) = <<>>
    <3>1. 0 \in 0..Len(s)
      BY <1>1
    <3> QED
      BY <1>1, <3>1, FirstFacts
  <2>2. FoldTyped(D, E, step, base, <<>>) /\ FoldTyped(D, E, step2, base2, <<>>)
    BY <1>1, EmptySeq DEF FoldTyped
  <2>3. FoldBy(step, base, <<>>) = base
    BY <2>2, FoldByEmpty
  <2>4. FoldBy(step2, base2, <<>>) = base2
    BY <2>2, FoldByEmpty
  <2> QED
    BY <2>1, <2>3, <2>4 DEF FoldRelates
<1>3. ASSUME NEW n \in 0..Len(s), n # Len(s),
             <<FoldBy(step, base, First(s, n)), FoldBy(step2, base2, First(s, n))>> \in R
      PROVE  <<FoldBy(step, base, First(s, n + 1)), FoldBy(step2, base2, First(s, n + 1))>> \in R
  <2> DEFINE u == First(s, n)
             e == s[n + 1]
  <2>1. u \in Seq(E) /\ e \in E /\ First(s, n + 1) = Append(u, e)
    BY <1>1, <1>3, FirstFacts
  <2>2. n + 1 \in 1..Len(s)
    <3>1. Len(s) \in Nat /\ n \in Nat /\ n <= Len(s) /\ n # Len(s)
      BY <1>1, <1>3
    <3> HIDE <1>1, <1>3
    <3> QED
      BY <3>1
  <2>3. FoldTyped(D, E, step, base, u) /\ FoldTyped(D, E, step2, base2, u)
    BY <1>1, <2>1 DEF FoldTyped
  <2>4. FoldBy(step, base, u) \in D /\ FoldBy(step2, base2, u) \in D
    <3> HIDE DEF u
    <3>1. FoldBy(step, base, u) \in D
      BY <2>3, FoldByTyped
    <3>2. FoldBy(step2, base2, u) \in D
      BY <2>3, FoldByTyped
    <3> QED
      BY <3>1, <3>2
  <2>5. FoldBy(step, base, Append(u, e)) = step[FoldBy(step, base, u)][e]
    <3> HIDE DEF u, e
    <3> QED
      BY <2>1, <2>3, FoldByAppend
  <2>6. FoldBy(step2, base2, Append(u, e)) = step2[FoldBy(step2, base2, u)][e]
    <3> HIDE DEF u, e
    <3> QED
      BY <2>1, <2>3, FoldByAppend
  <2>7. <<step[FoldBy(step, base, u)][e], step2[FoldBy(step2, base2, u)][e]>> \in R
    BY <1>3, <2>2, <2>4 DEF FoldRelates
  <2> QED
    BY <2>1, <2>5, <2>6, <2>7
<1>4. 0 \in P
  BY <1>1, <1>2
<1>5. ASSUME NEW n \in 0..Len(s), n # Len(s), n \in P
      PROVE  n + 1 \in P
  <2>1. n + 1 \in 0..Len(s)
    <3>1. Len(s) \in Nat /\ n # Len(s)
      BY <1>1, <1>5
    <3> HIDE <1>1, <1>5
    <3> QED
      BY <3>1
  <2> QED
    BY <1>3, <1>5, <2>1
<1> HIDE DEF P
<1>7. Len(s) \in P
  BY <1>1, <1>4, <1>5, CountUp
<1>6. First(s, Len(s)) = s
  <2>1. Len(s) \in 0..Len(s)
    BY <1>1
  <2> QED
    BY <1>1, <2>1, FirstFacts
<1> QED
  BY <1>1, <1>6, <1>7 DEF P
=============================================================================
