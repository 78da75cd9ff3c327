-------------------------- MODULE MatcherTotalsProofs --------------------------
(***************************************************************************)
(* The quantity a price level says it holds is what its orders have left,  *)
(* and the book's structures agree, at every step and for every finite set *)
(* of ids, as long as the quantities of all open orders together fit in a  *)
(* word.                                                                   *)
(***************************************************************************)
EXTENDS MatcherListProofs

(***************************************************************************)
(* Sums over the subsets of a finite set.                                  *)
(***************************************************************************)

\* Induction over the subsets of a finite set, smaller ones first.
LEMMA SubsetInduction ==
  ASSUME NEW S, IsFiniteSet(S), NEW P, {} \in P,
         \A s \in SUBSET S : (s # {} /\ \A x \in s : s \ {x} \in P) => s \in P
  PROVE  \A s \in SUBSET S : s \in P
<1> DEFINE T == {n \in Nat : \A s \in SUBSET S : Cardinality(s) = n => s \in P}
<1>1. \A s \in SUBSET S : IsFiniteSet(s) /\ Cardinality(s) \in Nat
  BY FS_Subset, FS_CardinalityType
<1>2. 0 \in T
  <2>1. \A s \in SUBSET S : Cardinality(s) = 0 => s = {}
    BY <1>1, FS_EmptySet
  <2> QED BY <2>1
<1>3. ASSUME NEW n \in T
      PROVE  n + 1 \in T
  <2>1. ASSUME NEW s \in SUBSET S, Cardinality(s) = n + 1
        PROVE  s \in P
    <3>1. s # {}
      BY <2>1, FS_EmptySet
    <3>2. ASSUME NEW x \in s
          PROVE  s \ {x} \in P
      <4>1. Cardinality(s \ {x}) = n /\ s \ {x} \in SUBSET S
        BY <1>1, <2>1, FS_RemoveElement
      <4> QED BY <4>1
    <3> QED BY <3>1, <3>2
  <2> QED BY <2>1
<1>4. \A n \in Nat : n \in T
  <2> HIDE DEF T
  <2>1. T \in SUBSET Nat
    BY DEF T
  <2> QED BY <1>2, <1>3, <2>1, Induction
<1> QED BY <1>1, <1>4

First(s) == CHOOSE x \in s : TRUE

\* g sums the weights w over every subset of S, element by element.
Sums(w, S, g) ==
  g = [s \in SUBSET S |-> IF s = {} THEN 0 ELSE w[First(s)] + g[s \ {First(s)}]]

Sum(w, S) == (CHOOSE g : Sums(w, S, g))[S]

LEMMA FirstIn ==
  ASSUME NEW s, s # {}
  PROVE  First(s) \in s
BY DEF First

SameOn(w, v, S) == \A x \in S : w[x] = v[x]

\* Two such functions agree where the weights do.
LEMMA SumsAgree ==
  ASSUME NEW S, IsFiniteSet(S), NEW w, NEW v, SameOn(w, v, S),
         NEW A, NEW B, S \subseteq A, S \subseteq B,
         NEW g, NEW h, Sums(w, A, g), Sums(v, B, h)
  PROVE  g[S] = h[S]
<1> DEFINE P == {s \in SUBSET S : g[s] = h[s]}
<1>1. \A s \in SUBSET S :
        /\ g[s] = IF s = {} THEN 0 ELSE w[First(s)] + g[s \ {First(s)}]
        /\ h[s] = IF s = {} THEN 0 ELSE v[First(s)] + h[s \ {First(s)}]
  BY DEF Sums
<1>2. {} \in P
  BY <1>1
<1>3. ASSUME NEW s \in SUBSET S, s # {}, \A x \in s : s \ {x} \in P
      PROVE  s \in P
  BY <1>1, <1>3, FirstIn DEF SameOn
<1>4. \A s \in SUBSET S : s \in P
  <2> HIDE DEF P
  <2> QED BY <1>2, <1>3, SubsetInduction
<1> QED BY <1>4

\* Such a function for the subsets of up to n elements ...
SumsUpto(w, S, n, g) ==
  g = [s \in {t \in SUBSET S : Cardinality(t) <= n} |->
         IF s = {} THEN 0 ELSE w[First(s)] + g[s \ {First(s)}]]

LEMMA SumsUptoExists ==
  ASSUME NEW S, IsFiniteSet(S), NEW w
  PROVE  \A n \in Nat : \E g : SumsUpto(w, S, n, g)
<1> DEFINE T == {n \in Nat : \E g : SumsUpto(w, S, n, g)}
<1>1. \A s \in SUBSET S : IsFiniteSet(s) /\ Cardinality(s) \in Nat
  BY FS_Subset, FS_CardinalityType
<1>2. 0 \in T
  <2> DEFINE g == [s \in {t \in SUBSET S : Cardinality(t) <= 0} |-> 0]
  <2>1. \A s \in {t \in SUBSET S : Cardinality(t) <= 0} : s = {}
    BY <1>1, FS_EmptySet
  <2>2. g = [s \in {t \in SUBSET S : Cardinality(t) <= 0} |->
               IF s = {} THEN 0 ELSE w[First(s)] + g[s \ {First(s)}]]
    BY <2>1
  <2> HIDE DEF g
  <2> QED BY <2>2 DEF SumsUpto
<1>3. ASSUME NEW n \in T
      PROVE  n + 1 \in T
  <2>1. PICK g : SumsUpto(w, S, n, g)
    OBVIOUS
  <2> DEFINE small == {t \in SUBSET S : Cardinality(t) <= n}
             large == {t \in SUBSET S : Cardinality(t) <= n + 1}
             h     == [s \in large |-> IF s = {} THEN 0 ELSE w[First(s)] + g[s \ {First(s)}]]
  <2>2. \A s \in small : g[s] = IF s = {} THEN 0 ELSE w[First(s)] + g[s \ {First(s)}]
    BY <2>1 DEF SumsUpto
  <2>3. \A s \in large : s # {} => s \ {First(s)} \in small
    BY <1>1, FirstIn, FS_RemoveElement
  <2>4. small \subseteq large
    BY <1>1
  <2>5. \A s \in small : h[s] = g[s]
    BY <2>2, <2>4
  <2>6. h = [s \in large |-> IF s = {} THEN 0 ELSE w[First(s)] + h[s \ {First(s)}]]
    BY <2>3, <2>5
  <2>7. SumsUpto(w, S, n + 1, h)
    <3> HIDE DEF h
    <3> QED BY <2>6 DEF SumsUpto
  <2> QED BY <2>7
<1> HIDE DEF T
<1>4. T \in SUBSET Nat
  BY DEF T
<1>5. \A n \in Nat : n \in T
  BY <1>2, <1>3, <1>4, Induction
<1> QED BY <1>5 DEF T

\* ... and for all subsets.
LEMMA SumsExists ==
  ASSUME NEW S, IsFiniteSet(S), NEW w
  PROVE  \E g : Sums(w, S, g)
<1>1. Cardinality(S) \in Nat
  BY FS_CardinalityType
<1>2. PICK g : SumsUpto(w, S, Cardinality(S), g)
  BY <1>1, SumsUptoExists
<1>3. {t \in SUBSET S : Cardinality(t) <= Cardinality(S)} = SUBSET S
  BY FS_Subset
<1> QED BY <1>2, <1>3 DEF Sums, SumsUpto

\* A sum is what each such function says.
LEMMA SumIs ==
  ASSUME NEW A, IsFiniteSet(A), NEW S \in SUBSET A, NEW w, NEW g, Sums(w, A, g)
  PROVE  Sum(w, S) = g[S]
<1>1. IsFiniteSet(S)
  BY FS_Subset
<1> DEFINE h == CHOOSE f : Sums(w, S, f)
<1>2. Sums(w, S, h)
  BY <1>1, SumsExists
<1> HIDE DEF h
<1>3. S \subseteq S /\ S \subseteq A /\ SameOn(w, w, S)
  BY DEF SameOn
<1>4. h[S] = g[S]
  BY <1>1, <1>2, <1>3, SumsAgree
<1> QED BY <1>4 DEF Sum, h

\* The sum of the empty set, and what the first element adds.
LEMMA SumUnfolds ==
  ASSUME NEW S, IsFiniteSet(S), NEW w
  PROVE  /\ Sum(w, {}) = 0
         /\ S # {} => Sum(w, S) = w[First(S)] + Sum(w, S \ {First(S)})
<1>1. PICK g : Sums(w, S, g)
  BY SumsExists
<1>2. \A s \in SUBSET S : g[s] = IF s = {} THEN 0 ELSE w[First(s)] + g[s \ {First(s)}]
  BY <1>1 DEF Sums
<1>3. \A s \in SUBSET S : Sum(w, s) = g[s]
  BY <1>1, SumIs
<1> QED BY <1>2, <1>3

\* Sums of natural numbers are natural numbers.
LEMMA SumNat ==
  ASSUME NEW S, IsFiniteSet(S), NEW w, \A x \in S : w[x] \in Nat
  PROVE  \A s \in SUBSET S : Sum(w, s) \in Nat
<1> DEFINE P == {s \in SUBSET S : Sum(w, s) \in Nat}
<1>1. {} \in P
  <2>1. Sum(w, {}) = 0
    BY SumUnfolds
  <2> QED BY <2>1
<1>2. ASSUME NEW s \in SUBSET S, s # {}, \A x \in s : s \ {x} \in P
      PROVE  s \in P
  <2>1. First(s) \in s /\ IsFiniteSet(s)
    BY <1>2, FirstIn, FS_Subset
  <2>2. Sum(w, s) = w[First(s)] + Sum(w, s \ {First(s)})
    BY <1>2, <2>1, SumUnfolds
  <2> QED BY <1>2, <2>1, <2>2
<1> HIDE DEF P
<1>3. \A s \in SUBSET S : s \in P
  BY <1>1, <1>2, SubsetInduction
<1> QED BY <1>3 DEF P

\* Any element may be taken out first.
LEMMA SumTakesAny ==
  ASSUME NEW S, IsFiniteSet(S), NEW w, \A x \in S : w[x] \in Nat
  PROVE  \A s \in SUBSET S : \A y \in s : Sum(w, s) = w[y] + Sum(w, s \ {y})
<1> DEFINE P == {s \in SUBSET S : \A y \in s : Sum(w, s) = w[y] + Sum(w, s \ {y})}
<1>1. {} \in P
  OBVIOUS
<1>2. ASSUME NEW s \in SUBSET S, s # {}, \A x \in s : s \ {x} \in P
      PROVE  s \in P
  <2> DEFINE x == First(s)
  <2>1. x \in s /\ IsFiniteSet(s)
    BY <1>2, FirstIn, FS_Subset
  <2>2. Sum(w, s) = w[x] + Sum(w, s \ {x})
    BY <1>2, <2>1, SumUnfolds
  <2> HIDE DEF x
  <2>3. ASSUME NEW y \in s, y # x
        PROVE  Sum(w, s) = w[y] + Sum(w, s \ {y})
    <3> DEFINE both == (s \ {x}) \ {y}
    <3>1. Sum(w, s \ {x}) = w[y] + Sum(w, both)
      BY <1>2, <2>1, <2>3
    <3>2. (s \ {y}) \ {x} = both /\ x \in s \ {y}
      BY <2>1, <2>3
    <3>3. Sum(w, s \ {y}) = w[x] + Sum(w, both)
      BY <1>2, <2>3, <3>2
    <3>4. Sum(w, both) \in Nat /\ w[x] \in Nat /\ w[y] \in Nat
      BY <2>1, SumNat
    <3> HIDE DEF both
    <3> QED BY <2>2, <3>1, <3>3, <3>4
  <2> QED BY <2>2, <2>3
<1> HIDE DEF P
<1>3. \A s \in SUBSET S : s \in P
  BY <1>1, <1>2, SubsetInduction
<1> QED BY <1>3 DEF P

\* Sums depend on the weights of the set's own elements only.
LEMMA SumAgrees ==
  ASSUME NEW S, IsFiniteSet(S), NEW w, NEW v, SameOn(w, v, S)
  PROVE  Sum(w, S) = Sum(v, S)
<1>1. PICK g : Sums(w, S, g)
  BY SumsExists
<1>2. PICK h : Sums(v, S, h)
  BY SumsExists
<1>3. S \subseteq S
  OBVIOUS
<1>4. g[S] = h[S]
  BY <1>1, <1>2, <1>3, SumsAgree
<1>5. Sum(w, S) = g[S] /\ Sum(v, S) = h[S]
  BY <1>1, <1>2, SumIs
<1> QED BY <1>4, <1>5

\* Small weights have a small sum.
LEMMA SumBound ==
  ASSUME NEW S, IsFiniteSet(S), NEW q \in Nat, NEW w, \A x \in S : w[x] \in Nat /\ w[x] <= q
  PROVE  Sum(w, S) <= q * Cardinality(S)
<1> DEFINE P == {s \in SUBSET S : Sum(w, s) <= q * Cardinality(s)}
<1>1. {} \in P
  <2>1. Sum(w, {}) = 0 /\ Cardinality({}) = 0
    BY SumUnfolds, FS_EmptySet
  <2> QED BY <2>1
<1>2. ASSUME NEW s \in SUBSET S, s # {}, \A x \in s : s \ {x} \in P
      PROVE  s \in P
  <2> DEFINE x == First(s)
             n == Cardinality(s \ {x})
             m == Sum(w, s \ {x})
  <2>1. x \in s /\ IsFiniteSet(s)
    BY <1>2, FirstIn, FS_Subset
  <2>2. Sum(w, s) = w[x] + m
    BY <1>2, <2>1, SumUnfolds
  <2>3. n \in Nat /\ Cardinality(s) = n + 1
    <3>1. Cardinality(s) \in Nat /\ IsFiniteSet(s \ {x}) /\ n = Cardinality(s) - 1
      BY <2>1, FS_RemoveElement, FS_CardinalityType
    <3>2. n \in Nat
      BY <3>1, FS_CardinalityType
    <3> QED BY <3>1, <3>2
  <2>4. m \in Nat /\ w[x] \in Nat /\ w[x] <= q
    BY <2>1, SumNat
  <2>5. m <= q * n
    BY <1>2, <2>1
  <2> HIDE DEF n, m, x
  <2>6. q * n \in Nat /\ q * (n + 1) = q * n + q
    BY <2>3
  <2>7. Sum(w, s) <= q * (n + 1)
    BY <2>2, <2>4, <2>5, <2>6
  <2> QED BY <2>3, <2>7
<1> HIDE DEF P
<1>3. \A s \in SUBSET S : s \in P
  BY <1>1, <1>2, SubsetInduction
<1> QED BY <1>3 DEF P

(***************************************************************************)
(* What a set of orders has left.                                          *)
(***************************************************************************)

Left(a, S) == MapThenSumSet(LAMBDA s : a[s].remaining, S)

Sizes(a) == [s \in DOMAIN a |-> a[s].remaining]

\* The unfolding of the community modules' sum, for the remainders of orders.
AddsUp(a, S, g) ==
  g = [s \in SUBSET S |-> IF s = {} THEN 0
                          ELSE LET x == CHOOSE x \in s : TRUE
                               IN  a[x].remaining + g[s \ {x}]]

LEMMA LeftIsSum ==
  ASSUME NEW a, NEW S, S \subseteq DOMAIN a, IsFiniteSet(S)
  PROVE  Left(a, S) = Sum(Sizes(a), S)
<1>1. Left(a, S) = (CHOOSE g : AddsUp(a, S, g))[S]
  BY DEF Left, MapThenSumSet, MapThenFoldSet, AddsUp
<1>2. ASSUME NEW s \in SUBSET S, s # {}
      PROVE  Sizes(a)[First(s)] = a[CHOOSE x \in s : TRUE].remaining
  BY <1>2, FirstIn DEF First, Sizes
<1>3. ASSUME NEW g
      PROVE  [s \in SUBSET S |-> IF s = {} THEN 0 ELSE Sizes(a)[First(s)] + g[s \ {First(s)}]]
               = [s \in SUBSET S |-> IF s = {} THEN 0
                                     ELSE LET x == CHOOSE x \in s : TRUE
                                          IN  a[x].remaining + g[s \ {x}]]
  BY <1>2 DEF First
<1>4. ASSUME NEW g, Sums(Sizes(a), S, g)
      PROVE  AddsUp(a, S, g)
  BY Zenon, <1>3, <1>4 DEF Sums, AddsUp
<1>5. ASSUME NEW g, AddsUp(a, S, g)
      PROVE  Sums(Sizes(a), S, g)
  BY Zenon, <1>3, <1>5 DEF Sums, AddsUp
<1>6. \E g : AddsUp(a, S, g)
  BY <1>4, SumsExists
<1> DEFINE h == CHOOSE g : AddsUp(a, S, g)
<1>7. AddsUp(a, S, h)
  BY <1>6
<1> HIDE DEF h
<1>8. Sums(Sizes(a), S, h)
  BY <1>5, <1>7
<1>9. Sum(Sizes(a), S) = h[S]
  BY <1>8, SumIs
<1> QED BY <1>1, <1>9 DEF h

\* Orders with remainders that are natural numbers.
Sized(a, S) == S \subseteq DOMAIN a /\ IsFiniteSet(S) /\ \A s \in S : a[s].remaining \in Nat

LEMMA LeftOfNone ==
  ASSUME NEW a
  PROVE  Left(a, {}) = 0
BY LeftIsSum, SumUnfolds, FS_EmptySet

LEMMA LeftNat ==
  ASSUME NEW a, NEW S, Sized(a, S)
  PROVE  Left(a, S) \in Nat
<1>1. \A s \in S : Sizes(a)[s] \in Nat
  BY DEF Sized, Sizes
<1> QED BY <1>1, LeftIsSum, SumNat DEF Sized

\* An order more or less.
LEMMA LeftTakes ==
  ASSUME NEW a, NEW S, Sized(a, S), NEW y \in S
  PROVE  Left(a, S) = a[y].remaining + Left(a, S \ {y}) /\ Sized(a, S \ {y})
<1>1. \A s \in S : Sizes(a)[s] \in Nat
  BY DEF Sized, Sizes
<1>2. Sized(a, S \ {y})
  BY FS_RemoveElement DEF Sized
<1>3. Sum(Sizes(a), S) = Sizes(a)[y] + Sum(Sizes(a), S \ {y})
  BY <1>1, SumTakesAny DEF Sized
<1>4. Sizes(a)[y] = a[y].remaining
  BY DEF Sized, Sizes
<1>5. Left(a, S) = Sum(Sizes(a), S) /\ Left(a, S \ {y}) = Sum(Sizes(a), S \ {y})
  BY <1>2, LeftIsSum DEF Sized
<1> QED BY <1>2, <1>3, <1>4, <1>5

\* The orders of S have the same left in both arenas.
SameLeft(a, c, S) ==
  \A s \in S : s \in DOMAIN a /\ s \in DOMAIN c /\ c[s].remaining = a[s].remaining

LEMMA LeftAgrees ==
  ASSUME NEW a, NEW c, NEW S, IsFiniteSet(S), SameLeft(a, c, S)
  PROVE  Left(c, S) = Left(a, S)
<1>1. SameOn(Sizes(a), Sizes(c), S)
  BY DEF SameLeft, SameOn, Sizes
<1>2. S \subseteq DOMAIN a /\ S \subseteq DOMAIN c
  BY DEF SameLeft
<1> QED BY <1>1, <1>2, LeftIsSum, SumAgrees

\* Small orders have little left together.
LEMMA LeftBound ==
  ASSUME NEW a, NEW S, Sized(a, S), NEW q \in Nat, \A s \in S : a[s].remaining <= q,
         NEW n \in Nat, Cardinality(S) <= n
  PROVE  Left(a, S) <= q * n
<1>1. \A s \in S : Sizes(a)[s] \in Nat /\ Sizes(a)[s] <= q
  BY DEF Sized, Sizes
<1> DEFINE m == Cardinality(S)
<1>2. Left(a, S) <= q * m
  BY <1>1, LeftIsSum, SumBound DEF Sized
<1>3. m \in Nat /\ Left(a, S) \in Nat
  BY LeftNat, FS_CardinalityType DEF Sized
<1> HIDE DEF m
<1>4. PICK k \in Nat : n = m + k
  <2>1. n - m \in Nat /\ n = m + (n - m)
    BY <1>3 DEF m
  <2> QED BY <2>1
<1>5. q * n = q * m + q * k /\ q * k \in Nat /\ q * m \in Nat
  BY <1>3, <1>4
<1> QED BY <1>2, <1>3, <1>5

(***************************************************************************)
(* What the operations of the book write into the total of a level.        *)
(***************************************************************************)

LEMMA PopHeadTotal ==
  ASSUME NEW b, BookTypeOK(b), NEW side \in Side, NEW price \in DOMAIN b.levels[side],
         NEW head, head = b.levels[side][price].head, head \in DOMAIN b.arena
  PROVE  \E left : /\ left.total = SaturatingSub(b.levels[side][price].total,
                                                 b.arena[head].remaining)
                   /\ PutAt(b, PopHead(b, side, price), side, price, left)
<1> DEFINE new   == PopHead(b, side, price)
           level == b.levels[side][price]
           order == b.arena[head]
           left  == [head  |-> order.next,
                     tail  |-> IF order.next = None THEN None ELSE level.tail,
                     total |-> SaturatingSub(level.total, order.remaining)]
           set   == SetLevel(b, side, price, left)
<1>1. order \in Order /\ level \in Level /\ price \in Price
  BY DEF BookTypeOK, IsMap
<1>2. left \in Level
  BY <1>1, WordLemma DEF Level, Order, Optional
<1>3. left.total = SaturatingSub(level.total, order.remaining)
  OBVIOUS
<1>4. new = [set EXCEPT !.arena = SetPrev(@, order.next, None)]
  BY DEF PopHead
<1> HIDE DEF left
<1>5. BookTypeOK(set) /\ set.levels = [b.levels EXCEPT ![side] = Put(@, price, left)]
  BY <1>1, <1>2, SetLevelType
<1> HIDE DEF set, new
<1>6. new.levels = set.levels
  BY <1>4, <1>5 DEF BookTypeOK, IsBook
<1> QED BY <1>3, <1>5, <1>6 DEF PutAt, new

LEMMA ReinsertTotal ==
  ASSUME NEW b, BookTypeOK(b), NEW side \in Side, NEW price \in Price,
         NEW slot \in DOMAIN b.arena
  PROVE  \E full : /\ full.total = Plus(LevelAt(b, side, price).total, b.arena[slot].remaining)
                   /\ PutAt(b, ReinsertAtHead(b, slot, side, price), side, price, full)
<1> DEFINE level == LevelAt(b, side, price)
           wired == [b.arena EXCEPT ![slot].prev = None, ![slot].next = level.head]
           full  == [head  |-> slot,
                     tail  |-> IF level.tail = None THEN slot ELSE level.tail,
                     total |-> Plus(level.total, b.arena[slot].remaining)]
           set   == SetLevel(b, side, price, full)
           new   == ReinsertAtHead(b, slot, side, price)
<1>1. b.arena[slot] \in Order /\ slot \in Slot /\ level \in Level
  BY LevelAtType DEF BookTypeOK, IsMap
<1>2. full \in Level
  BY <1>1, WordLemma DEF Level, Order, Optional
<1>3. full.total = Plus(level.total, b.arena[slot].remaining)
  OBVIOUS
<1>4. new = [set EXCEPT !.arena = SetPrev(wired, level.head, slot)]
  BY DEF ReinsertAtHead
<1> HIDE DEF full, wired
<1>5. BookTypeOK(set) /\ set.levels = [b.levels EXCEPT ![side] = Put(@, price, full)]
  BY <1>2, SetLevelType
<1> HIDE DEF set, new
<1>6. new.levels = set.levels
  BY <1>4, <1>5 DEF BookTypeOK, IsBook
<1> QED BY <1>3, <1>5, <1>6 DEF PutAt, new

LEMMA RestTotal ==
  ASSUME NEW b, BookTypeOK(b), NEW slot \in DOMAIN b.arena,
         NEW side, NEW price, PlacedAt(b.arena[slot], side, price)
  PROVE  \E full : /\ full.total = Plus(LevelAt(b, side, price).total, b.arena[slot].remaining)
                   /\ PutAt(b, InsertResting(b, slot), side, price, full)
<1> DEFINE order == b.arena[slot]
           level == LevelAt(b, side, price)
           full  == PushBack(level, slot, order.remaining)
<1>1. order.side = side /\ order.price = price
  BY DEF PlacedAt
<1>2. PutAt(b, InsertResting(b, slot), side, price, full)
  BY <1>1, InsertRestingType DEF PutAt
<1>3. full.total = Plus(level.total, order.remaining)
  BY DEF PushBack
<1> QED BY <1>2, <1>3

LEMMA RemoveSlotTotal ==
  ASSUME NEW b, BookTypeOK(b), NEW slot \in DOMAIN b.arena,
         NEW side \in Side, NEW price \in DOMAIN b.levels[side], NEW qty \in Qty
  PROVE  \E level : /\ level.total = SaturatingSub(b.levels[side][price].total, qty)
                    /\ LevelsBut(b, RemoveSlot(b, slot, side, price, qty), side, price, level)
<1> DEFINE order    == b.arena[slot]
           half     == SetNext(b.arena, order.prev, order.next)
           stitched == SetPrev(half, order.next, order.prev)
           level    == b.levels[side][price]
           shrunk   == [head  |-> IF level.head = slot THEN order.next ELSE level.head,
                        tail  |-> IF level.tail = slot THEN order.prev ELSE level.tail,
                        total |-> SaturatingSub(level.total, qty)]
           unlinked == [b EXCEPT !.arena = stitched]
           set      == SetLevel(unlinked, side, price, shrunk)
           new      == RemoveSlot(b, slot, side, price, qty)
<1>1. order \in Order /\ IsMap(b.arena, Slot, Order) /\ price \in Price /\ level \in Level
  BY DEF BookTypeOK, IsMap
<1>2. order.prev \in Optional(Slot) /\ order.next \in Optional(Slot)
  BY <1>1 DEF Order
<1>3. shrunk \in Level
  BY <1>1, <1>2, WordLemma DEF Level
<1>4. IsMap(half, Slot, Order)
  BY <1>1, <1>2, LinkType
<1>5. IsMap(stitched, Slot, Order)
  <2> HIDE DEF half
  <2> QED BY <1>2, <1>4, LinkType
<1>6. new = RemoveEmpty(set, side, price)
  BY DEF RemoveSlot, LevelAt
<1>7. shrunk.total = SaturatingSub(level.total, qty)
  OBVIOUS
<1> HIDE DEF stitched, shrunk, new
<1>8. BookTypeOK(unlinked) /\ unlinked.levels = b.levels
  BY <1>5, SetArenaType
<1> HIDE DEF unlinked
<1>9. BookTypeOK(set) /\ set.levels = [b.levels EXCEPT ![side] = Put(@, price, shrunk)]
  BY <1>1, <1>3, <1>8, SetLevelType
<1> HIDE DEF set
<1>10. LevelsBut(b, new, side, price, shrunk)
  BY <1>1, <1>6, <1>9, PutOrGone
<1> QED BY <1>7, <1>10 DEF new

(***************************************************************************)
(* Steps that leave the levels alone: an order joins the arena or leaves   *)
(* it, and it does not rest in the book.                                   *)
(***************************************************************************)

Joins(b, c, slot, order) ==
  /\ slot \notin DOMAIN b.arena
  /\ DOMAIN c.arena = DOMAIN b.arena \cup {slot} /\ c.arena[slot] = order
  /\ \A s \in DOMAIN b.arena : c.arena[s] = b.arena[s]
  /\ c.levels = b.levels

Leaves(b, c, slot) ==
  /\ DOMAIN c.arena = DOMAIN b.arena \ {slot}
  /\ \A s \in DOMAIN c.arena : c.arena[s] = b.arena[s]
  /\ c.levels = b.levels

LEMMA StartMatchJoins ==
  ASSUME Inv, StartMatch
  PROVE  Joins(book, book', VacantSlot(book), OrderOf(Top.order))
<1>1. OrderOf(Top.order) \in Order /\ book' = ArenaInsert(book, OrderOf(Top.order))
  BY AcceptedType DEF StartMatch
<1> QED BY <1>1, ArenaGains DEF Inv, Joins

LEMMA HoldStopJoins ==
  ASSUME Inv, HoldStop
  PROVE  Joins(book, book', VacantSlot(book), OrderOf(Top.order))
<1> DEFINE no    == Top.order
           order == OrderOf(no)
           slot  == VacantSlot(book)
           loc   == [slot |-> slot, side |-> no.side, price |-> no.stop_price]
           put   == ArenaInsert(book, order)
           known == IndexInsert(put, no.id, loc)
<1>1. /\ no \in NewOrder /\ order \in Order
      /\ book' = HoldStopAt(known, no.side, no.stop_price, slot)
  BY AcceptedType DEF HoldStop
<1>2. no.id \in OrderId /\ no.side \in Side /\ no.stop_price \in Price
  BY <1>1 DEF NewOrder
<1> HIDE DEF no, order
<1>3. /\ slot \notin DOMAIN book.arena /\ slot \in Slot
      /\ DOMAIN put.arena = DOMAIN book.arena \cup {slot} /\ put.arena[slot] = order
      /\ \A s \in DOMAIN book.arena : put.arena[s] = book.arena[s]
      /\ put.levels = book.levels /\ BookTypeOK(put)
  BY <1>1, ArenaGains DEF Inv
<1>4. loc \in Location
  BY <1>2, <1>3 DEF Location
<1> HIDE DEF put, loc, slot
<1>5. BookTypeOK(known) /\ known.levels = put.levels /\ known.arena = put.arena
  BY <1>2, <1>3, <1>4, IndexType
<1> HIDE DEF known
<1>6. book'.levels = known.levels /\ book'.arena = known.arena
  BY <1>1, <1>2, <1>3, <1>5, HoldStopType
<1> QED BY <1>3, <1>5, <1>6 DEF Joins, slot, order, no

LEMMA TakerIsGone ==
  ASSUME Inv, FinishFilled \/ CancelRest
  PROVE  Leaves(book, book', Top.slot)
<1> DEFINE mid == ArenaRemove(book, Top.slot)
<1>1. Matching /\ (book' = mid \/ book' = IndexRemove(mid, Taker.id))
  BY DEF FinishFilled, CancelRest
<1>2. Taker.id \in OrderId /\ Top.slot \in Slot /\ BookTypeOK(book)
  BY <1>1, InvType, TakerType DEF Order, Inv, BookSound
<1>3. BookTypeOK(mid) /\ mid.arena = Drop(book.arena, Top.slot) /\ mid.levels = book.levels
  BY <1>2, ArenaRemoveType
<1> HIDE DEF mid
<1>4. book'.arena = mid.arena /\ book'.levels = mid.levels
  BY <1>1, <1>2, <1>3, IndexType
<1> QED BY <1>3, <1>4 DEF Leaves, Drop

LEMMA FiredIsGone ==
  ASSUME Inv, NEW p, FireStop(p), NEW slot, slot = Head(Top.todo[p])
  PROVE  Leaves(book, book', slot)
<1> DEFINE id  == book.arena[slot].id
           mid == IndexRemove(book, id)
<1>1. slot \in DOMAIN book.arena /\ book' = ArenaRemove(mid, slot)
  BY DEF FireStop
<1>2. BookTypeOK(book) /\ slot \in Slot /\ id \in OrderId
  BY <1>1 DEF Inv, BookSound, BookTypeOK, IsMap, Order
<1> HIDE DEF id
<1>3. BookTypeOK(mid) /\ mid.arena = book.arena /\ mid.levels = book.levels
  BY <1>2, IndexType
<1> HIDE DEF mid
<1>4. book'.arena = Drop(mid.arena, slot) /\ book'.levels = mid.levels
  BY <1>1, <1>2, <1>3, ArenaRemoveType
<1> QED BY <1>3, <1>4 DEF Leaves, Drop

(***************************************************************************)
(* The call on top after a step.                                           *)
(***************************************************************************)

LEMMA NextCall ==
  ASSUME Inv, stack # <<>>
  PROVE  /\ Return => (stack' # <<>> => stack'[Len(stack')].call = "trigger_stops")
         /\ \A frame : Become(frame) => stack' # <<>> /\ stack'[Len(stack')] = frame
         /\ \A frame, callee : FrameOK(frame) /\ CallFrom(frame, callee) =>
              stack' # <<>> /\ stack'[Len(stack')] = callee
<1>1. StackSound(stack) /\ Len(stack) \in 1 .. Len(stack)
  BY StackIn DEF Inv
<1>2. Return => (stack' # <<>> => stack'[Len(stack')].call = "trigger_stops")
  BY <1>1, ReturnSound DEF Return
<1>3. ASSUME NEW frame, Become(frame)
      PROVE  stack' # <<>> /\ stack'[Len(stack')] = frame
  BY <1>1, <1>3, BecomeShape DEF Become
<1>4. ASSUME NEW frame, NEW callee, FrameOK(frame), CallFrom(frame, callee)
      PROVE  stack' # <<>> /\ stack'[Len(stack')] = callee
  <2> DEFINE below == [stack EXCEPT ![Len(stack)] = frame]
  <2>1. StackSound(below) /\ below # <<>>
    BY <1>1, <1>4, BecomeSound
  <2>2. stack' = Append(below, callee)
    BY <1>4 DEF CallFrom
  <2> HIDE DEF below
  <2>3. /\ stack' # <<>> /\ Len(stack') = Len(below) + 1
        /\ stack'[Len(below) + 1] = callee
    BY <2>1, <2>2, PushShape
  <2> QED BY <2>3
<1> QED BY <1>2, <1>3, <1>4

\* The call on top, if there is one, is trigger_stops, or none is.
ThenTriggers == stack # <<>> /\ (stack' # <<>> => stack'[Len(stack')].call = "trigger_stops")

\* What the innermost call is once a step of apply is done.
LEMMA EndsThen ==
  ASSUME Inv, stack # <<>>
  PROVE  /\ Return => ThenTriggers
         /\ \A b, side, last : Become(TriggerStops(b, side, last)) => ThenTriggers
<1>1. ASSUME Return
      PROVE  ThenTriggers
  BY <1>1, NextCall DEF ThenTriggers
<1>2. ASSUME NEW b, NEW side, NEW last, Become(TriggerStops(b, side, last))
      PROVE  ThenTriggers
  <2> DEFINE frame == TriggerStops(b, side, last)
  <2>1. frame.call = "trigger_stops" /\ Become(frame)
    BY <1>2 DEF TriggerStops
  <2> HIDE DEF frame
  <2> QED BY <2>1, NextCall DEF ThenTriggers
<1> QED BY <1>1, <1>2

LEMMA CallAfter ==
  ASSUME Inv
  PROVE  /\ RejectNew \/ KillFok \/ HoldStop => ThenTriggers
         /\ FinishFilled \/ CancelRest \/ Rest \/ EndStops => ThenTriggers
         /\ StartMatch => /\ stack # <<>> /\ stack' # <<>>
                          /\ stack'[Len(stack')] = MatchOrder(VacantSlot(book), 0)
<1>1. ASSUME RejectNew \/ KillFok \/ HoldStop
      PROVE  ThenTriggers
  <2>1. stack # <<>> /\ Return
    BY Zenon, <1>1 DEF RejectNew, KillFok, HoldStop, In
  <2> QED BY Zenon, <2>1, EndsThen
<1>2. ASSUME FinishFilled \/ CancelRest \/ Rest
      PROVE  ThenTriggers
  <2>1. stack # <<>> /\ ThenStops
    BY Zenon, <1>2 DEF FinishFilled, CancelRest, Rest, Matching, In
  <2>2. Return \/ Become(TriggerStops(book, "Buy", book.last))
    BY Zenon, <2>1 DEF ThenStops
  <2> QED BY Zenon, <2>1, <2>2, EndsThen
<1>3. ASSUME EndStops
      PROVE  ThenTriggers
  <2>1. stack # <<>> /\ (Return \/ Become(TriggerStops(book, "Sell", Top.last)))
    BY Zenon, <1>3 DEF EndStops, Triggering, In
  <2> QED BY Zenon, <2>1, EndsThen
<1>4. ASSUME StartMatch
      PROVE  stack # <<>> /\ stack' # <<>> /\ stack'[Len(stack')] = MatchOrder(VacantSlot(book), 0)
  <2>1. stack # <<>> /\ Become(MatchOrder(VacantSlot(book), 0))
    BY Zenon, <1>4 DEF StartMatch, In
  <2> QED BY Zenon, <2>1, NextCall
<1> QED BY Zenon, <1>1, <1>2, <1>3, <1>4

LEMMA CallAfterTrade ==
  ASSUME Inv, Whole(book, stack), Matching, NEW price, TradesAt(price), CountFill(price)
  PROVE  /\ stack' # <<>> /\ stack'[Len(stack')].call = "match_order"
         /\ stack'[Len(stack')].slot = Top.slot
<1> DEFINE frame == [Top EXCEPT !.filled = Plus(@, TradeQty(price))]
<1>1. Top = MatchOrder(Top.slot, Top.filled) /\ stack # <<>>
  BY InvType, TakerType DEF Matching, In
<1>2. frame.call = "match_order" /\ frame.slot = Top.slot
  BY <1>1 DEF MatchOrder
<1>3. Become(frame)
  BY DEF CountFill
<1> HIDE DEF frame
<1> QED BY <1>1, <1>2, <1>3, NextCall

LEMMA CallAfterVisit ==
  ASSUME Inv, Whole(book, stack), Triggering, NEW p \in DOMAIN Top.todo
  PROVE  /\ SkipStop(p) => stack' # <<>> /\ stack'[Len(stack')].call = "trigger_stops"
         /\ FireStop(p) =>
              /\ Head(Top.todo[p]) \in DOMAIN book.arena /\ stack' # <<>>
              /\ stack'[Len(stack')].call = "apply_new"
              /\ stack'[Len(stack')].order.qty = book.arena[Head(Top.todo[p])].remaining
              /\ stack'[Len(stack')].order.id = book.arena[Head(Top.todo[p])].id
<1>1. stack # <<>> /\ Popped(p).call = "trigger_stops"
  BY InTrigger, PoppedCollected
<1>2. ASSUME SkipStop(p)
      PROVE  stack' # <<>> /\ stack'[Len(stack')].call = "trigger_stops"
  BY <1>1, <1>2, NextCall DEF SkipStop
<1>3. ASSUME FireStop(p)
      PROVE  /\ Head(Top.todo[p]) \in DOMAIN book.arena /\ stack' # <<>>
             /\ stack'[Len(stack')].call = "apply_new"
             /\ stack'[Len(stack')].order.qty = book.arena[Head(Top.todo[p])].remaining
             /\ stack'[Len(stack')].order.id = book.arena[Head(Top.todo[p])].id
  <2> DEFINE stop == book.arena[Head(Top.todo[p])]
             no   == [id |-> stop.id, side |-> stop.side,
                      kind |-> IF stop.kind = "StopMarket" THEN "Market" ELSE "Limit",
                      price |-> stop.price, stop_price |-> 0, qty |-> stop.remaining]
  <2>1. Head(Top.todo[p]) \in DOMAIN book.arena /\ CallFrom(Popped(p), ApplyNew(no))
    BY <1>3 DEF FireStop
  <2>2. FrameOK(Popped(p))
    BY InTrigger, PoppedFrame
  <2>3. /\ no.qty = stop.remaining /\ no.id = stop.id
        /\ ApplyNew(no).call = "apply_new" /\ ApplyNew(no).order = no
    BY DEF ApplyNew
  <2> HIDE DEF no, stop
  <2>4. stack' # <<>> /\ stack'[Len(stack')] = ApplyNew(no)
    BY <1>1, <2>1, <2>2, NextCall
  <2> QED BY <2>1, <2>3, <2>4 DEF stop
<1> QED BY <1>2, <1>3

(***************************************************************************)
(* Trades and cancels, which change one level.                             *)
(***************************************************************************)

LEMMA TradedTotal ==
  ASSUME Inv, Whole(book, stack), Matching, NEW price, TradesAt(price)
  PROVE  \E left : /\ left.total = SaturatingSub(book.levels[Other][price].total,
                                                 book.arena[MakerAt(price)].remaining)
                   /\ PutAt(book, Traded(price), Other, price, left)
<1> DEFINE popped == PopHead(book, Other, price)
           maker  == MakerAt(price)
<1>1. /\ Other \in Side /\ price \in DOMAIN book.levels[Other] /\ BookTypeOK(book)
      /\ maker \in DOMAIN book.arena /\ maker = book.levels[Other][price].head
  BY MakerRests DEF RestingMaker, Inv, BookSound
<1> HIDE DEF maker
<1>2. PICK left : /\ left.total = SaturatingSub(book.levels[Other][price].total,
                                                book.arena[maker].remaining)
                  /\ PutAt(book, popped, Other, price, left)
  BY <1>1, PopHeadTotal
<1>3. BookTypeOK(popped)
  BY <1>1, PopHeadType
<1> HIDE DEF popped
<1>4. Traded(price).levels = popped.levels
  <2>1. \E arena : Traded(price) = [popped EXCEPT !.arena = arena, !.last = price]
    BY DEF Traded, popped
  <2> QED BY <1>3, <2>1 DEF BookTypeOK, IsBook
<1> QED BY <1>2, <1>4 DEF PutAt, maker

\* A maker that is used up leaves the book.
LEMMA FillMakerTotal ==
  ASSUME Inv, Whole(book, stack), Matching, NEW price, FillMaker(price)
  PROVE  /\ book'.arena = Drop(Traded(price).arena, MakerAt(price))
         /\ \E left : /\ left.total = SaturatingSub(book.levels[Other][price].total,
                                                    book.arena[MakerAt(price)].remaining)
                      /\ LevelsBut(book, book', Other, price, left)
<1> DEFINE maker == MakerAt(price)
           new   == Traded(price)
           id    == book.arena[maker].id
           known == IndexRemove(new, id)
           gone  == ArenaRemove(known, maker)
<1>1. TradesAt(price) /\ book' = RemoveEmpty(gone, Other, price)
  BY DEF FillMaker
<1>2. /\ Other \in Side /\ price \in Price /\ BookTypeOK(book)
      /\ maker \in DOMAIN book.arena /\ maker \in Slot
  BY <1>1, MakerRests DEF RestingMaker, Inv, BookSound
<1>3. id \in OrderId
  BY <1>2 DEF BookTypeOK, IsMap, Order
<1>4. BookTypeOK(new)
  BY <1>1, InvType, TradedType
<1>5. PICK left : /\ left.total = SaturatingSub(book.levels[Other][price].total,
                                                book.arena[maker].remaining)
                  /\ PutAt(book, new, Other, price, left)
  BY <1>1, TradedTotal
<1> HIDE DEF new, maker, id
<1>6. BookTypeOK(known) /\ known.arena = new.arena /\ known.levels = new.levels
  BY <1>3, <1>4, IndexType
<1> HIDE DEF known
<1>7. /\ BookTypeOK(gone) /\ gone.arena = Drop(known.arena, maker)
      /\ gone.levels = known.levels
  BY <1>2, <1>6, ArenaRemoveType
<1> HIDE DEF gone
<1>8. gone.levels = [book.levels EXCEPT ![Other] = Put(@, price, left)]
  BY <1>5, <1>6, <1>7 DEF PutAt
<1>9. LevelsBut(book, book', Other, price, left) /\ book'.arena = gone.arena
  BY <1>1, <1>2, <1>7, <1>8, PutOrGone
<1> QED BY <1>5, <1>6, <1>7, <1>9 DEF new, maker

\* Any other is put back, and its level is replaced twice.
LEMMA CutMakerTotal ==
  ASSUME Inv, Whole(book, stack), Matching, NEW price, CutMaker(price),
         NEW new, new = Traded(price), NEW maker, maker = MakerAt(price)
  PROVE  /\ maker \in DOMAIN new.arena
         /\ DOMAIN book'.arena = DOMAIN new.arena
         /\ \A s \in DOMAIN new.arena : SameTerms(new.arena[s], book'.arena[s])
         /\ \E left, full :
              /\ left.total = SaturatingSub(book.levels[Other][price].total,
                                            book.arena[maker].remaining)
              /\ full.total = Plus(left.total, new.arena[maker].remaining)
              /\ PutAt(book, new, Other, price, left)
              /\ PutAt(new, book', Other, price, full)
<1> DEFINE side == Other
           back == ReinsertAtHead(new, maker, side, price)
<1>1. TradesAt(price) /\ book' = back
  BY DEF CutMaker
<1>2. /\ side \in Side /\ price \in Price /\ maker \in DOMAIN book.arena
      /\ DOMAIN book.levels = Side
  BY <1>1, MakerRests DEF RestingMaker, Inv, BookSound, BookTypeOK
<1>3. BookTypeOK(new) /\ DOMAIN new.arena = DOMAIN book.arena
  BY <1>1, InvType, TradedType
<1>4. PICK left : /\ left.total = SaturatingSub(book.levels[side][price].total,
                                                book.arena[maker].remaining)
                  /\ PutAt(book, new, side, price, left)
  BY <1>1, TradedTotal
<1> HIDE DEF side
<1>5. LevelAt(new, side, price) = left
  BY <1>2, <1>4, PutThere
<1>6. PICK full : /\ full.total = Plus(LevelAt(new, side, price).total, new.arena[maker].remaining)
                  /\ PutAt(new, back, side, price, full)
  BY <1>2, <1>3, ReinsertTotal
<1>7. InFront(new, back, maker, side, price, LevelAt(new, side, price))
  BY <1>2, <1>3, ReinsertLinks
<1> HIDE DEF back
<1>8. /\ DOMAIN book'.arena = DOMAIN new.arena
      /\ \A s \in DOMAIN new.arena : SameTerms(new.arena[s], book'.arena[s])
  BY <1>1, <1>7 DEF InFront, Headed
<1> QED BY <1>1, <1>2, <1>3, <1>4, <1>5, <1>6, <1>8 DEF side

(***************************************************************************)
(* The quantities that clients ask for, and that orders have left.         *)
(***************************************************************************)

\* No client asks for more than q at once ...
QtysWithin(q) ==
  \A c \in Commands : /\ c.op = "New" => c.order.qty <= q
                      /\ c.op = "Replace" => c.new_qty <= q

\* ... and what all open orders may have left together fits in a word.
Ample ==
  /\ IsFiniteSet(OrderId)
  /\ \E q \in Nat : QtysWithin(q) /\ q * Cardinality(OrderId) < QtyMod

OrdersWithin(b, q) == \A s \in DOMAIN b.arena : b.arena[s].remaining <= q

\* Only the innermost call can be one of apply_new.
AskWithin(calls, q) ==
  (calls # <<>> /\ calls[Len(calls)].call = "apply_new") => calls[Len(calls)].order.qty <= q

Modest(q) == OrdersWithin(book, q) /\ AskWithin(stack, q)

LEMMA FewerWithin ==
  ASSUME NEW b, NEW c, FewerOrders(b, c), NEW q, OrdersWithin(b, q)
  PROVE  OrdersWithin(c, q)
BY DEF FewerOrders, SameTerms, OrdersWithin

LEMMA LeavesFewer ==
  ASSUME NEW b, NEW c, NEW slot, Leaves(b, c, slot)
  PROVE  FewerOrders(b, c)
BY DEF Leaves, FewerOrders, SameTerms

LEMMA TriggersAsk ==
  ASSUME ThenTriggers, NEW q
  PROVE  AskWithin(stack', q)
BY DEF ThenTriggers, AskWithin

LEMMA JoinsWithin ==
  ASSUME NEW b, NEW c, NEW slot, NEW order, Joins(b, c, slot, order),
         NEW q, OrdersWithin(b, q), order.remaining <= q
  PROVE  OrdersWithin(c, q)
BY DEF Joins, OrdersWithin

\* Trading leaves no order larger.
LEMMA TradedWithin ==
  ASSUME Inv, Whole(book, stack), Matching, NEW price, TradesAt(price),
         NEW q \in Nat, OrdersWithin(book, q)
  PROVE  OrdersWithin(Traded(price), q)
<1> DEFINE maker == MakerAt(price)
           new   == Traded(price)
           qty   == TradeQty(price)
<1>1. TradeDone(book.arena, new.arena, Top.slot, maker, qty)
  BY TradedLinks
<1>2. maker \in DOMAIN book.arena /\ Top.slot \in DOMAIN book.arena
  BY MakerRests DEF RestingMaker, Matching
<1>3. \A s \in DOMAIN book.arena : book.arena[s].remaining \in Qty
  BY DEF Inv, BookSound, BookTypeOK, IsMap, Order
<1>4. /\ qty \in Qty /\ qty <= book.arena[Top.slot].remaining
      /\ qty <= book.arena[maker].remaining
  <2> HIDE DEF maker
  <2>1. qty = Least(book.arena[Top.slot].remaining, book.arena[maker].remaining)
    BY DEF TradeQty, Taker, maker
  <2> HIDE DEF qty
  <2> QED BY <1>2, <1>3, <2>1 DEF Least, Qty
<1> HIDE DEF maker, new, qty
<1>5. \A s \in DOMAIN book.arena :
        (s = Top.slot \/ s = maker)
          => /\ Minus(book.arena[s].remaining, qty) \in Nat
             /\ Minus(book.arena[s].remaining, qty) <= book.arena[s].remaining
  BY <1>3, <1>4, QtyModAssumption DEF Minus, Qty
<1> QED
  <2>1. ASSUME NEW s \in DOMAIN book.arena
        PROVE  new.arena[s].remaining <= q
    <3> DEFINE old == book.arena[s].remaining
               now == new.arena[s].remaining
    <3>1. now = IF s = Top.slot \/ s = maker THEN Minus(old, qty) ELSE old
      BY <1>1 DEF TradeDone
    <3>2. old \in Nat /\ old <= q
      BY <1>3 DEF OrdersWithin, Qty
    <3>3. now \in Nat /\ now <= old
      BY <1>5, <3>1, <3>2
    <3> HIDE DEF old, now
    <3> QED BY <3>2, <3>3 DEF now
  <2> QED BY <1>1, <2>1 DEF TradeDone, OrdersWithin, new

LEMMA TradeWithin ==
  ASSUME Inv, Whole(book, stack), Matching, NEW price, FillMaker(price) \/ CutMaker(price),
         NEW q \in Nat, OrdersWithin(book, q)
  PROVE  OrdersWithin(book', q) /\ AskWithin(stack', q)
<1>1. TradesAt(price) /\ CountFill(price)
  BY DEF FillMaker, CutMaker
<1>2. OrdersWithin(Traded(price), q)
  BY <1>1, TradedWithin
<1>3. AskWithin(stack', q)
  BY <1>1, CallAfterTrade DEF AskWithin
<1>4. FewerOrders(Traded(price), book')
  <2>1. CASE FillMaker(price)
    <3>1. book'.arena = Drop(Traded(price).arena, MakerAt(price))
      BY <2>1, FillMakerTotal
    <3> QED BY <3>1, SomeGone
  <2>2. CASE CutMaker(price)
    <3> DEFINE new == Traded(price)
    <3>1. /\ DOMAIN book'.arena = DOMAIN new.arena
          /\ \A s \in DOMAIN new.arena : SameTerms(new.arena[s], book'.arena[s])
      BY <2>2, CutMakerTotal
    <3> HIDE DEF new
    <3> QED BY <3>1 DEF FewerOrders, new
  <2> QED BY <2>1, <2>2
<1> QED BY <1>2, <1>3, <1>4, FewerWithin

LEMMA AskedWithin ==
  ASSUME Inv, NEW call, In(call), NEW q, AskWithin(stack, q), call = "apply_new"
  PROVE  Top.order.qty <= q /\ OrderOf(Top.order).remaining <= q
<1>1. Top.order.qty <= q
  BY DEF In, Top, AskWithin
<1> QED BY <1>1 DEF OrderOf

LEMMA ApplyModest ==
  ASSUME Inv, Inv', Whole(book, stack), NEW q \in Nat, Modest(q), Apply
  PROVE  Modest(q)'
<1> USE DEF Modest
<1>1. CASE RejectNew \/ KillFok
  <2>1. ThenTriggers /\ book' = book
    BY <1>1, CallAfter DEF RejectNew, KillFok
  <2> QED BY <2>1, TriggersAsk
<1>2. CASE HoldStop
  <2>1. ThenTriggers /\ In("apply_new")
    BY <1>2, CallAfter DEF HoldStop
  <2>2. Joins(book, book', VacantSlot(book), OrderOf(Top.order))
    BY <1>2, HoldStopJoins
  <2>3. OrderOf(Top.order).remaining <= q
    BY <2>1, AskedWithin
  <2> QED BY <2>1, <2>2, <2>3, JoinsWithin, TriggersAsk
<1>3. CASE StartMatch
  <2>1. /\ In("apply_new") /\ stack' # <<>>
        /\ stack'[Len(stack')] = MatchOrder(VacantSlot(book), 0)
    BY <1>3, CallAfter DEF StartMatch
  <2>2. Joins(book, book', VacantSlot(book), OrderOf(Top.order))
    BY <1>3, StartMatchJoins
  <2>3. OrderOf(Top.order).remaining <= q
    BY <2>1, AskedWithin
  <2>4. AskWithin(stack', q)
    BY <2>1 DEF AskWithin, MatchOrder
  <2> QED BY <2>2, <2>3, <2>4, JoinsWithin
<1>4. CASE MatchStep
  <2>1. Matching /\ \E price : FillMaker(price) \/ CutMaker(price)
    BY <1>4 DEF MatchStep
  <2> QED BY <2>1, TradeWithin
<1>5. CASE FinishFilled \/ CancelRest
  <2>1. ThenTriggers /\ FewerOrders(book, book')
    BY <1>5, CallAfter, TakerIsGone, LeavesFewer
  <2> QED BY <2>1, FewerWithin, TriggersAsk
<1>6. CASE Rest
  <2>1. ThenTriggers /\ FewerOrders(book, book')
    BY <1>6, CallAfter, RestWhole
  <2> QED BY <2>1, FewerWithin, TriggersAsk
<1>7. CASE VisitStop
  <2>1. PICK p \in DOMAIN Top.todo : SkipStop(p) \/ FireStop(p)
    BY <1>7 DEF VisitStop
  <2>2. Triggering
    BY <1>7 DEF VisitStop
  <2>3. CASE SkipStop(p)
    <3>1. book' = book /\ stack'[Len(stack')].call = "trigger_stops"
      BY <2>2, <2>3, CallAfterVisit DEF SkipStop
    <3> QED BY <3>1 DEF AskWithin
  <2>4. CASE FireStop(p)
    <3> DEFINE slot == Head(Top.todo[p])
    <3>1. FewerOrders(book, book')
      BY <2>4, FiredIsGone, LeavesFewer
    <3>2. /\ slot \in DOMAIN book.arena
          /\ stack'[Len(stack')].order.qty = book.arena[slot].remaining
      BY <2>2, <2>4, CallAfterVisit
    <3> HIDE DEF slot
    <3>3. AskWithin(stack', q)
      BY <3>2 DEF AskWithin, OrdersWithin
    <3> QED BY <3>1, <3>3, FewerWithin
  <2> QED BY <2>1, <2>3, <2>4
<1>8. CASE EndStops
  <2>1. ThenTriggers
    BY <1>8, CallAfter
  <2>2. book'.arena = book.arena
    BY <1>8 DEF EndStops, Inv, BookSound, BookTypeOK, IsBook
  <2> QED BY <2>1, <2>2, TriggersAsk DEF OrdersWithin
<1> HIDE DEF Modest
<1> QED BY Zenon, <1>1, <1>2, <1>3, <1>4, <1>5, <1>6, <1>7, <1>8 DEF Apply

LEMMA FirstAsks ==
  ASSUME NEW no, NEW q, no.qty <= q
  PROVE  AskWithin(<<ApplyNew(no)>>, q)
<1> DEFINE new == <<ApplyNew(no)>>
<1>1. Len(new) = 1 /\ new[1].order = no
  BY DEF ApplyNew
<1> HIDE DEF new
<1> QED BY <1>1 DEF AskWithin, new

LEMMA IdleModest ==
  ASSUME Inv, Whole(book, stack), Tame, NEW q \in Nat, QtysWithin(q), Modest(q),
         Receive \/ Deliver \/ UNCHANGED vars
  PROVE  Modest(q)'
<1> USE DEF Modest
<1>1. CASE Deliver \/ UNCHANGED vars
  <2>1. book' = book /\ stack' = stack
    BY <1>1 DEF Deliver, vars
  <2> QED BY <2>1
<1>2. ASSUME NEW c \in Commands, New(c)
      PROVE  Modest(q)'
  <2>1. c.order.qty <= q /\ stack' = <<ApplyNew(c.order)>> /\ book' = book
    BY <1>2 DEF New, QtysWithin
  <2> QED BY <2>1, FirstAsks
<1>3. ASSUME NEW c, NEW reason, Refuse(c, reason)
      PROVE  Modest(q)'
  <2>1. book' = book /\ stack' = stack
    BY <1>3 DEF Refuse
  <2> QED BY <2>1
<1>4. ASSUME NEW c \in Commands, Cancel(c) \/ Replace(c), c.id \in DOMAIN book.ids,
             book' = Without(c.id)
      PROVE  OrdersWithin(book', q)
  <2>1. c.id \notin StopIdentifiers /\ stack = <<>>
    BY <1>4 DEF Tame, Cancel, Replace, Idle
  <2>2. FewerOrders(book, book')
    BY <1>4, <2>1, WithoutWhole
  <2> QED BY <2>2, FewerWithin
<1>5. ASSUME NEW c \in Commands, Cancel(c)
      PROVE  Modest(q)'
  <2>1. \/ Refuse(c, "UnknownId")
        \/ c.id \in DOMAIN book.ids /\ book' = Without(c.id) /\ stack' = stack
    BY <1>5 DEF Cancel
  <2> QED BY <1>3, <1>4, <1>5, <2>1
<1>6. ASSUME NEW c \in Commands, Replace(c)
      PROVE  Modest(q)'
  <2>1. \/ Refuse(c, "ZeroQty") \/ Refuse(c, "UnknownId")
        \/ /\ c.id \in DOMAIN book.ids /\ book' = Without(c.id)
           /\ \E no : no.qty = c.new_qty /\ stack' = <<ApplyNew(no)>>
    BY <1>6 DEF Replace
  <2>2. c.new_qty <= q
    BY <1>6 DEF Replace, QtysWithin
  <2>3. ASSUME c.id \in DOMAIN book.ids, book' = Without(c.id),
               NEW no, no.qty = c.new_qty, stack' = <<ApplyNew(no)>>
        PROVE  Modest(q)'
    <3>1. AskWithin(stack', q)
      BY <2>2, <2>3, FirstAsks
    <3> QED BY <1>4, <1>6, <2>3, <3>1
  <2> QED BY <1>3, <2>1, <2>3
<1> HIDE DEF Modest
<1> QED BY Zenon, <1>1, <1>2, <1>5, <1>6 DEF Receive

(***************************************************************************)
(* Every level counts what the orders that rest there have left.           *)
(***************************************************************************)

TotalAt(b, taken, side, price) ==
  price \in DOMAIN b.levels[side] =>
    b.levels[side][price].total = Left(b.arena, RestsAt(b.arena, taken, side, price))

Counted(b, taken) == \A side \in Side, price \in Price : TotalAt(b, taken, side, price)

\* The orders of every level can be added up, and are no more than there are ids.
Countable(b, taken) ==
  \A side \in Side, price \in Price :
    /\ Sized(b.arena, RestsAt(b.arena, taken, side, price))
    /\ Cardinality(RestsAt(b.arena, taken, side, price)) <= Cardinality(OrderId)

\* Every order that rests has an id of its own.
LEMMA OrdersAreFew ==
  ASSUME NEW b, BookTypeOK(b), NEW taken, OrdersSound(b, taken), IsFiniteSet(OrderId)
  PROVE  Countable(b, taken)
<1> SUFFICES ASSUME NEW side \in Side, NEW price \in Price
             PROVE  /\ Sized(b.arena, RestsAt(b.arena, taken, side, price))
                    /\ Cardinality(RestsAt(b.arena, taken, side, price)) <= Cardinality(OrderId)
  BY DEF Countable
<1> DEFINE S == RestsAt(b.arena, taken, side, price)
           f == [s \in S |-> b.arena[s].id]
<1>1. \A s \in S : s \in DOMAIN b.arena /\ s \notin taken
  BY DEF RestsAt, Rests
<1>2. \A s \in S : b.arena[s].id \in OrderId /\ b.ids[b.arena[s].id].slot = s
  <2> HIDE DEF S
  <2>1. \A s \in S : b.arena[s] \in Order
    BY <1>1 DEF BookTypeOK, IsMap
  <2> QED BY <1>1, <2>1 DEF OrdersSound, Order
<1> HIDE DEF S
<1>3. f \in Injection(S, OrderId)
  BY <1>2 DEF Injection, IsInjective
<1>4. IsFiniteSet(S) /\ Cardinality(S) <= Cardinality(OrderId)
  BY <1>3, FS_Injection
<1>5. \A s \in S : b.arena[s].remaining \in Nat
  BY <1>1 DEF BookTypeOK, IsMap, Order, Qty
<1> QED BY <1>1, <1>4, <1>5 DEF Sized, S

\* A level whose orders and total stay still counts them.
LEMMA TotalStays ==
  ASSUME NEW b, NEW taken, NEW side, NEW price, TotalAt(b, taken, side, price),
         NEW S, S = RestsAt(b.arena, taken, side, price), IsFiniteSet(S),
         NEW c, NEW taken2, RestsAt(c.arena, taken2, side, price) = S,
         SameLeft(b.arena, c.arena, S),
         price \in DOMAIN c.levels[side] =>
           price \in DOMAIN b.levels[side] /\ c.levels[side][price] = b.levels[side][price]
  PROVE  TotalAt(c, taken2, side, price)
<1>1. Left(c.arena, S) = Left(b.arena, S)
  BY LeftAgrees
<1> QED BY <1>1 DEF TotalAt

\* The orders that rest are the same and have the same left.
SameCount(b, taken, c, taken2) ==
  /\ \A s : Rests(c.arena, taken2, s) <=> Rests(b.arena, taken, s)
  /\ \A s : Rests(b.arena, taken, s) =>
       /\ c.arena[s].side = b.arena[s].side /\ c.arena[s].price = b.arena[s].price
       /\ c.arena[s].remaining = b.arena[s].remaining

LEMMA SameCounted ==
  ASSUME NEW b, NEW taken, Counted(b, taken), Countable(b, taken),
         NEW c, NEW taken2, c.levels = b.levels, SameCount(b, taken, c, taken2)
  PROVE  Counted(c, taken2)
<1> SUFFICES ASSUME NEW side \in Side, NEW price \in Price
             PROVE  TotalAt(c, taken2, side, price)
  BY DEF Counted
<1> DEFINE S == RestsAt(b.arena, taken, side, price)
<1>1. IsFiniteSet(S) /\ TotalAt(b, taken, side, price)
  BY DEF Countable, Sized, Counted
<1>2. RestsAt(c.arena, taken2, side, price) = S
  BY DEF SameCount, RestsAt, Rests
<1>3. SameLeft(b.arena, c.arena, S)
  BY DEF SameCount, SameLeft, RestsAt, Rests
<1> HIDE DEF S
<1> QED BY <1>1, <1>2, <1>3, TotalStays DEF S

\* An order that does not come to rest joins the arena, or leaves it.
LEMMA JoinsCounted ==
  ASSUME NEW b, Counted(b, {}), Countable(b, {}),
         NEW c, NEW slot, NEW order, Joins(b, c, slot, order),
         NEW taken2, taken2 \subseteq {slot}, order.kind = "Limit" => slot \in taken2
  PROVE  Counted(c, taken2)
<1>1. SameCount(b, {}, c, taken2)
  BY DEF SameCount, Rests, Joins
<1>2. c.levels = b.levels
  BY DEF Joins
<1> QED BY <1>1, <1>2, SameCounted

LEMMA LeavesCounted ==
  ASSUME NEW b, NEW taken, Counted(b, taken), Countable(b, taken),
         NEW c, NEW slot, Leaves(b, c, slot), taken \subseteq {slot},
         slot \in DOMAIN b.arena, slot \in taken \/ b.arena[slot].kind # "Limit"
  PROVE  Counted(c, {})
<1>1. SameCount(b, taken, c, {})
  BY DEF SameCount, Rests, Leaves
<1>2. c.levels = b.levels
  BY DEF Leaves
<1> QED BY <1>1, <1>2, SameCounted

LEMMA SameBookCounted ==
  ASSUME NEW b, NEW taken, Counted(b, taken), NEW c, c.arena = b.arena, c.levels = b.levels
  PROVE  Counted(c, taken)
BY DEF Counted, TotalAt

\* The levels at all prices but one are as they were, and so are their orders.
Beside(b, taken, c, taken2, side, price) ==
  \A d \in Side, p \in Price : (d # side \/ p # price) =>
    /\ p \in DOMAIN c.levels[d] => p \in DOMAIN b.levels[d] /\ c.levels[d][p] = b.levels[d][p]
    /\ RestsAt(c.arena, taken2, d, p) = RestsAt(b.arena, taken, d, p)
    /\ SameLeft(b.arena, c.arena, RestsAt(b.arena, taken, d, p))

LEMMA OneCounted ==
  ASSUME NEW b, NEW taken, Counted(b, taken), Countable(b, taken),
         NEW c, NEW taken2, NEW side, NEW price, Beside(b, taken, c, taken2, side, price),
         TotalAt(c, taken2, side, price)
  PROVE  Counted(c, taken2)
<1> SUFFICES ASSUME NEW d \in Side, NEW p \in Price, d # side \/ p # price
             PROVE  TotalAt(c, taken2, d, p)
  BY DEF Counted
<1> DEFINE S == RestsAt(b.arena, taken, d, p)
<1>1. IsFiniteSet(S) /\ TotalAt(b, taken, d, p)
  BY DEF Countable, Sized, Counted
<1>2. RestsAt(c.arena, taken2, d, p) = S /\ SameLeft(b.arena, c.arena, S)
  BY DEF Beside
<1>3. p \in DOMAIN c.levels[d] => p \in DOMAIN b.levels[d] /\ c.levels[d][p] = b.levels[d][p]
  BY DEF Beside
<1> HIDE DEF S
<1> QED BY <1>1, <1>2, <1>3, TotalStays DEF S

(***************************************************************************)
(* One level changes, and its total with it.                               *)
(***************************************************************************)

\* What a trade or a cancel leaves of the orders that rest, but for `slot`.
OthersRest(b, c, taken, slot) ==
  /\ \A s \in DOMAIN c.arena : s \in DOMAIN b.arena /\ SameButSize(b.arena[s], c.arena[s])
  /\ \A s : (Rests(b.arena, taken, s) /\ s # slot) =>
              s \in DOMAIN c.arena /\ c.arena[s].remaining = b.arena[s].remaining

SameBut(S, T, slot) == S \ {slot} = T \ {slot}

LEMMA OthersRestThere ==
  ASSUME NEW b, NEW c, NEW taken, NEW slot, OthersRest(b, c, taken, slot), NEW d, NEW p
  PROVE  /\ SameBut(RestsAt(c.arena, taken, d, p), RestsAt(b.arena, taken, d, p), slot)
         /\ slot \notin RestsAt(b.arena, taken, d, p) =>
              SameLeft(b.arena, c.arena, RestsAt(b.arena, taken, d, p))
         /\ SameLeft(b.arena, c.arena, RestsAt(b.arena, taken, d, p) \ {slot})
<1>1. \A s : s # slot => (Rests(c.arena, taken, s) <=> Rests(b.arena, taken, s))
  BY DEF OthersRest, Rests, SameButSize
<1>2. \A s : (s # slot /\ Rests(b.arena, taken, s)) =>
        /\ s \in DOMAIN b.arena /\ s \in DOMAIN c.arena
        /\ c.arena[s].side = b.arena[s].side /\ c.arena[s].price = b.arena[s].price
        /\ c.arena[s].remaining = b.arena[s].remaining
  BY DEF OthersRest, Rests, SameButSize
<1>3. SameBut(RestsAt(c.arena, taken, d, p), RestsAt(b.arena, taken, d, p), slot)
  BY <1>1, <1>2 DEF RestsAt, SameBut
<1>4. SameLeft(b.arena, c.arena, RestsAt(b.arena, taken, d, p) \ {slot})
  BY <1>2 DEF RestsAt, SameLeft
<1> QED BY <1>3, <1>4 DEF SameLeft

\* The levels of c at all prices but one are those of b.
LevelsBeside(b, c, side, price) ==
  \A d \in Side, p \in Price : (d # side \/ p # price) =>
    (p \in DOMAIN c.levels[d] => p \in DOMAIN b.levels[d] /\ c.levels[d][p] = b.levels[d][p])

\* Nothing changes at the other prices.
LEMMA StillBeside ==
  ASSUME NEW b, NEW c, NEW taken, NEW slot, OthersRest(b, c, taken, slot),
         NEW side, NEW price, PlacedAt(b.arena[slot], side, price),
         LevelsBeside(b, c, side, price)
  PROVE  Beside(b, taken, c, taken, side, price)
<1> SUFFICES ASSUME NEW d \in Side, NEW p \in Price, d # side \/ p # price
             PROVE  /\ RestsAt(c.arena, taken, d, p) = RestsAt(b.arena, taken, d, p)
                    /\ SameLeft(b.arena, c.arena, RestsAt(b.arena, taken, d, p))
  BY DEF Beside, LevelsBeside
<1>1. slot \notin RestsAt(b.arena, taken, d, p)
  BY DEF RestsAt, PlacedAt
<1>2. slot \notin RestsAt(c.arena, taken, d, p)
  BY DEF RestsAt, PlacedAt, OthersRest, SameButSize, Rests
<1>3. SameBut(RestsAt(c.arena, taken, d, p), RestsAt(b.arena, taken, d, p), slot)
  BY OthersRestThere
<1>4. SameLeft(b.arena, c.arena, RestsAt(b.arena, taken, d, p))
  BY <1>1, OthersRestThere
<1>5. RestsAt(c.arena, taken, d, p) = RestsAt(b.arena, taken, d, p)
  <2> DEFINE S == RestsAt(b.arena, taken, d, p)
             T == RestsAt(c.arena, taken, d, p)
  <2>1. slot \notin S /\ slot \notin T /\ SameBut(T, S, slot)
    BY <1>1, <1>2, <1>3
  <2> HIDE DEF S, T
  <2>2. T = S
    BY <2>1 DEF SameBut
  <2> QED BY <2>2 DEF S, T
<1> QED BY <1>4, <1>5

\* T is what is left of S without one order, the others as they were.
Leaving(a, c, S, slot, T) ==
  Sized(a, S) /\ slot \in S /\ T = S \ {slot} /\ SameLeft(a, c, T)

\* What S has left is what that order has and what T has.
LeftApart(a, c, S, slot, T) ==
  /\ Left(a, S) = a[slot].remaining + Left(a, T)
  /\ a[slot].remaining \in Nat /\ Left(a, T) \in Nat
  /\ Left(c, T) = Left(a, T) /\ Sized(a, T)

LEMMA LeftLeaves ==
  ASSUME NEW a, NEW c, NEW S, NEW slot, NEW T, Leaving(a, c, S, slot, T)
  PROVE  LeftApart(a, c, S, slot, T)
<1>1. Sized(a, S) /\ slot \in S /\ T = S \ {slot} /\ SameLeft(a, c, T)
  BY DEF Leaving
<1>2. Left(a, S) = a[slot].remaining + Left(a, T) /\ Sized(a, T)
  BY <1>1, LeftTakes
<1>3. a[slot].remaining \in Nat /\ IsFiniteSet(T)
  BY <1>1, <1>2 DEF Sized
<1>4. Left(a, T) \in Nat
  BY Zenon, <1>2, LeftNat
<1>5. Left(c, T) = Left(a, T)
  BY Zenon, <1>1, <1>3, LeftAgrees
<1> QED BY <1>2, <1>3, <1>4, <1>5 DEF LeftApart

\* A resting order leaves the arena and its quantity the total.
LEMMA LevelLosesOne ==
  ASSUME NEW b, BookTypeOK(b), NEW taken, Counted(b, taken), Countable(b, taken),
         NEW slot, Rests(b.arena, taken, slot),
         NEW side \in Side, NEW price \in DOMAIN b.levels[side],
         PlacedAt(b.arena[slot], side, price),
         NEW c, slot \notin DOMAIN c.arena, OthersRest(b, c, taken, slot),
         NEW level, LevelsBut(b, c, side, price, level),
         level.total = SaturatingSub(b.levels[side][price].total, b.arena[slot].remaining)
  PROVE  Counted(c, taken)
<1> DEFINE S == RestsAt(b.arena, taken, side, price)
           T == RestsAt(c.arena, taken, side, price)
           r == b.arena[slot].remaining
<1>1. price \in Price
  BY DEF BookTypeOK, IsMap
<1>2. Beside(b, taken, c, taken, side, price)
  <2>1. LevelsBeside(b, c, side, price)
    BY <1>1, LevelsButLemma DEF LevelsBeside
  <2> QED BY <2>1, StillBeside
<1>3. slot \in S /\ T = S \ {slot} /\ SameLeft(b.arena, c.arena, T)
  <2>1. slot \in S /\ slot \notin T
    BY DEF RestsAt, Rests, PlacedAt
  <2>2. SameBut(T, S, slot) /\ SameLeft(b.arena, c.arena, S \ {slot})
    BY OthersRestThere
  <2> HIDE DEF S, T
  <2>3. T = S \ {slot}
    BY <2>1, <2>2 DEF SameBut
  <2> QED BY <2>1, <2>2, <2>3
<1>4. Sized(b.arena, S) /\ b.levels[side][price].total = Left(b.arena, S)
  BY <1>1 DEF Countable, Counted, TotalAt
<1> HIDE DEF S, T
<1>5. /\ Left(b.arena, S) = b.arena[slot].remaining + Left(b.arena, T)
      /\ b.arena[slot].remaining \in Nat /\ Left(b.arena, T) \in Nat
      /\ Left(c.arena, T) = Left(b.arena, T)
  <2>1. Leaving(b.arena, c.arena, S, slot, T)
    BY Zenon, <1>3, <1>4 DEF Leaving
  <2>2. LeftApart(b.arena, c.arena, S, slot, T)
    BY Zenon, <2>1, LeftLeaves
  <2> QED BY Zenon, <2>2 DEF LeftApart
<1>6. b.levels[side][price].total = r + Left(b.arena, T)
  BY Zenon, <1>4, <1>5
<1>7. level.total = Left(c.arena, T)
  <2> DEFINE old == b.levels[side][price].total
             now == Left(b.arena, T)
  <2>1. /\ old = r + now /\ now \in Nat /\ r \in Nat
        /\ level.total = SaturatingSub(old, r)
    BY Zenon, <1>5, <1>6
  <2> HIDE DEF old, now, r
  <2>2. level.total = now
    BY <2>1 DEF SaturatingSub
  <2> QED BY <1>5, <2>2 DEF now
<1>8. TotalAt(c, taken, side, price)
  <2>1. price \in DOMAIN c.levels[side] => c.levels[side][price] = level
    BY <1>1, LevelsButLemma
  <2> QED BY <1>7, <2>1 DEF TotalAt, T
<1> QED BY <1>2, <1>8, OneCounted

\* A resting order shrinks in place: the total loses all of it and gains what is
\* left.
LEMMA LevelCutsOne ==
  ASSUME NEW b, BookTypeOK(b), NEW taken, Counted(b, taken), Countable(b, taken),
         NEW slot, Rests(b.arena, taken, slot),
         NEW side \in Side, NEW price \in DOMAIN b.levels[side],
         PlacedAt(b.arena[slot], side, price),
         NEW c, DOMAIN c.arena = DOMAIN b.arena, OthersRest(b, c, taken, slot),
         c.arena[slot].remaining \in Nat,
         c.arena[slot].remaining <= b.arena[slot].remaining,
         NEW mid, NEW left, PutAt(b, mid, side, price, left),
         left.total = SaturatingSub(b.levels[side][price].total, b.arena[slot].remaining),
         NEW full, PutAt(mid, c, side, price, full),
         full.total = Plus(left.total, c.arena[slot].remaining)
  PROVE  Counted(c, taken)
<1> DEFINE S   == RestsAt(b.arena, taken, side, price)
           T   == S \ {slot}
           r   == b.arena[slot].remaining
           now == c.arena[slot].remaining
           old == b.levels[side][price].total
<1>1. price \in Price /\ old \in Qty /\ DOMAIN b.levels = Side
  BY DEF BookTypeOK, IsMap, Level
<1>2. /\ DOMAIN mid.levels = Side /\ price \in DOMAIN c.levels[side]
      /\ c.levels[side][price] = full
      /\ DOMAIN mid.levels[side] = DOMAIN b.levels[side] \cup {price}
      /\ DOMAIN c.levels[side] = DOMAIN mid.levels[side] \cup {price}
      /\ \A p \in DOMAIN b.levels[side] : p # price => mid.levels[side][p] = b.levels[side][p]
      /\ \A p \in DOMAIN mid.levels[side] : p # price => c.levels[side][p] = mid.levels[side][p]
      /\ \A d \in Side : d # side => c.levels[d] = mid.levels[d] /\ mid.levels[d] = b.levels[d]
  <2>1. /\ DOMAIN mid.levels = Side
        /\ DOMAIN mid.levels[side] = DOMAIN b.levels[side] \cup {price}
        /\ \A p \in DOMAIN b.levels[side] : p # price => mid.levels[side][p] = b.levels[side][p]
        /\ \A d \in Side : d # side => mid.levels[d] = b.levels[d]
    BY <1>1, PutThere
  <2> QED BY <2>1, PutThere
<1>3. Beside(b, taken, c, taken, side, price)
  <2>1. LevelsBeside(b, c, side, price)
    BY <1>2 DEF LevelsBeside
  <2> QED BY <2>1, StillBeside
<1>4. slot \in S /\ RestsAt(c.arena, taken, side, price) = S
  <2> DEFINE there == RestsAt(c.arena, taken, side, price)
  <2>1. slot \in S /\ slot \in there
    BY DEF RestsAt, Rests, PlacedAt, OthersRest, SameButSize
  <2>2. SameBut(there, S, slot)
    BY OthersRestThere
  <2> HIDE DEF S, there
  <2>3. there = S
    BY <2>1, <2>2 DEF SameBut
  <2> QED BY <2>1, <2>3 DEF there
<1>5. SameLeft(b.arena, c.arena, T) /\ T = S \ {slot}
  BY OthersRestThere
<1>6. Sized(b.arena, S) /\ old = Left(b.arena, S)
  BY <1>1 DEF Countable, Counted, TotalAt
<1> HIDE DEF S, T
<1>7. /\ Left(b.arena, S) = b.arena[slot].remaining + Left(b.arena, T)
      /\ b.arena[slot].remaining \in Nat /\ Left(b.arena, T) \in Nat
      /\ Left(c.arena, T) = Left(b.arena, T) /\ Sized(b.arena, T)
  <2>1. Leaving(b.arena, c.arena, S, slot, T)
    BY Zenon, <1>4, <1>5, <1>6 DEF Leaving
  <2>2. LeftApart(b.arena, c.arena, S, slot, T)
    BY Zenon, <2>1, LeftLeaves
  <2> QED BY Zenon, <2>2 DEF LeftApart
<1>8. old = r + Left(b.arena, T)
  BY Zenon, <1>6, <1>7
<1>9. Left(c.arena, S) = now + Left(c.arena, T)
  <2>1. Sized(c.arena, S)
    <3>1. \A s \in T : s \in DOMAIN c.arena /\ c.arena[s].remaining \in Nat
      BY <1>5, <1>7 DEF SameLeft, Sized
    <3>2. slot \in DOMAIN c.arena /\ now \in Nat
      BY DEF Rests
    <3> QED BY <1>4, <1>5, <1>6, <3>1, <3>2 DEF Sized
  <2>2. Left(c.arena, S) = c.arena[slot].remaining + Left(c.arena, S \ {slot})
    BY <1>4, <2>1, LeftTakes
  <2> QED BY Zenon, <1>5, <2>2
<1>10. full.total = Left(c.arena, S)
  <2> DEFINE rest == Left(b.arena, T)
  <2>1. /\ old = r + rest /\ rest \in Nat /\ r \in Nat /\ now \in Nat /\ now <= r
        /\ old \in Qty /\ left.total = SaturatingSub(old, r)
    BY Zenon, <1>1, <1>7, <1>8
  <2>2. full.total = Plus(left.total, now)
    OBVIOUS
  <2>3. Left(c.arena, S) = now + rest
    BY Zenon, <1>7, <1>9
  <2> HIDE DEF old, rest, now, r
  <2>4. left.total = rest
    BY <2>1 DEF SaturatingSub
  <2>5. Plus(rest, now) = rest + now
    BY <2>1, QtyModAssumption DEF Plus, Qty
  <2> QED BY <2>1, <2>2, <2>3, <2>4, <2>5
<1>11. TotalAt(c, taken, side, price)
  BY <1>2, <1>4, <1>10 DEF TotalAt
<1> QED BY <1>3, <1>11, OneCounted

LEMMA LeftFits ==
  ASSUME NEW b, NEW taken, Countable(b, taken), IsFiniteSet(OrderId),
         NEW q \in Nat, OrdersWithin(b, q), q * Cardinality(OrderId) < QtyMod,
         NEW side \in Side, NEW price \in Price,
         NEW S, S = RestsAt(b.arena, taken, side, price)
  PROVE  Left(b.arena, S) \in Nat /\ Left(b.arena, S) < QtyMod
<1>1. Sized(b.arena, S) /\ Cardinality(S) <= Cardinality(OrderId)
  BY DEF Countable
<1>2. Cardinality(OrderId) \in Nat
  BY FS_CardinalityType
<1>3. \A s \in S : b.arena[s].remaining <= q
  BY <1>1 DEF Sized, OrdersWithin
<1> DEFINE n == Cardinality(OrderId)
           m == q * n
           left == Left(b.arena, S)
<1>4. left <= m
  <2> HIDE DEF n
  <2> QED BY <1>1, <1>2, <1>3, LeftBound DEF n
<1>5. left \in Nat
  BY <1>1, LeftNat
<1>6. m \in Nat /\ m < QtyMod
  BY <1>2
<1> HIDE DEF n, m, left
<1>7. left < QtyMod
  BY <1>4, <1>5, <1>6, QtyModAssumption
<1> QED BY <1>5, <1>7 DEF left

\* An order comes to rest and the total gains what it has left.
LEMMA LevelGainsOne ==
  ASSUME NEW b, BookTypeOK(b), NEW taken, ListsSound(b, taken),
         Counted(b, taken), Countable(b, taken),
         NEW slot \in DOMAIN b.arena, ~Rests(b.arena, taken, slot),
         NEW side \in Side, NEW price \in Price, PlacedAt(b.arena[slot], side, price),
         NEW c, FewerOrders(b, c), DOMAIN c.arena = DOMAIN b.arena,
         NEW taken2, \A s : Rests(c.arena, taken2, s) <=> Rests(b.arena, taken, s) \/ s = slot,
         Countable(c, taken2),
         NEW full, PutAt(b, c, side, price, full),
         full.total = Plus(LevelAt(b, side, price).total, b.arena[slot].remaining),
         NEW T, T = RestsAt(c.arena, taken2, side, price), Left(c.arena, T) < QtyMod
  PROVE  Counted(c, taken2)
<1> DEFINE S   == RestsAt(b.arena, taken, side, price)
           r   == b.arena[slot].remaining
           old == LevelAt(b, side, price).total
<1>1. /\ DOMAIN b.levels = Side /\ c.levels[side][price] = full
      /\ DOMAIN c.levels[side] = DOMAIN b.levels[side] \cup {price}
      /\ \A p \in DOMAIN b.levels[side] : p # price => c.levels[side][p] = b.levels[side][p]
      /\ \A d \in Side : d # side => c.levels[d] = b.levels[d]
  <2>1. DOMAIN b.levels = Side
    BY DEF BookTypeOK
  <2> QED BY <2>1, PutThere
<1>2. \A s \in DOMAIN b.arena : SameTerms(b.arena[s], c.arena[s])
  BY DEF FewerOrders
<1>3. Beside(b, taken, c, taken2, side, price)
  <2>1. LevelsBeside(b, c, side, price)
    BY <1>1 DEF LevelsBeside
  <2>2. ASSUME NEW d \in Side, NEW p \in Price, d # side \/ p # price
        PROVE  /\ RestsAt(c.arena, taken2, d, p) = RestsAt(b.arena, taken, d, p)
               /\ SameLeft(b.arena, c.arena, RestsAt(b.arena, taken, d, p))
    <3>1. \A s \in DOMAIN b.arena :
            s \in RestsAt(c.arena, taken2, d, p) <=> s \in RestsAt(b.arena, taken, d, p)
      BY <1>2, <2>2 DEF RestsAt, SameTerms, PlacedAt
    <3>2. RestsAt(c.arena, taken2, d, p) = RestsAt(b.arena, taken, d, p)
      <4>1. /\ RestsAt(c.arena, taken2, d, p) \subseteq DOMAIN b.arena
            /\ RestsAt(b.arena, taken, d, p) \subseteq DOMAIN b.arena
        BY DEF RestsAt
      <4> QED BY <3>1, <4>1
    <3>3. SameLeft(b.arena, c.arena, RestsAt(b.arena, taken, d, p))
      BY <1>2 DEF RestsAt, SameLeft, SameTerms
    <3> QED BY <3>2, <3>3
  <2> QED BY <2>1, <2>2 DEF Beside, LevelsBeside
<1>4. slot \in T /\ T \ {slot} = S
  <2>1. \A s \in DOMAIN b.arena : s \in T <=> s \in S \/ s = slot
    BY <1>2 DEF RestsAt, SameTerms, PlacedAt
  <2>2. T \subseteq DOMAIN b.arena /\ S \subseteq DOMAIN b.arena /\ slot \notin S
    BY DEF RestsAt
  <2> HIDE DEF S
  <2> QED BY <2>1, <2>2
<1>5. SameLeft(b.arena, c.arena, S)
  BY <1>2 DEF RestsAt, SameLeft, SameTerms
<1>6. Sized(b.arena, S) /\ Sized(c.arena, T)
  BY DEF Countable
<1>7. old = Left(b.arena, S)
  <2>1. CASE price \in DOMAIN b.levels[side]
    BY <2>1 DEF LevelAt, Counted, TotalAt
  <2>2. CASE price \notin DOMAIN b.levels[side]
    <3>1. S = {}
      BY <2>2 DEF ListsSound, ListAt
    <3>2. old = 0
      BY <2>2 DEF LevelAt, EmptyLevel
    <3> HIDE DEF S, old
    <3> QED BY <3>1, <3>2, LeftOfNone
  <2> QED BY <2>1, <2>2
<1>8. c.arena[slot].remaining = r
  BY <1>2 DEF SameTerms
<1> HIDE DEF S
<1>9. Left(c.arena, T) = r + Left(c.arena, S)
  BY <1>4, <1>6, <1>8, LeftTakes
<1>10. Left(c.arena, S) = Left(b.arena, S) /\ Left(b.arena, S) \in Nat /\ r \in Nat
  <2>1. r \in Nat
    BY <1>4, <1>6, <1>8 DEF Sized
  <2>2. IsFiniteSet(S)
    BY <1>6 DEF Sized
  <2>3. Left(c.arena, S) = Left(b.arena, S)
    BY Zenon, <1>5, <2>2, LeftAgrees
  <2> QED BY Zenon, <1>6, <2>1, <2>3, LeftNat
<1>11. full.total = Left(c.arena, T)
  <2> DEFINE rest == Left(b.arena, S)
             all  == Left(c.arena, T)
  <2>1. /\ all = r + rest /\ rest \in Nat /\ r \in Nat /\ all < QtyMod
        /\ full.total = Plus(rest, r)
    BY <1>7, <1>9, <1>10
  <2> HIDE DEF rest, all, r
  <2>2. Plus(rest, r) = rest + r
    BY <2>1, QtyModAssumption DEF Plus
  <2> QED BY <2>1, <2>2 DEF all
<1>12. TotalAt(c, taken2, side, price)
  BY <1>1, <1>11 DEF TotalAt
<1> QED BY <1>3, <1>12, OneCounted

(***************************************************************************)
(* Every action keeps the levels counted.                                  *)
(***************************************************************************)

LEMMA CountableNow ==
  ASSUME Inv, Whole(book, stack), IsFiniteSet(OrderId)
  PROVE  Countable(book, Takers(stack))
BY OrdersAreFew DEF Inv, BookSound, Whole

LEMMA NoTakersThen ==
  ASSUME Inv', ThenTriggers
  PROVE  Takers(stack') = {}
<1>1. StackSound(stack')
  BY DEF Inv
<1> QED BY <1>1, TakersAre DEF ThenTriggers

\* Cancelling, when no call is in progress, an order that is not a stop.
LEMMA WithoutCounted ==
  ASSUME Inv, Whole(book, stack), stack = <<>>, IsFiniteSet(OrderId),
         Counted(book, {}), NEW id \in DOMAIN book.ids, id \notin StopIdentifiers
  PROVE  Counted(Without(id), {})
<1> DEFINE loc   == book.ids[id]
           slot  == loc.slot
           old   == book.arena[slot]
           qty   == old.remaining
           side  == old.side
           price == old.price
           gone  == IndexRemove(book, id)
           cut   == RemoveSlot(gone, slot, side, price, qty)
           new   == Without(id)
<1>1. Takers(stack) = {} /\ BookTypeOK(book) /\ SlotsSound(book)
  BY TakersAre DEF Inv, BookSound
<1>2. slot \in DOMAIN book.arena /\ old.id = id /\ id \in OrderId /\ old.kind = "Limit"
  <2>1. slot \in DOMAIN book.arena /\ old.id = id /\ id \in OrderId
    BY <1>1 DEF SlotsSound, IdsSound, BookTypeOK, IsMap
  <2> QED BY <2>1, WithoutWhole
<1>3. OrdersSound(book, {}) /\ ListsSound(book, {}) /\ Countable(book, {})
  BY <1>1, CountableNow DEF Whole
<1>4. /\ slot \in Slot /\ side \in Side /\ price \in Price /\ qty \in Qty
      /\ loc.side = side /\ loc.price = price
  <2>1. old \in Order /\ slot \in Slot
    BY <1>1, <1>2 DEF BookTypeOK, IsMap
  <2>2. loc.side = side /\ loc.price = price
    <3>1. book.ids[old.id] = [slot |-> slot, side |-> old.side, price |-> old.price]
      <4> HIDE DEF slot
      <4> QED BY <1>2, <1>3 DEF OrdersSound
    <3> QED BY <1>2, <3>1
  <2> QED BY <2>1, <2>2 DEF Order
<1>5. /\ BookTypeOK(gone) /\ gone.levels = book.levels /\ gone.arena = book.arena
  BY <1>1, <1>2, IndexType
<1>6. new = ArenaRemove(cut, slot)
  BY <1>4 DEF Without
<1>7. slot \in RestsAt(book.arena, {}, side, price) /\ Rests(book.arena, {}, slot)
  BY <1>2 DEF RestsAt, Rests
<1>8. price \in DOMAIN book.levels[side]
  <2>1. PICK age \in [Slot -> Nat] :
          ListAt(book.arena, book.levels, {}, age, side, price)
    BY <1>3, <1>4 DEF ListsSound
  <2> QED BY <1>7, <2>1 DEF ListAt
<1>9. PlacedAt(old, side, price)
  BY DEF PlacedAt
<1> HIDE DEF gone, loc, slot, old, qty, side, price
<1>10. PICK level : /\ level.total = SaturatingSub(gone.levels[side][price].total, qty)
                    /\ LevelsBut(gone, cut, side, price, level)
  BY <1>2, <1>4, <1>5, <1>8, RemoveSlotTotal
<1>11. BookTypeOK(cut) /\ Bypassed(gone.arena, cut.arena, slot)
  BY <1>2, <1>4, <1>5, <1>8, RemoveSlotLinks
<1> HIDE DEF cut
<1>12. new.levels = cut.levels /\ new.arena = Drop(cut.arena, slot)
  BY <1>4, <1>6, <1>11, ArenaRemoveType
<1> HIDE DEF new
<1>13. LevelsBut(book, new, side, price, level)
  BY <1>5, <1>10, <1>12 DEF LevelsBut
<1>14. slot \notin DOMAIN new.arena /\ OthersRest(book, new, {}, slot)
  BY <1>5, <1>11, <1>12 DEF Drop, Bypassed, OthersRest, SameTerms, SameButSize, Rests
<1>15. level.total = SaturatingSub(book.levels[side][price].total, book.arena[slot].remaining)
  BY <1>5, <1>10 DEF qty, old
<1>16. PlacedAt(book.arena[slot], side, price)
  BY <1>9 DEF old
<1>17. Counted(new, {})
  BY <1>1, <1>3, <1>4, <1>7, <1>8, <1>13, <1>14, <1>15, <1>16, LevelLosesOne
<1> QED BY <1>17 DEF new

\* Of the orders that rest a trade changes the maker only.
LEMMA TradeOthersRest ==
  ASSUME Inv, Whole(book, stack), Matching, NEW price, TradesAt(price),
         NEW c, DOMAIN c.arena \subseteq DOMAIN Traded(price).arena,
         \A s \in DOMAIN c.arena : SameTerms(Traded(price).arena[s], c.arena[s]),
         \A s \in DOMAIN Traded(price).arena : s # MakerAt(price) => s \in DOMAIN c.arena
  PROVE  OthersRest(book, c, {Top.slot}, MakerAt(price))
<1> DEFINE new   == Traded(price)
           maker == MakerAt(price)
<1>1. TradeDone(book.arena, new.arena, Top.slot, maker, TradeQty(price))
  BY TradedLinks
<1> HIDE DEF new, maker
<1>2. /\ DOMAIN new.arena = DOMAIN book.arena
      /\ \A s \in DOMAIN book.arena :
           /\ SameButSize(book.arena[s], new.arena[s])
           /\ (s # Top.slot /\ s # maker) => new.arena[s].remaining = book.arena[s].remaining
  BY <1>1 DEF TradeDone
<1>3. /\ \A s \in DOMAIN c.arena : s \in DOMAIN new.arena /\ SameTerms(new.arena[s], c.arena[s])
      /\ \A s \in DOMAIN new.arena : s # maker => s \in DOMAIN c.arena
  BY DEF new, maker
<1>4. OthersRest(book, c, {Top.slot}, maker)
  BY <1>2, <1>3 DEF OthersRest, SameTerms, SameButSize, Rests
<1> QED BY <1>4 DEF maker

LEMMA FillMakerCounted ==
  ASSUME Inv, Whole(book, stack), Matching, NEW price, FillMaker(price), IsFiniteSet(OrderId),
         Counted(book, {Top.slot})
  PROVE  Counted(book', {Top.slot})
<1> DEFINE maker == MakerAt(price)
           side  == Other
<1>1. TradesAt(price) /\ book'.arena = Drop(Traded(price).arena, maker)
  BY FillMakerTotal DEF FillMaker
<1>2. PICK left : /\ left.total = SaturatingSub(book.levels[side][price].total,
                                                book.arena[maker].remaining)
                  /\ LevelsBut(book, book', side, price, left)
  BY FillMakerTotal
<1>3. RestingMaker(maker, side, price)
  BY <1>1, MakerRests
<1>4. Countable(book, {Top.slot})
  BY <1>3, CountableNow DEF RestingMaker
<1>5. OthersRest(book, book', {Top.slot}, maker)
  <2>1. /\ DOMAIN book'.arena \subseteq DOMAIN Traded(price).arena
        /\ \A s \in DOMAIN book'.arena : SameTerms(Traded(price).arena[s], book'.arena[s])
        /\ \A s \in DOMAIN Traded(price).arena : s # maker => s \in DOMAIN book'.arena
    <3> HIDE DEF maker
    <3> QED BY <1>1 DEF Drop, SameTerms
  <2> QED BY <1>1, <2>1, TradeOthersRest
<1>6. maker \notin DOMAIN book'.arena
  <2> HIDE DEF maker
  <2> QED BY <1>1 DEF Drop
<1> HIDE DEF maker, side
<1>7. /\ Rests(book.arena, {Top.slot}, maker) /\ side \in Side
      /\ price \in DOMAIN book.levels[side] /\ PlacedAt(book.arena[maker], side, price)
      /\ BookTypeOK(book)
  BY <1>3 DEF RestingMaker, PlacedAt, Inv, BookSound
<1> QED BY <1>2, <1>4, <1>5, <1>6, <1>7, LevelLosesOne

LEMMA CutMakerCounted ==
  ASSUME Inv, Whole(book, stack), Matching, NEW price, CutMaker(price), IsFiniteSet(OrderId),
         Counted(book, {Top.slot})
  PROVE  Counted(book', {Top.slot})
<1> DEFINE new   == Traded(price)
           maker == MakerAt(price)
           side  == Other
           qty   == TradeQty(price)
<1>1. TradesAt(price)
  BY DEF CutMaker
<1>2. /\ maker \in DOMAIN new.arena /\ DOMAIN book'.arena = DOMAIN new.arena
      /\ \A s \in DOMAIN new.arena : SameTerms(new.arena[s], book'.arena[s])
  BY CutMakerTotal
<1>3. PICK left, full :
        /\ left.total = SaturatingSub(book.levels[side][price].total, book.arena[maker].remaining)
        /\ full.total = Plus(left.total, new.arena[maker].remaining)
        /\ PutAt(book, new, side, price, left) /\ PutAt(new, book', side, price, full)
  BY CutMakerTotal
<1>4. RestingMaker(maker, side, price)
  BY <1>1, MakerRests
<1>5. Countable(book, {Top.slot})
  BY <1>4, CountableNow DEF RestingMaker
<1>6. OthersRest(book, book', {Top.slot}, maker)
  BY <1>1, <1>2, TradeOthersRest
<1>7. TradeDone(book.arena, new.arena, Top.slot, maker, qty)
  BY <1>1, TradedLinks
<1>8. /\ book.arena[maker].remaining \in Qty /\ qty \in Qty
      /\ qty <= book.arena[maker].remaining
  <2>1. book.arena[maker] \in Order /\ book.arena[Top.slot] \in Order
    BY <1>4 DEF RestingMaker, Matching, Inv, BookSound, BookTypeOK, IsMap
  <2> DEFINE m == book.arena[maker].remaining
             t == book.arena[Top.slot].remaining
  <2>2. m \in Qty /\ t \in Qty /\ qty = Least(t, m)
    BY <2>1 DEF Order, TradeQty, Taker
  <2> HIDE DEF m, t, qty
  <2>3. qty \in Qty /\ qty <= m
    BY <2>2 DEF Least, Qty
  <2> QED BY <2>2, <2>3 DEF m
<1> HIDE DEF new, maker, side, qty
<1>9. /\ Rests(book.arena, {Top.slot}, maker) /\ side \in Side
      /\ price \in DOMAIN book.levels[side] /\ PlacedAt(book.arena[maker], side, price)
      /\ BookTypeOK(book) /\ maker \in DOMAIN book.arena
  BY <1>4 DEF RestingMaker, PlacedAt, Inv, BookSound
<1>10. /\ book'.arena[maker].remaining = new.arena[maker].remaining
       /\ new.arena[maker].remaining = Minus(book.arena[maker].remaining, qty)
       /\ DOMAIN book'.arena = DOMAIN book.arena
  BY <1>2, <1>7, <1>9 DEF TradeDone, SameTerms
<1>11. /\ book'.arena[maker].remaining \in Nat
       /\ book'.arena[maker].remaining <= book.arena[maker].remaining
  <2> DEFINE m == book.arena[maker].remaining
  <2>1. book'.arena[maker].remaining = Minus(m, qty) /\ m \in Qty /\ qty \in Qty /\ qty <= m
    BY <1>8, <1>10
  <2> HIDE DEF m
  <2>2. Minus(m, qty) \in Nat /\ Minus(m, qty) <= m
    BY <2>1, QtyModAssumption DEF Minus, Qty
  <2> QED BY <2>1, <2>2 DEF m
<1>12. full.total = Plus(left.total, book'.arena[maker].remaining)
  BY <1>3, <1>10
<1> QED BY <1>3, <1>5, <1>6, <1>9, <1>10, <1>11, <1>12, LevelCutsOne

LEMMA RestCounted ==
  ASSUME Inv, Inv', Whole(book, stack), Whole(book', stack'), Rest, IsFiniteSet(OrderId),
         Counted(book, Takers(stack)),
         NEW q \in Nat, OrdersWithin(book', q), q * Cardinality(OrderId) < QtyMod
  PROVE  Counted(book', Takers(stack'))
<1> DEFINE slot  == Top.slot
           side  == Taker.side
           price == Taker.price
           loc   == [slot |-> slot, side |-> side, price |-> price]
           known == IndexInsert(book, Taker.id, loc)
<1>1. /\ Matching /\ Taker.kind = "Limit" /\ book' = InsertResting(known, slot)
  BY DEF Rest
<1>2. /\ slot \in DOMAIN book.arena /\ slot \in Slot /\ Taker = book.arena[slot]
      /\ Taker \in Order /\ BookTypeOK(book)
  BY <1>1, InvType, TakerType DEF Matching, Taker, Inv, BookSound
<1>3. side \in Side /\ price \in Price /\ Taker.id \in OrderId
  BY <1>2 DEF Order
<1>4. Takers(stack) = {slot} /\ Takers(stack') = {}
  <2>1. Takers(stack) = {slot}
    BY <1>1, InCall DEF Matching
  <2>2. ThenTriggers
    BY CallAfter
  <2> QED BY <2>1, <2>2, NoTakersThen
<1>5. loc \in Location
  BY <1>2, <1>3 DEF Location
<1> HIDE DEF loc
<1>6. BookTypeOK(known) /\ known.levels = book.levels /\ known.arena = book.arena
  BY <1>2, <1>3, <1>5, IndexType
<1>7. PlacedAt(Taker, side, price)
  BY DEF PlacedAt
<1> HIDE DEF slot, side, price, known
<1>8. PICK full : /\ full.total = Plus(LevelAt(known, side, price).total,
                                       known.arena[slot].remaining)
                  /\ PutAt(known, book', side, price, full)
  BY <1>1, <1>2, <1>6, <1>7, RestTotal
<1>9. FewerOrders(book, book') /\ DOMAIN book'.arena = DOMAIN book.arena
  <2>1. FewerOrders(book, book')
    BY RestWhole
  <2>2. DOMAIN book'.arena = DOMAIN known.arena
    <3>1. SameOrders(known, book')
      BY <1>1, <1>2, <1>6, InsertRestingType
    <3> QED BY <3>1 DEF SameOrders
  <2> QED BY <1>6, <2>1, <2>2
<1>10. \A s : Rests(book'.arena, {}, s) <=> Rests(book.arena, {slot}, s) \/ s = slot
  BY <1>1, <1>2, <1>9 DEF Rests, FewerOrders, SameTerms
<1>11. Countable(book, {slot}) /\ Countable(book', {})
  <2>1. Countable(book, Takers(stack))
    BY CountableNow
  <2>2. BookTypeOK(book') /\ OrdersSound(book', {})
    BY <1>4 DEF Inv, BookSound, Whole
  <2> QED BY <1>4, <2>1, <2>2, OrdersAreFew
<1>12. /\ PutAt(book, book', side, price, full)
       /\ full.total = Plus(LevelAt(book, side, price).total, book.arena[slot].remaining)
  BY <1>6, <1>8 DEF PutAt, LevelAt
<1> DEFINE T == RestsAt(book'.arena, {}, side, price)
<1>13. Left(book'.arena, T) < QtyMod
  BY <1>3, <1>11, LeftFits DEF side, price
<1>14. /\ ListsSound(book, {slot}) /\ Counted(book, {slot})
       /\ ~Rests(book.arena, {slot}, slot)
  BY <1>4 DEF Whole, Rests
<1>15. side \in Side /\ price \in Price /\ PlacedAt(book.arena[slot], side, price)
  BY <1>2, <1>3, <1>7 DEF side, price
<1> HIDE DEF T
<1>16. Counted(book', {})
  BY <1>2, <1>9, <1>10, <1>11, <1>12, <1>13, <1>14, <1>15, LevelGainsOne DEF T
<1> QED BY <1>4, <1>16

LEMMA ApplyCounted ==
  ASSUME Inv, Inv', Whole(book, stack), Whole(book', stack'), Apply,
         IsFiniteSet(OrderId), Counted(book, Takers(stack)),
         NEW q \in Nat, OrdersWithin(book', q), q * Cardinality(OrderId) < QtyMod
  PROVE  Counted(book', Takers(stack'))
<1>0. Countable(book, Takers(stack))
  BY CountableNow
<1>1. ASSUME RejectNew \/ KillFok
      PROVE  Counted(book', Takers(stack'))
  <2>1. ThenTriggers /\ book' = book /\ In("apply_new")
    BY <1>1, CallAfter DEF RejectNew, KillFok
  <2>2. Takers(stack) = {} /\ Takers(stack') = {}
    BY <2>1, InCall, NoTakersThen
  <2> QED BY <2>1, <2>2
<1>2. ASSUME HoldStop
      PROVE  Counted(book', Takers(stack'))
  <2> DEFINE order == OrderOf(Top.order)
             slot  == VacantSlot(book)
  <2>1. ThenTriggers /\ In("apply_new") /\ order.kind # "Limit"
    BY <1>2, CallAfter DEF HoldStop, IsStop, OrderOf
  <2>2. Takers(stack) = {} /\ Takers(stack') = {}
    BY <2>1, InCall, NoTakersThen
  <2>3. Joins(book, book', slot, order)
    BY <1>2, HoldStopJoins
  <2> HIDE DEF order, slot
  <2>4. Counted(book', {})
    <3>1. Counted(book, {}) /\ Countable(book, {})
      BY <1>0, <2>2
    <3>2. {} \subseteq {slot}
      OBVIOUS
    <3> QED BY <2>1, <2>3, <3>1, <3>2, JoinsCounted
  <2> QED BY <2>2, <2>4
<1>3. ASSUME StartMatch
      PROVE  Counted(book', Takers(stack'))
  <2> DEFINE order == OrderOf(Top.order)
             slot  == VacantSlot(book)
  <2>1. /\ In("apply_new") /\ stack' # <<>>
        /\ stack'[Len(stack')] = MatchOrder(slot, 0)
    BY <1>3, CallAfter DEF StartMatch
  <2>2. Takers(stack) = {}
    BY <2>1, InCall
  <2>3. Takers(stack') = {slot}
    <3>1. StackSound(stack')
      BY DEF Inv
    <3> QED BY <2>1, <3>1, TakersAre DEF MatchOrder
  <2>4. Joins(book, book', slot, order)
    BY <1>3, StartMatchJoins
  <2> HIDE DEF order, slot
  <2>5. Counted(book', {slot})
    <3>1. Counted(book, {}) /\ Countable(book, {})
      BY <1>0, <2>2
    <3> QED BY <2>4, <3>1, JoinsCounted
  <2> QED BY <2>3, <2>5
<1>4. ASSUME MatchStep
      PROVE  Counted(book', Takers(stack'))
  <2>1. PICK price : Matching /\ (FillMaker(price) \/ CutMaker(price))
    BY <1>4 DEF MatchStep
  <2>2. TradesAt(price) /\ CountFill(price)
    BY <2>1 DEF FillMaker, CutMaker
  <2>3. Takers(stack) = {Top.slot}
    BY <2>1, InCall DEF Matching
  <2>4. Takers(stack') = {Top.slot}
    <3>1. StackSound(stack')
      BY DEF Inv
    <3>2. /\ stack' # <<>> /\ stack'[Len(stack')].call = "match_order"
          /\ stack'[Len(stack')].slot = Top.slot
      BY <2>1, <2>2, CallAfterTrade
    <3> QED BY <3>1, <3>2, TakersAre
  <2> QED BY <2>1, <2>3, <2>4, FillMakerCounted, CutMakerCounted
<1>5. ASSUME FinishFilled \/ CancelRest
      PROVE  Counted(book', Takers(stack'))
  <2>1. ThenTriggers /\ Matching /\ Leaves(book, book', Top.slot)
    BY <1>5, CallAfter, TakerIsGone DEF FinishFilled, CancelRest
  <2>2. /\ Takers(stack) = {Top.slot} /\ Takers(stack') = {}
        /\ Top.slot \in DOMAIN book.arena
    BY <2>1, InCall, NoTakersThen DEF Matching
  <2> DEFINE slot == Top.slot
  <2>3. /\ Counted(book, {slot}) /\ Countable(book, {slot}) /\ slot \in DOMAIN book.arena
        /\ Leaves(book, book', slot)
    BY <1>0, <2>1, <2>2
  <2> HIDE DEF slot
  <2>4. Counted(book', {})
    BY <2>3, LeavesCounted
  <2> QED BY <2>2, <2>4
<1>6. ASSUME Rest
      PROVE  Counted(book', Takers(stack'))
  BY <1>6, RestCounted
<1>7. ASSUME VisitStop
      PROVE  Counted(book', Takers(stack'))
  <2>1. PICK p \in DOMAIN Top.todo : SkipStop(p) \/ FireStop(p)
    BY <1>7 DEF VisitStop
  <2>2. Triggering
    BY <1>7 DEF VisitStop
  <2>3. Takers(stack) = {}
    BY <2>2, InTrigger
  <2>4. Takers(stack') = {}
    <3>1. StackSound(stack')
      BY DEF Inv
    <3>2. /\ stack' # <<>>
          /\ \/ stack'[Len(stack')].call = "trigger_stops"
             \/ stack'[Len(stack')].call = "apply_new"
      BY <2>1, <2>2, CallAfterVisit
    <3> QED BY <3>1, <3>2, TakersAre
  <2>5. CASE SkipStop(p)
    BY <2>3, <2>4, <2>5 DEF SkipStop
  <2>6. CASE FireStop(p)
    <3> DEFINE slot == Head(Top.todo[p])
    <3>1. slot \in StopsOf(book) /\ Leaves(book, book', slot)
      BY <2>2, <2>6, FireStopStays, FiredIsGone
    <3> HIDE DEF slot
    <3>2. slot \in DOMAIN book.arena /\ book.arena[slot].kind # "Limit"
      BY <3>1 DEF StopsOf, IsStop
    <3>3. Counted(book, {}) /\ Countable(book, {})
      BY <1>0, <2>3
    <3>4. {} \subseteq {slot}
      OBVIOUS
    <3>5. Counted(book', {})
      BY <3>1, <3>2, <3>3, <3>4, LeavesCounted
    <3> QED BY <2>4, <3>5
  <2> QED BY <2>1, <2>5, <2>6
<1>8. ASSUME EndStops
      PROVE  Counted(book', Takers(stack'))
  <2>1. ThenTriggers /\ Triggering
    BY <1>8, CallAfter DEF EndStops
  <2>2. Takers(stack) = {} /\ Takers(stack') = {}
    BY <2>1, InTrigger, NoTakersThen
  <2>3. book'.arena = book.arena /\ book'.levels = book.levels
    BY <1>8 DEF EndStops, Inv, BookSound, BookTypeOK, IsBook
  <2>4. Counted(book', {})
    BY <2>2, <2>3, SameBookCounted
  <2> QED BY <2>2, <2>4
<1> QED BY Zenon, <1>1, <1>2, <1>3, <1>4, <1>5, <1>6, <1>7, <1>8 DEF Apply

LEMMA IdleCounted ==
  ASSUME Inv, Inv', Whole(book, stack), Tame, IsFiniteSet(OrderId), Counted(book, Takers(stack)),
         Receive \/ Deliver \/ UNCHANGED vars
  PROVE  Counted(book', Takers(stack'))
<1>1. ASSUME Deliver \/ UNCHANGED vars
      PROVE  Counted(book', Takers(stack'))
  <2>1. book' = book /\ stack' = stack
    BY <1>1 DEF Deliver, vars
  <2> QED BY <2>1
<1>2. ASSUME NEW c, NEW reason, Refuse(c, reason)
      PROVE  Counted(book', Takers(stack'))
  <2>1. book' = book /\ stack' = stack
    BY <1>2 DEF Refuse
  <2> QED BY <2>1
<1>3. ASSUME stack = <<>>
      PROVE  Takers(stack) = {}
  BY <1>3, TakersAre DEF Inv
<1>4. ASSUME NEW no, stack' = <<ApplyNew(no)>>
      PROVE  Takers(stack') = {}
  <2>1. stack' # <<>> /\ stack'[Len(stack')].call = "apply_new"
    BY <1>4 DEF ApplyNew
  <2> QED BY <2>1, TakersAre DEF Inv
<1>5. ASSUME NEW c \in Commands, New(c)
      PROVE  Counted(book', Takers(stack'))
  <2>1. stack = <<>> /\ book' = book /\ \E no : stack' = <<ApplyNew(no)>>
    BY <1>5 DEF New, Idle
  <2> QED BY <1>3, <1>4, <2>1
<1>6. ASSUME NEW c \in Commands, Cancel(c) \/ Replace(c), c.id \in DOMAIN book.ids,
             book' = Without(c.id)
      PROVE  Counted(book', {})
  <2>1. c.id \notin StopIdentifiers /\ stack = <<>>
    BY <1>6 DEF Tame, Cancel, Replace, Idle
  <2>2. Counted(book, {})
    BY <1>3, <2>1
  <2> QED BY <1>6, <2>1, <2>2, WithoutCounted
<1>7. ASSUME NEW c \in Commands, Cancel(c)
      PROVE  Counted(book', Takers(stack'))
  <2>1. \/ Refuse(c, "UnknownId")
        \/ c.id \in DOMAIN book.ids /\ book' = Without(c.id) /\ stack' = stack
    BY <1>7 DEF Cancel
  <2>2. stack = <<>>
    BY <1>7 DEF Cancel, Idle
  <2> QED BY <1>2, <1>3, <1>6, <1>7, <2>1, <2>2
<1>8. ASSUME NEW c \in Commands, Replace(c)
      PROVE  Counted(book', Takers(stack'))
  <2>1. \/ Refuse(c, "ZeroQty") \/ Refuse(c, "UnknownId")
        \/ /\ c.id \in DOMAIN book.ids /\ book' = Without(c.id)
           /\ \E no : stack' = <<ApplyNew(no)>>
    BY <1>8 DEF Replace
  <2>2. ASSUME c.id \in DOMAIN book.ids, book' = Without(c.id), NEW no, stack' = <<ApplyNew(no)>>
        PROVE  Counted(book', Takers(stack'))
    <3>1. Counted(book', {}) /\ Takers(stack') = {}
      BY <1>4, <1>6, <1>8, <2>2
    <3> QED BY <3>1
  <2> QED BY <1>2, <2>1, <2>2
<1> QED BY Zenon, <1>1, <1>5, <1>7, <1>8 DEF Receive

LEMMA InitCounted ==
  ASSUME Init, NEW q \in Nat
  PROVE  Modest(q) /\ Counted(book, Takers(stack))
<1>1. stack = <<>> /\ DOMAIN book.arena = {}
      /\ \A side \in Side : DOMAIN book.levels[side] = {}
  BY DEF Init, EmptyBook
<1>2. Modest(q)
  BY <1>1 DEF Modest, OrdersWithin, AskWithin
<1> QED BY <1>1, <1>2 DEF Counted, TotalAt

LEMMA StepCounted ==
  ASSUME Inv, Inv', Whole(book, stack), Whole(book', stack'), Tame, IsFiniteSet(OrderId),
         NEW q \in Nat, QtysWithin(q), q * Cardinality(OrderId) < QtyMod,
         Modest(q), Counted(book, Takers(stack)), [Next]_vars
  PROVE  Modest(q)' /\ Counted(book', Takers(stack'))
<1>1. ASSUME Apply
      PROVE  Modest(q)' /\ Counted(book', Takers(stack'))
  <2>1. Modest(q)'
    BY <1>1, ApplyModest
  <2>2. OrdersWithin(book', q)
    BY <2>1 DEF Modest
  <2> QED BY <1>1, <2>1, <2>2, ApplyCounted
<1>2. ASSUME Receive \/ Deliver \/ UNCHANGED vars
      PROVE  Modest(q)' /\ Counted(book', Takers(stack'))
  BY <1>2, IdleModest, IdleCounted
<1> QED BY Zenon, <1>1, <1>2 DEF Next

LEMMA CountedHolds ==
  ASSUME Tame, IsFiniteSet(OrderId),
         NEW q \in Nat, QtysWithin(q), q * Cardinality(OrderId) < QtyMod
  PROVE  Spec => [](Inv /\ Whole(book, stack) /\ Counted(book, Takers(stack)))
<1>1. Init => Modest(q) /\ Counted(book, Takers(stack))
  BY InitCounted
<1>2. /\ Inv /\ Whole(book, stack) /\ Inv' /\ Whole(book, stack)'
      /\ Modest(q) /\ Counted(book, Takers(stack)) /\ [Next]_vars
      => Modest(q)' /\ Counted(book, Takers(stack))'
  BY StepCounted
<1> QED BY <1>1, <1>2, WholeHolds, PTL DEF Spec

\* Through fills that put a maker back, cancels from the middle and replaces, the
\* total of every level is what its orders have left, as long as the quantities
\* that clients may have open together fit in a word.
THEOREM TotalsAlwaysAgree ==
  ASSUME Tame, Ample
  PROVE  Spec => []TotalsAgree
<1>1. PICK q \in Nat : QtysWithin(q) /\ q * Cardinality(OrderId) < QtyMod
  BY DEF Ample
<1>2. Spec => [](Inv /\ Whole(book, stack) /\ Counted(book, Takers(stack)))
  BY <1>1, CountedHolds DEF Ample
<1>3. Inv /\ Whole(book, stack) /\ Counted(book, Takers(stack)) => TotalsAgree
  <2> SUFFICES ASSUME Inv, Whole(book, stack), Counted(book, Takers(stack)),
                      NEW side \in Side, NEW p \in DOMAIN book.levels[side]
               PROVE  book.levels[side][p].total = Left(book.arena, Resting(side, p))
    BY DEF TotalsAgree, Left
  <2>1. p \in Price
    BY DEF Inv, BookSound, BookTypeOK, IsMap
  <2>2. Resting(side, p) = RestsAt(book.arena, Takers(stack), side, p)
    BY RestingAre DEF Resting, RestsAt
  <2> QED BY <2>1, <2>2 DEF Counted, TotalAt
<1> QED BY <1>2, <1>3, PTL

\* Lists, totals, index and arena agree in every reachable state.
THEOREM BookIsWhole ==
  ASSUME Tame, Ample
  PROVE  Spec => []BookIntegrity
<1>1. ListsAgree /\ TotalsAgree => BookIntegrity
  BY DEF BookIntegrity
<1> QED BY <1>1, ListsAlwaysAgree, TotalsAlwaysAgree, PTL

(***************************************************************************)
(* What several levels hold together is what their orders have left.       *)
(***************************************************************************)

\* The sum that a fill-or-kill order is measured against.
HoldTogether(levels, P) == MapThenSumSet(LAMBDA p : levels[p].total, P)

TotalsOf(levels) == [p \in DOMAIN levels |-> levels[p].total]

\* The unfolding of the community modules' sum, for the totals of levels.
TotalsAddUp(levels, P, g) ==
  g = [s \in SUBSET P |-> IF s = {} THEN 0
                          ELSE LET p == CHOOSE p \in s : TRUE
                               IN  levels[p].total + g[s \ {p}]]

LEMMA HeldIsSum ==
  ASSUME NEW levels, NEW P, P \subseteq DOMAIN levels, IsFiniteSet(P)
  PROVE  HoldTogether(levels, P) = Sum(TotalsOf(levels), P)
<1>1. HoldTogether(levels, P) = (CHOOSE g : TotalsAddUp(levels, P, g))[P]
  BY DEF HoldTogether, MapThenSumSet, MapThenFoldSet, TotalsAddUp
<1>2. ASSUME NEW s \in SUBSET P, s # {}
      PROVE  TotalsOf(levels)[First(s)] = levels[CHOOSE p \in s : TRUE].total
  BY <1>2, FirstIn DEF First, TotalsOf
<1>3. ASSUME NEW g
      PROVE  [s \in SUBSET P |-> IF s = {} THEN 0
                                 ELSE TotalsOf(levels)[First(s)] + g[s \ {First(s)}]]
               = [s \in SUBSET P |-> IF s = {} THEN 0
                                     ELSE LET p == CHOOSE p \in s : TRUE
                                          IN  levels[p].total + g[s \ {p}]]
  BY <1>2 DEF First
<1>4. ASSUME NEW g, Sums(TotalsOf(levels), P, g)
      PROVE  TotalsAddUp(levels, P, g)
  BY Zenon, <1>3, <1>4 DEF Sums, TotalsAddUp
<1>5. ASSUME NEW g, TotalsAddUp(levels, P, g)
      PROVE  Sums(TotalsOf(levels), P, g)
  BY Zenon, <1>3, <1>5 DEF Sums, TotalsAddUp
<1>6. \E g : TotalsAddUp(levels, P, g)
  BY <1>4, SumsExists
<1> DEFINE h == CHOOSE g : TotalsAddUp(levels, P, g)
<1>7. TotalsAddUp(levels, P, h)
  BY <1>6
<1> HIDE DEF h
<1>8. Sums(TotalsOf(levels), P, h)
  BY <1>5, <1>7
<1>9. Sum(TotalsOf(levels), P) = h[P]
  BY <1>8, SumIs
<1> QED BY <1>1, <1>9 DEF h

\* Orders of two sets that share none.
LEMMA LeftSplits ==
  ASSUME NEW a, NEW S, NEW T, Sized(a, S), Sized(a, T), S \cap T = {}
  PROVE  Sized(a, S \cup T) /\ Left(a, S \cup T) = Left(a, S) + Left(a, T)
<1>1. Sized(a, S \cup T)
  BY FS_Union DEF Sized
<1> DEFINE P == {s \in SUBSET S : Left(a, s \cup T) = Left(a, s) + Left(a, T)}
<1>2. Left(a, T) \in Nat
  BY LeftNat
<1>3. {} \in P
  <2>1. {} \cup T = T
    OBVIOUS
  <2>2. Left(a, {}) = 0
    BY LeftOfNone
  <2> QED BY <1>2, <2>1, <2>2
<1>4. ASSUME NEW s \in SUBSET S, s # {}, \A x \in s : s \ {x} \in P
      PROVE  s \in P
  <2>1. PICK y \in s : TRUE
    BY <1>4
  <2>2. Sized(a, s) /\ Sized(a, s \cup T) /\ Sized(a, s \ {y})
    BY <1>1, FS_Subset DEF Sized
  <2> DEFINE r == a[y].remaining
             m == Left(a, s \ {y})
             t == Left(a, T)
             n == Left(a, (s \ {y}) \cup T)
  <2>3. r \in Nat /\ m \in Nat /\ t \in Nat
    BY <1>2, <2>2, LeftNat DEF Sized
  <2>4. Left(a, s) = r + m
    BY <2>2, LeftTakes
  <2>5. Left(a, s \cup T) = r + n
    <3>1. (s \cup T) \ {y} = (s \ {y}) \cup T /\ y \in s \cup T
      OBVIOUS
    <3> QED BY <2>2, <3>1, LeftTakes
  <2>6. n = m + t
    BY <1>4
  <2> HIDE DEF r, m, t, n
  <2>7. Left(a, s \cup T) = Left(a, s) + t
    BY <2>3, <2>4, <2>5, <2>6
  <2> QED BY <2>7 DEF t
<1>5. \A s \in SUBSET S : s \in P
  <2>1. IsFiniteSet(S)
    BY DEF Sized
  <2> HIDE DEF P
  <2> QED BY <1>3, <1>4, <2>1, SubsetInduction
<1> QED BY <1>1, <1>5

\* Levels with totals that count their orders.
LevelsCount(a, levels, at, P) ==
  /\ P \subseteq DOMAIN levels /\ IsFiniteSet(P)
  /\ \A p \in P : Sized(a, at[p]) /\ levels[p].total = Left(a, at[p])
  /\ \A p, r \in P : p # r => at[p] \cap at[r] = {}

Together(at, P) == UNION {at[p] : p \in P}

LEMMA HeldIsLeft ==
  ASSUME NEW a, NEW levels, NEW at, NEW P, LevelsCount(a, levels, at, P)
  PROVE  HoldTogether(levels, P) = Left(a, Together(at, P)) /\ HoldTogether(levels, P) \in Nat
<1> DEFINE w == TotalsOf(levels)
           Q == {s \in SUBSET P : /\ Sized(a, Together(at, s))
                                  /\ Sum(w, s) = Left(a, Together(at, s))}
<1>1. \A p \in P : Sized(a, at[p]) /\ w[p] = Left(a, at[p]) /\ w[p] \in Nat
  BY LeftNat DEF LevelsCount, TotalsOf
<1>2. IsFiniteSet(P) /\ P \subseteq DOMAIN levels
  BY DEF LevelsCount
<1> HIDE DEF w
<1>3. {} \in Q
  <2>1. Together(at, {}) = {}
    BY DEF Together
  <2>2. Sum(w, {}) = 0 /\ Left(a, {}) = 0 /\ Sized(a, {})
    BY SumUnfolds, LeftOfNone, FS_EmptySet DEF Sized
  <2> QED BY <2>1, <2>2
<1>4. ASSUME NEW s \in SUBSET P, s # {}, \A x \in s : s \ {x} \in Q
      PROVE  s \in Q
  <2>1. PICK p \in s : TRUE
    BY <1>4
  <2> DEFINE rest == Together(at, s \ {p})
  <2>2. Sum(w, s) = w[p] + Sum(w, s \ {p})
    BY <1>1, <1>2, SumTakesAny
  <2>3. Sized(a, rest) /\ Sum(w, s \ {p}) = Left(a, rest)
    BY <1>4
  <2>4. Together(at, s) = at[p] \cup rest
    BY DEF Together
  <2>5. at[p] \cap rest = {}
    BY DEF Together, LevelsCount
  <2>6. Sized(a, at[p]) /\ w[p] = Left(a, at[p])
    BY <1>1
  <2> HIDE DEF rest
  <2>7. /\ Sized(a, at[p] \cup rest)
        /\ Left(a, at[p] \cup rest) = Left(a, at[p]) + Left(a, rest)
    BY <2>3, <2>5, <2>6, LeftSplits
  <2> QED BY <2>2, <2>3, <2>4, <2>6, <2>7
<1>5. \A s \in SUBSET P : s \in Q
  <2> HIDE DEF Q
  <2> QED BY <1>2, <1>3, <1>4, SubsetInduction
<1>6. HoldTogether(levels, P) = Sum(w, P)
  BY <1>2, HeldIsSum DEF w
<1>7. Sum(w, P) = Left(a, Together(at, P)) /\ Sized(a, Together(at, P))
  BY <1>5
<1> QED BY <1>6, <1>7, LeftNat

\* Prices that have a level are as few as the orders.
LEMMA LevelsAreFew ==
  ASSUME Inv, Whole(book, stack), IsFiniteSet(OrderId), NEW side \in Side
  PROVE  /\ IsFiniteSet(DOMAIN book.levels[side])
         /\ \A p \in DOMAIN book.levels[side] : p \in Price
<1> DEFINE P     == DOMAIN book.levels[side]
           taken == Takers(stack)
           f     == [p \in P |-> book.arena[book.levels[side][p].head].id]
<1>1. BookTypeOK(book) /\ OrdersSound(book, taken) /\ ListsSound(book, taken)
  BY DEF Inv, BookSound, Whole
<1>2. \A p \in P : p \in Price
  BY <1>1 DEF BookTypeOK, IsMap
<1>3. \A p \in P : book.levels[side][p].head \in RestsAt(book.arena, taken, side, p)
  <2>1. PICK age : \A d \in Side, p \in Price : ListAt(book.arena, book.levels, taken, age, d, p)
    BY <1>1 DEF ListsSound
  <2> QED BY <1>2, <2>1 DEF ListAt, Linked
<1> HIDE DEF taken
<1>4. ASSUME NEW p \in P, NEW head, head = book.levels[side][p].head
      PROVE  /\ book.arena[head].id \in OrderId /\ book.ids[book.arena[head].id].slot = head
             /\ book.arena[head].price = p
  <2>1. head \in DOMAIN book.arena /\ head \notin taken /\ book.arena[head].price = p
    BY <1>3, <1>4 DEF RestsAt, Rests
  <2>2. book.arena[head] \in Order
    BY <1>1, <2>1 DEF BookTypeOK, IsMap
  <2> QED BY <1>1, <2>1, <2>2 DEF OrdersSound, Order
<1>5. f \in Injection(P, OrderId)
  <2>1. f \in [P -> OrderId]
    BY <1>4
  <2>2. ASSUME NEW p \in P, NEW r \in P, f[p] = f[r]
        PROVE  p = r
    <3> DEFINE m == book.levels[side][p].head
               n == book.levels[side][r].head
    <3>1. book.arena[m].id = book.arena[n].id
      BY <2>2
    <3>2. /\ book.ids[book.arena[m].id].slot = m /\ book.arena[m].price = p
          /\ book.ids[book.arena[n].id].slot = n /\ book.arena[n].price = r
      BY <1>4
    <3> HIDE DEF m, n
    <3> QED BY <3>1, <3>2
  <2> QED BY <2>1, <2>2 DEF Injection, IsInjective
<1>6. IsFiniteSet(P)
  BY <1>5, FS_Injection
<1> QED BY <1>2, <1>6

\* The levels on the other side that an order may trade with.
WithinLimit(side, limit) ==
  {p \in DOMAIN book.levels[Opposite(side)] : Within(side, limit, p)}

OrdersWithinLimit(side, limit) ==
  UNION {Resting(Opposite(side), p) : p \in WithinLimit(side, limit)}

\* What a fill-or-kill order is measured against is what the orders within its
\* limit have left.
LEMMA WithinHolds ==
  ASSUME Inv, Whole(book, stack), Counted(book, Takers(stack)), IsFiniteSet(OrderId),
         NEW mine \in Side, NEW limit
  PROVE  /\ HoldTogether(book.levels[Opposite(mine)], WithinLimit(mine, limit))
              = Left(book.arena, OrdersWithinLimit(mine, limit))
         /\ HoldTogether(book.levels[Opposite(mine)], WithinLimit(mine, limit)) \in Nat
<1> DEFINE side   == Opposite(mine)
           levels == book.levels[side]
           within == WithinLimit(mine, limit)
           at     == [p \in within |-> Resting(side, p)]
<1>1. side \in Side
  BY DEF Opposite, Side
<1> HIDE DEF side
<1>2. IsFiniteSet(DOMAIN levels) /\ \A p \in DOMAIN levels : p \in Price
  BY <1>1, LevelsAreFew
<1>3. within \subseteq DOMAIN levels /\ IsFiniteSet(within)
  <2>1. within \subseteq DOMAIN levels
    BY DEF WithinLimit, side
  <2> HIDE DEF within, levels
  <2> QED BY <1>2, <2>1, FS_Subset
<1> HIDE DEF within
<1>4. ASSUME NEW p \in within
      PROVE  at[p] = RestsAt(book.arena, Takers(stack), side, p)
  BY <1>4, RestingAre DEF Resting, RestsAt
<1>5. LevelsCount(book.arena, levels, at, within)
  <2>1. ASSUME NEW p \in within
        PROVE  Sized(book.arena, at[p]) /\ levels[p].total = Left(book.arena, at[p])
    <3>1. p \in Price /\ p \in DOMAIN book.levels[side]
      BY <1>2, <1>3, <2>1
    <3>2. Countable(book, Takers(stack))
      BY CountableNow
    <3> HIDE DEF at
    <3> QED BY <1>1, <1>4, <2>1, <3>1, <3>2 DEF Countable, Counted, TotalAt
  <2>2. \A p, r \in within : p # r => at[p] \cap at[r] = {}
    BY DEF Resting
  <2> HIDE DEF at
  <2> QED BY <1>3, <2>1, <2>2 DEF LevelsCount
<1>6. Together(at, within) = OrdersWithinLimit(mine, limit)
  BY DEF Together, OrdersWithinLimit, within, side
<1> HIDE DEF at, levels
<1>7. /\ HoldTogether(levels, within) = Left(book.arena, Together(at, within))
      /\ HoldTogether(levels, within) \in Nat
  BY <1>5, HeldIsLeft
<1> QED BY <1>6, <1>7 DEF within, levels, side

LEMMA KilledRightly ==
  ASSUME Inv, Whole(book, stack), Counted(book, Takers(stack)), IsFiniteSet(OrderId)
  PROVE  FokKilledRightly
<1> SUFFICES ASSUME In("apply_new"), Refusal(Top.order) = None, Unfillable(Top.order)
             PROVE  Left(book.arena, OrdersWithinLimit(Top.order.side, Top.order.price))
                      < Top.order.qty
  BY DEF FokKilledRightly, Left, OrdersWithinLimit, WithinLimit
<1> DEFINE no  == Top.order
           sum == HoldTogether(book.levels[Opposite(no.side)], WithinLimit(no.side, no.price))
           qty == no.qty
<1>1. no \in NewOrder
  BY AcceptedType
<1>2. no.side \in Side /\ qty \in Qty
  BY <1>1 DEF NewOrder
<1>3. Least(sum, QtyMod - 1) < qty
  BY DEF Unfillable, Available, HoldTogether, WithinLimit
<1> HIDE DEF no
<1>4. sum = Left(book.arena, OrdersWithinLimit(no.side, no.price)) /\ sum \in Nat
  BY <1>2, WithinHolds
<1> HIDE DEF sum, qty
<1>5. sum < qty
  BY <1>2, <1>3, <1>4, QtyModAssumption DEF Least, Qty
<1> QED BY <1>4, <1>5 DEF qty, no

\* A fill-or-kill order is killed only when the orders that rest within its limit
\* have too little left, though only the totals of their levels are looked at.
THEOREM FokIsKilledRightly ==
  ASSUME Tame, Ample
  PROVE  Spec => []FokKilledRightly
<1>1. PICK q \in Nat : QtysWithin(q) /\ q * Cardinality(OrderId) < QtyMod
  BY DEF Ample
<1>2. Spec => [](Inv /\ Whole(book, stack) /\ Counted(book, Takers(stack)))
  BY <1>1, CountedHolds DEF Ample
<1>3. Inv /\ Whole(book, stack) /\ Counted(book, Takers(stack)) => FokKilledRightly
  BY KilledRightly DEF Ample
<1> QED BY <1>2, <1>3, PTL

===============================================================================
