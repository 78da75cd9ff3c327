--------------------------- MODULE MatcherFeedProofs ---------------------------
(***************************************************************************)
(* What the events tell of the matcher: a fill-or-kill order trades to the *)
(* last unit within its limit or not at all, and a client that rebuilds    *)
(* its open orders from the events alone has those of the book.            *)
(***************************************************************************)
EXTENDS MatcherFeed, MatcherTotalsProofs

(***************************************************************************)
(* The orders within reach of a fill-or-kill order have enough left.       *)
(***************************************************************************)

\* The orders that an order of one side and limit may trade with.
InReach(arena, taken, mine, limit) ==
  {s \in DOMAIN arena : /\ Rests(arena, taken, s)
                        /\ arena[s].side = Opposite(mine)
                        /\ Within(mine, limit, arena[s].price)}

LEMMA ReachSized ==
  ASSUME NEW b, BookTypeOK(b), NEW taken, OrdersSound(b, taken), IsFiniteSet(OrderId),
         NEW mine, NEW limit
  PROVE  Sized(b.arena, InReach(b.arena, taken, mine, limit))
<1> DEFINE S == InReach(b.arena, taken, mine, limit)
           f == [s \in S |-> b.arena[s].id]
<1>1. \A s \in S : s \in DOMAIN b.arena /\ s \notin taken
  BY DEF InReach, Rests
<1> HIDE DEF S
<1>2. \A s \in S : b.arena[s] \in Order
  BY <1>1 DEF BookTypeOK, IsMap
<1>3. \A s \in S : b.arena[s].id \in OrderId /\ b.ids[b.arena[s].id].slot = s
  BY <1>1, <1>2 DEF OrdersSound, Order
<1>4. f \in Injection(S, OrderId)
  BY <1>3 DEF Injection, IsInjective
<1>5. IsFiniteSet(S)
  BY <1>4, FS_Injection
<1>6. \A s \in S : b.arena[s].remaining \in Nat
  BY <1>2 DEF Order, Qty
<1> QED BY <1>1, <1>5, <1>6 DEF Sized, S

\* Every one of them rests at a price that has a level.
LEMMA ReachHasLevel ==
  ASSUME Inv, Whole(book, stack), NEW mine \in Side, NEW limit,
         NEW s \in InReach(book.arena, Takers(stack), mine, limit)
  PROVE  /\ book.arena[s].price \in DOMAIN book.levels[Opposite(mine)]
         /\ book.arena[s].price \in Price
<1> DEFINE side  == Opposite(mine)
           taken == Takers(stack)
           p     == book.arena[s].price
<1>1. side \in Side
  BY DEF Opposite, Side
<1>2. s \in DOMAIN book.arena /\ Rests(book.arena, taken, s) /\ book.arena[s].side = side
  BY DEF InReach
<1>3. p \in Price
  BY <1>2 DEF Inv, BookSound, BookTypeOK, IsMap, Order
<1> HIDE DEF side
<1>4. s \in RestsAt(book.arena, taken, side, p)
  BY <1>2 DEF RestsAt
<1> HIDE DEF taken, p
<1>5. PICK age : ListAt(book.arena, book.levels, taken, age, side, p)
  BY <1>1, <1>3 DEF Whole, ListsSound, taken
<1>6. p \in DOMAIN book.levels[side]
  BY <1>4, <1>5 DEF ListAt
<1> QED BY <1>3, <1>6 DEF side, p

LEMMA ReachIs ==
  ASSUME Inv, Whole(book, stack), NEW mine \in Side, NEW limit
  PROVE  OrdersWithinLimit(mine, limit) = InReach(book.arena, Takers(stack), mine, limit)
<1>1. ASSUME NEW s \in OrdersWithinLimit(mine, limit)
      PROVE  s \in InReach(book.arena, Takers(stack), mine, limit)
  BY RestingAre DEF OrdersWithinLimit, WithinLimit, Resting, InReach
<1>2. ASSUME NEW s \in InReach(book.arena, Takers(stack), mine, limit)
      PROVE  s \in OrdersWithinLimit(mine, limit)
  <2> DEFINE p == book.arena[s].price
  <2>1. p \in DOMAIN book.levels[Opposite(mine)]
    BY ReachHasLevel
  <2>2. p \in WithinLimit(mine, limit)
    BY <2>1 DEF WithinLimit, InReach
  <2>3. s \in Resting(Opposite(mine), p)
    BY RestingAre DEF Resting, InReach
  <2> HIDE DEF p
  <2> QED BY <2>2, <2>3 DEF OrdersWithinLimit
<1> QED BY <1>1, <1>2

\* What the order in `slot` still wants is there to be had.
Covered(b, slot) ==
  b.arena[slot].remaining <=
    Left(b.arena, InReach(b.arena, {slot}, b.arena[slot].side, b.arena[slot].price))

\* The check before the match lets an order through only if it is covered.
LEMMA LetThrough ==
  ASSUME Inv, Whole(book, stack), Counted(book, Takers(stack)), IsFiniteSet(OrderId),
         StartMatch, Top.order.kind = "Fok"
  PROVE  Top.order.qty <=
           Left(book.arena, InReach(book.arena, {}, Top.order.side, Top.order.price))
<1> DEFINE no  == Top.order
           sum == HoldTogether(book.levels[Opposite(no.side)], WithinLimit(no.side, no.price))
           qty == no.qty
<1>1. /\ In("apply_new") /\ no \in NewOrder
      /\ ~(Least(sum, QtyMod - 1) < qty)
  BY AcceptedType DEF StartMatch, Unfillable, Available, HoldTogether, WithinLimit
<1>2. no.side \in Side /\ qty \in Qty /\ Takers(stack) = {}
  BY <1>1, InCall DEF NewOrder
<1> HIDE DEF no
<1>3. sum = Left(book.arena, OrdersWithinLimit(no.side, no.price)) /\ sum \in Nat
  BY <1>2, WithinHolds
<1>4. OrdersWithinLimit(no.side, no.price) = InReach(book.arena, {}, no.side, no.price)
  BY <1>2, ReachIs
<1> HIDE DEF sum, qty
<1>5. qty <= sum
  BY <1>1, <1>2, <1>3, QtyModAssumption DEF Least, Qty
<1> QED BY <1>3, <1>4, <1>5 DEF qty, no

LEMMA JoinsCovered ==
  ASSUME NEW b, NEW c, NEW slot, NEW order, Joins(b, c, slot, order),
         Sized(b.arena, InReach(b.arena, {}, order.side, order.price)),
         order.remaining <= Left(b.arena, InReach(b.arena, {}, order.side, order.price))
  PROVE  Covered(c, slot)
<1> DEFINE S == InReach(b.arena, {}, order.side, order.price)
<1>1. InReach(c.arena, {slot}, order.side, order.price) = S
  BY DEF Joins, InReach, Rests
<1>2. SameLeft(b.arena, c.arena, S)
  BY DEF Joins, InReach, SameLeft
<1>3. c.arena[slot] = order
  BY DEF Joins
<1> HIDE DEF S
<1>4. IsFiniteSet(S) /\ order.remaining <= Left(b.arena, S)
  BY DEF S, Sized
<1>5. Left(c.arena, S) = Left(b.arena, S)
  BY <1>2, <1>4, LeftAgrees
<1> QED BY <1>1, <1>3, <1>4, <1>5 DEF Covered

\* The maker gives so much, and goes if it has no more.
Gives(b, c, maker, qty) ==
  IF maker \in DOMAIN c.arena
    THEN /\ c.arena[maker].remaining \in Nat
         /\ c.arena[maker].remaining = b.arena[maker].remaining - qty
    ELSE b.arena[maker].remaining = qty

\* A trade takes as much from the orders within reach as it gives to the taker.
Taking(b, c, taker, maker, qty, mine, limit, S, U) ==
  /\ S = InReach(b.arena, {taker}, mine, limit) /\ Sized(b.arena, S) /\ maker \in S
  /\ U = InReach(c.arena, {taker}, mine, limit)
  /\ OthersRest(b, c, {taker}, maker) /\ qty \in Nat /\ Gives(b, c, maker, qty)

LEMMA ReachShrinks ==
  ASSUME NEW b, NEW c, NEW taker, NEW maker, NEW qty, NEW mine, NEW limit, NEW S, NEW U,
         Taking(b, c, taker, maker, qty, mine, limit, S, U)
  PROVE  Left(c.arena, U) = Left(b.arena, S) - qty
<1> DEFINE T == S \ {maker}
<1> USE DEF Taking
<1>1. \A s : s # maker => (s \in U <=> s \in S)
  BY DEF OthersRest, InReach, Rests, SameButSize
<1>2. maker \in U <=> maker \in DOMAIN c.arena
  BY DEF OthersRest, InReach, Rests, SameButSize
<1>3. SameLeft(b.arena, c.arena, T)
  BY DEF OthersRest, InReach, SameLeft
<1>4. LeftApart(b.arena, c.arena, S, maker, T)
  <2>1. Leaving(b.arena, c.arena, S, maker, T)
    BY <1>3 DEF Leaving
  <2> HIDE DEF T
  <2> QED BY Zenon, <2>1, LeftLeaves
<1>5. /\ Left(b.arena, S) = b.arena[maker].remaining + Left(b.arena, T)
      /\ b.arena[maker].remaining \in Nat /\ Left(b.arena, T) \in Nat
      /\ Left(c.arena, T) = Left(b.arena, T) /\ Sized(b.arena, T)
  BY <1>4 DEF LeftApart
<1>6. CASE maker \notin DOMAIN c.arena
  <2>1. U = T
    BY <1>1, <1>2, <1>6
  <2> DEFINE x == Left(b.arena, T)
             y == Left(b.arena, S)
  <2>2. y = qty + x /\ x \in Nat
    BY <1>5, <1>6 DEF Gives
  <2>3. Left(c.arena, U) = x
    BY <1>5, <2>1
  <2> HIDE DEF x, y, T
  <2>4. x = y - qty
    BY <2>2
  <2> QED BY <2>3, <2>4 DEF y
<1>7. CASE maker \in DOMAIN c.arena
  <2>1. U = S
    <3>1. \A s : s \in U <=> s \in S
      BY Zenon, <1>1, <1>2, <1>7
    <3> QED BY Zenon, <3>1
  <2>2. Sized(c.arena, S)
    <3>1. \A s \in T : s \in DOMAIN c.arena /\ c.arena[s].remaining \in Nat
      BY <1>3, <1>5 DEF SameLeft, Sized
    <3>2. \A s \in S : s = maker \/ s \in T
      OBVIOUS
    <3> HIDE DEF T
    <3> QED BY <1>7, <3>1, <3>2 DEF Sized, Gives
  <2> DEFINE a == c.arena
  <2>3. Left(a, S) = a[maker].remaining + Left(a, T)
    <3>1. Sized(a, S)
      BY <2>2
    <3> HIDE DEF a
    <3>2. maker \in S
      OBVIOUS
    <3>3. Left(a, S) = a[maker].remaining + Left(a, S \ {maker})
      BY ONLY <3>1, <3>2, LeftTakes
    <3> QED BY <3>3
  <2> DEFINE x == Left(b.arena, T)
             y == Left(b.arena, S)
             z == Left(c.arena, S)
             m == b.arena[maker].remaining
  <2>4. y = m + x /\ x \in Nat /\ m \in Nat /\ z = (m - qty) + x
    BY <1>5, <1>7, <2>3 DEF Gives
  <2> HIDE DEF x, y, z, m
  <2>5. z = y - qty
    BY <2>4
  <2> QED BY <2>1, <2>5 DEF y, z
<1> QED BY <1>6, <1>7

\* What the taker and the maker have left after a trade.
LEMMA TradeSizes ==
  ASSUME Inv, Whole(book, stack), Matching, NEW price, TradesAt(price),
         NEW maker, maker = MakerAt(price), NEW new, new = Traded(price),
         NEW qty, qty = TradeQty(price)
  PROVE  /\ qty \in Qty /\ Taker.remaining \in Qty /\ book.arena[maker].remaining \in Qty
         /\ new.arena[Top.slot].remaining = Taker.remaining - qty
         /\ new.arena[maker].remaining = book.arena[maker].remaining - qty
         /\ new.arena[Top.slot].remaining \in Qty /\ new.arena[maker].remaining \in Qty
<1>1. RestingMaker(maker, Other, price) /\ Top.slot \in DOMAIN book.arena
  BY MakerRests DEF Matching
<1>2. TradeDone(book.arena, new.arena, Top.slot, maker, qty)
  BY TradedLinks
<1> DEFINE m == book.arena[maker].remaining
           t == Taker.remaining
<1>3. m \in Qty /\ t \in Qty
  BY <1>1 DEF RestingMaker, Inv, BookSound, BookTypeOK, IsMap, Order, Taker
<1>4. qty = Least(t, m)
  BY DEF TradeQty
<1>5. /\ new.arena[Top.slot].remaining = Minus(t, qty)
      /\ new.arena[maker].remaining = Minus(m, qty)
  BY <1>1, <1>2 DEF TradeDone, RestingMaker, Taker
<1> HIDE DEF m, t
<1>6. /\ qty \in Qty /\ Minus(t, qty) = t - qty /\ Minus(m, qty) = m - qty
      /\ t - qty \in Qty /\ m - qty \in Qty
  BY <1>3, <1>4, QtyModAssumption DEF Least, Minus, Qty
<1> QED BY <1>3, <1>5, <1>6 DEF m, t

(***************************************************************************)
(* What a client makes of a sequence of events, one after the other.       *)
(***************************************************************************)

\* The unfolding of the community modules' fold, for what a client learns.
Hears(a, open, events, S, g) ==
  g = [s \in SUBSET S |-> IF s = {} THEN open
                          ELSE Learn(a, g[s \ {Max(s)}], events[Max(s)])]

LEMMA HeardIs ==
  ASSUME NEW a, NEW open, NEW events
  PROVE  Heard(a, open, events)
           = (CHOOSE g : Hears(a, open, events, DOMAIN events, g))[DOMAIN events]
BY DEF Heard, Hears, FoldLeft, MapThenFoldSet

LEMMA GreatestIn ==
  ASSUME NEW s, s \subseteq Nat, IsFiniteSet(s), s # {}
  PROVE  Max(s) \in s /\ \A y \in s : Max(s) >= y
<1> DEFINE P == {t \in SUBSET s : t # {} => \E x \in t : \A y \in t : x >= y}
<1>1. {} \in P
  OBVIOUS
<1>2. ASSUME NEW t \in SUBSET s, t # {}, \A x \in t : t \ {x} \in P
      PROVE  t \in P
  <2>1. PICK x \in t : TRUE
    BY <1>2
  <2>2. CASE t \ {x} = {}
    <3>1. \A y \in t : y = x
      BY <2>2
    <3> QED BY <2>1, <3>1
  <2>3. CASE t \ {x} # {}
    <3>1. PICK z \in t \ {x} : \A y \in t \ {x} : z >= y
      BY <1>2, <2>3
    <3>2. x \in Nat /\ z \in Nat /\ \A y \in t : y \in Nat
      OBVIOUS
    <3>3. CASE z >= x
      <4>1. \A y \in t : z >= y
        BY <3>1, <3>3
      <4> QED BY <4>1
    <3>4. CASE ~(z >= x)
      <4>1. \A y \in t : x >= y
        BY <3>1, <3>2, <3>4
      <4> QED BY <4>1
    <3> QED BY <3>3, <3>4
  <2> QED BY <2>2, <2>3
<1>3. \A t \in SUBSET s : t \in P
  <2> HIDE DEF P
  <2> QED BY <1>1, <1>2, SubsetInduction
<1>4. \E x \in s : \A y \in s : x >= y
  BY <1>3
<1> QED BY <1>4 DEF Max

\* Two such functions agree where the events do.
BothHear(a, open, S, o, A, g, p, B, h) ==
  /\ S \subseteq Nat /\ IsFiniteSet(S) /\ S \subseteq A /\ S \subseteq B /\ SameOn(o, p, S)
  /\ Hears(a, open, o, A, g) /\ Hears(a, open, p, B, h)

LEMMA HearsAgree ==
  ASSUME NEW a, NEW open, NEW S, NEW o, NEW A, NEW g, NEW p, NEW B, NEW h,
         BothHear(a, open, S, o, A, g, p, B, h)
  PROVE  g[S] = h[S]
<1> USE DEF BothHear
<1> DEFINE P == {s \in SUBSET S : g[s] = h[s]}
<1>1. \A s \in SUBSET S :
        /\ g[s] = IF s = {} THEN open ELSE Learn(a, g[s \ {Max(s)}], o[Max(s)])
        /\ h[s] = IF s = {} THEN open ELSE Learn(a, h[s \ {Max(s)}], p[Max(s)])
  BY DEF Hears
<1>2. {} \in P
  BY <1>1
<1>3. ASSUME NEW s \in SUBSET S, s # {}, \A x \in s : s \ {x} \in P
      PROVE  s \in P
  <2>1. Max(s) \in s
    BY <1>3, FS_Subset, GreatestIn
  <2>2. g[s \ {Max(s)}] = h[s \ {Max(s)}] /\ o[Max(s)] = p[Max(s)]
    BY <1>3, <2>1 DEF SameOn
  <2> QED BY <1>1, <1>3, <2>2
<1>4. \A s \in SUBSET S : s \in P
  <2> HIDE DEF P
  <2> QED BY <1>2, <1>3, SubsetInduction
<1> HIDE DEF BothHear
<1> QED BY <1>4

\* Such a function for the sets of up to n places ...
HearsUpto(a, open, events, S, n, g) ==
  g = [s \in {t \in SUBSET S : Cardinality(t) <= n} |->
         IF s = {} THEN open ELSE Learn(a, g[s \ {Max(s)}], events[Max(s)])]

LEMMA HearsUptoExists ==
  ASSUME NEW S, S \subseteq Nat, IsFiniteSet(S), NEW a, NEW open, NEW o
  PROVE  \A n \in Nat : \E g : HearsUpto(a, open, o, S, n, g)
<1> DEFINE T == {n \in Nat : \E g : HearsUpto(a, open, o, S, n, g)}
<1>1. \A s \in SUBSET S : IsFiniteSet(s) /\ Cardinality(s) \in Nat
  BY FS_Subset, FS_CardinalityType
<1>2. 0 \in T
  <2> DEFINE none == {t \in SUBSET S : Cardinality(t) <= 0}
             g    == [s \in none |-> open]
  <2>1. \A s \in none : s = {}
    BY <1>1, FS_EmptySet
  <2>2. g = [s \in none |-> IF s = {} THEN open ELSE Learn(a, g[s \ {Max(s)}], o[Max(s)])]
    BY <2>1
  <2> HIDE DEF g
  <2> QED BY <2>2 DEF HearsUpto
<1>3. ASSUME NEW n \in T
      PROVE  n + 1 \in T
  <2>1. PICK g : HearsUpto(a, open, o, S, n, g)
    OBVIOUS
  <2> DEFINE small == {t \in SUBSET S : Cardinality(t) <= n}
             large == {t \in SUBSET S : Cardinality(t) <= n + 1}
             h     == [s \in large |-> IF s = {} THEN open
                                       ELSE Learn(a, g[s \ {Max(s)}], o[Max(s)])]
  <2>2. \A s \in small : g[s] = IF s = {} THEN open ELSE Learn(a, g[s \ {Max(s)}], o[Max(s)])
    BY <2>1 DEF HearsUpto
  <2>3. \A s \in large : s # {} => s \ {Max(s)} \in small
    <3> SUFFICES ASSUME NEW s \in large, s # {}
                 PROVE  s \ {Max(s)} \in small
      OBVIOUS
    <3>1. Max(s) \in s
      BY <1>1, GreatestIn
    <3> DEFINE t == s \ {Max(s)}
    <3>2. Cardinality(t) = Cardinality(s) - 1
      BY <1>1, <3>1, FS_RemoveElement
    <3>3. Cardinality(s) \in Nat /\ Cardinality(s) <= n + 1 /\ t \in SUBSET S
      BY <1>1
    <3> HIDE DEF t
    <3>4. Cardinality(t) <= n
      BY <3>2, <3>3
    <3> QED BY <3>3, <3>4 DEF t
  <2>4. small \subseteq large
    BY <1>1
  <2>5. \A s \in small : h[s] = g[s]
    BY <2>2, <2>4
  <2>6. h = [s \in large |-> IF s = {} THEN open ELSE Learn(a, h[s \ {Max(s)}], o[Max(s)])]
    BY <2>3, <2>5
  <2>7. HearsUpto(a, open, o, S, n + 1, h)
    <3> HIDE DEF h
    <3> QED BY <2>6 DEF HearsUpto
  <2> QED BY <2>7
<1> HIDE DEF T
<1>4. T \in SUBSET Nat
  BY DEF T
<1>5. \A n \in Nat : n \in T
  BY <1>2, <1>3, <1>4, Induction
<1> QED BY <1>5 DEF T

\* ... and for all of them.
LEMMA HearsExists ==
  ASSUME NEW S, S \subseteq Nat, IsFiniteSet(S), NEW a, NEW open, NEW o
  PROVE  \E g : Hears(a, open, o, S, g)
<1>1. Cardinality(S) \in Nat
  BY FS_CardinalityType
<1>2. PICK g : HearsUpto(a, open, o, S, Cardinality(S), g)
  BY <1>1, HearsUptoExists
<1>3. {t \in SUBSET S : Cardinality(t) <= Cardinality(S)} = SUBSET S
  BY FS_Subset
<1> QED BY <1>2, <1>3 DEF Hears, HearsUpto

LEMMA HeardBy ==
  ASSUME NEW a, NEW open, NEW o, NEW n \in Nat, DOMAIN o = 1 .. n
  PROVE  \E g : Hears(a, open, o, 1 .. n, g) /\ Heard(a, open, o) = g[1 .. n]
<1> DEFINE g == CHOOSE f : Hears(a, open, o, 1 .. n, f)
<1>1. IsFiniteSet(1 .. n) /\ 1 .. n \subseteq Nat
  BY FS_Interval
<1>2. Hears(a, open, o, 1 .. n, g)
  BY <1>1, HearsExists
<1>3. Heard(a, open, o) = g[1 .. n]
  BY HeardIs
<1> HIDE DEF g
<1> QED BY <1>2, <1>3

\* The last event is learnt last.
LEMMA HeardOne ==
  ASSUME NEW a, NEW open, NEW S, NEW o \in Seq(S), NEW e
  PROVE  /\ Heard(a, open, <<>>) = open
         /\ Heard(a, open, Append(o, e)) = Learn(a, Heard(a, open, o), e)
<1> DEFINE n == Len(o)
           p == Append(o, e)
<1>1. n \in Nat /\ DOMAIN o = 1 .. n
  OBVIOUS
<1>2. o \in Seq(S \cup {e}) /\ e \in S \cup {e}
  OBVIOUS
<1>3. /\ DOMAIN p = 1 .. n + 1 /\ p[n + 1] = e
      /\ \A i \in 1 .. n : p[i] = o[i]
  BY <1>2
<1> HIDE DEF n, p
<1>4. PICK g : Hears(a, open, o, 1 .. n, g) /\ Heard(a, open, o) = g[1 .. n]
  BY <1>1, HeardBy
<1>5. PICK h : Hears(a, open, p, 1 .. n + 1, h) /\ Heard(a, open, p) = h[1 .. n + 1]
  BY <1>1, <1>3, HeardBy
<1>6. Max(1 .. n + 1) = n + 1 /\ (1 .. n + 1) \ {n + 1} = 1 .. n
  <2> DEFINE s == 1 .. n + 1
             m == Max(s)
  <2>1. s \subseteq Nat /\ IsFiniteSet(s) /\ n + 1 \in s
    BY <1>1, FS_Interval
  <2>2. m \in s /\ \A y \in s : m >= y
    BY <2>1, GreatestIn
  <2>3. m >= n + 1 /\ m \in 1 .. n + 1
    BY <2>1, <2>2
  <2> HIDE DEF m, s
  <2>4. m = n + 1
    BY <1>1, <2>3
  <2>5. (1 .. n + 1) \ {n + 1} = 1 .. n
    BY <1>1
  <2> QED BY <2>4, <2>5 DEF m, s
<1> DEFINE all  == 1 .. n + 1
           most == 1 .. n
<1>7. h[all] = Learn(a, h[most], e)
  <2>1. all # {} /\ all \in SUBSET all
    <3>1. 1 \in all
      BY <1>1
    <3> HIDE DEF all
    <3> QED BY <3>1
  <2>2. Max(all) = n + 1 /\ all \ {n + 1} = most /\ Hears(a, open, p, all, h)
    BY <1>5, <1>6
  <2> HIDE DEF all, most
  <2>3. h[all] = Learn(a, h[all \ {Max(all)}], p[Max(all)])
    BY <2>1, <2>2 DEF Hears
  <2> QED BY <1>3, <2>2, <2>3
<1>8. h[most] = g[most]
  <2>1. most \subseteq Nat /\ IsFiniteSet(most) /\ most \subseteq most /\ most \subseteq all
    BY <1>1, FS_Interval
  <2>2. SameOn(p, o, most)
    BY <1>3 DEF SameOn
  <2>3. Hears(a, open, p, all, h) /\ Hears(a, open, o, most, g)
    BY <1>4, <1>5
  <2> HIDE DEF all, most
  <2>4. BothHear(a, open, most, p, all, h, o, most, g)
    <3>1. most \subseteq Nat
      BY <2>1
    <3>2. IsFiniteSet(most)
      BY <2>1
    <3>3. most \subseteq most /\ most \subseteq all
      BY <2>1
    <3>4. SameOn(p, o, most)
      BY <2>2
    <3>5. Hears(a, open, p, all, h)
      BY <2>3
    <3>6. Hears(a, open, o, most, g)
      BY <2>3
    <3> QED BY <3>1, <3>2, <3>3, <3>4, <3>5, <3>6 DEF BothHear
  <2>5. \A y : BothHear(a, open, most, p, all, h, o, most, y) => h[most] = y[most]
    BY HearsAgree
  <2> QED BY Zenon, <2>4, <2>5
<1>9. Heard(a, open, <<>>) = open
  <2>1. DOMAIN <<>> = 1 .. 0
    OBVIOUS
  <2>2. PICK f : Hears(a, open, <<>>, 1 .. 0, f) /\ Heard(a, open, <<>>) = f[1 .. 0]
    BY <2>1, HeardBy
  <2>3. 1 .. 0 = {}
    OBVIOUS
  <2> QED BY <2>2, <2>3 DEF Hears
<1> QED BY <1>4, <1>5, <1>7, <1>8, <1>9 DEF p

(***************************************************************************)
(* The events a step adds.                                                 *)
(***************************************************************************)

\* What is told in a sequence of events: the trades of the taker `id`.
TakenBy(id, o) == {e \in ToSet(o) : e.event = "Trade" /\ e.taker = id}

LEMMA ToldMore ==
  ASSUME Recorded, NEW T, NEW e \in Seq(T), Emit(e)
  PROVE  ToSet(out') = ToSet(out) \cup ToSet(e)
<1>1. PICK S : out \in Seq(S)
  BY DEF Recorded
<1> DEFINE n == Len(out)
           m == Len(e)
           U == S \cup T
<1>2. out \in Seq(U) /\ e \in Seq(U) /\ out' = out \o e
  BY <1>1 DEF Emit
<1> HIDE DEF U
<1>3. /\ n \in Nat /\ m \in Nat
      /\ DOMAIN out = 1 .. n /\ DOMAIN e = 1 .. m /\ DOMAIN out' = 1 .. n + m
  BY <1>2
<1>4. \A i \in 1 .. n + m : out'[i] = IF i <= n THEN out[i] ELSE e[i - n]
  BY <1>2
<1> HIDE DEF n, m
<1>5. ASSUME NEW i \in 1 .. n + m
      PROVE  out'[i] \in ToSet(out) \cup ToSet(e)
  <2>1. CASE i <= n
    <3>1. i \in 1 .. n /\ out'[i] = out[i]
      BY <1>3, <1>4, <2>1
    <3> QED BY <1>3, <3>1 DEF ToSet
  <2>2. CASE ~(i <= n)
    <3>1. i - n \in 1 .. m /\ out'[i] = e[i - n]
      BY <1>3, <1>4, <2>2
    <3> QED BY <1>3, <3>1 DEF ToSet
  <2> QED BY <2>1, <2>2
<1>6. ASSUME NEW i \in 1 .. n
      PROVE  out[i] \in ToSet(out')
  <2>1. i \in 1 .. n + m /\ i <= n
    BY <1>3
  <2>2. out'[i] = out[i]
    BY <1>4, <2>1
  <2> QED BY <1>3, <2>1, <2>2 DEF ToSet
<1>7. ASSUME NEW i \in 1 .. m
      PROVE  e[i] \in ToSet(out')
  <2>1. n + i \in 1 .. n + m /\ ~(n + i <= n) /\ (n + i) - n = i
    BY <1>3
  <2>2. out'[n + i] = e[i]
    BY <1>4, <2>1
  <2> QED BY <1>3, <2>1, <2>2 DEF ToSet
<1>8. \A x \in ToSet(out') : x \in ToSet(out) \cup ToSet(e)
  BY <1>3, <1>5 DEF ToSet
<1>9. \A x \in ToSet(out) \cup ToSet(e) : x \in ToSet(out')
  BY <1>3, <1>6, <1>7 DEF ToSet
<1> QED BY Zenon, <1>8, <1>9

LEMMA ToldOne ==
  ASSUME Recorded, NEW x, Emit(<<x>>)
  PROVE  ToSet(out') = ToSet(out) \cup {x}
<1>1. <<x>> \in Seq({x}) /\ DOMAIN <<x>> = {1} /\ <<x>>[1] = x
  OBVIOUS
<1>2. ToSet(<<x>>) = {x}
  BY <1>1 DEF ToSet
<1> QED BY <1>1, <1>2, ToldMore

LEMMA ToldTwo ==
  ASSUME Recorded, NEW x, NEW y, Emit(<<x, y>>)
  PROVE  ToSet(out') = ToSet(out) \cup {x, y}
<1>1. /\ <<x, y>> \in Seq({x, y}) /\ DOMAIN <<x, y>> = {1, 2}
      /\ <<x, y>>[1] = x /\ <<x, y>>[2] = y
  OBVIOUS
<1>2. ToSet(<<x, y>>) = {x, y}
  BY <1>1 DEF ToSet
<1> QED BY <1>1, <1>2, ToldMore

PartlyFilled == PartiallyFilled(Taker.id, Top.filled, Taker.remaining)

\* What is left of a taker is told of in one or two events.
LEMMA PartialFillIs ==
  /\ PartialFill = <<>> \/ PartialFill = <<PartlyFilled>>
  /\ \A x : PartialFill \o <<x>> = <<x>> \/ PartialFill \o <<x>> = <<PartlyFilled, x>>
<1>1. ASSUME NEW x, NEW y
      PROVE  <<x>> \o <<y>> = <<x, y>> /\ <<>> \o <<y>> = <<y>>
  <2>1. <<x>> \in Seq({x, y}) /\ <<y>> \in Seq({x, y}) /\ <<>> \in Seq({x, y})
    OBVIOUS
  <2>2. \A s \in Seq({x, y}) : <<>> \o s = s
    OBVIOUS
  <2> DEFINE s == <<x>> \o <<y>>
             u == <<x, y>>
  <2>3. /\ s \in Seq({x, y}) /\ Len(s) = 2 /\ s[1] = x /\ s[2] = y
        /\ u \in Seq({x, y}) /\ Len(u) = 2 /\ u[1] = x /\ u[2] = y
    BY <2>1
  <2> HIDE DEF s, u
  <2>4. \A i \in 1 .. Len(s) : s[i] = u[i]
    BY <2>3
  <2>5. s = u
    BY <2>3, <2>4, SeqEqual
  <2> QED BY <2>1, <2>2, <2>5 DEF s, u
<1>2. PartialFill = <<>> \/ PartialFill = <<PartlyFilled>>
  BY Zenon DEF PartialFill, PartlyFilled
<1> QED BY <1>1, <1>2

\* Only a step of the match adds a trade.
LEMMA NoTradeTold ==
  ASSUME Recorded,
         RejectNew \/ HoldStop \/ KillFok \/ StartMatch \/ FinishFilled \/ Rest \/ CancelRest
           \/ VisitStop \/ EndStops
  PROVE  /\ ToSet(out) \subseteq ToSet(out')
         /\ \A id : TakenBy(id, out') = TakenBy(id, out)
<1>1. ASSUME NEW x, NEW y, x.event # "Trade", y.event # "Trade",
             \/ ToSet(out') = ToSet(out)
             \/ ToSet(out') = ToSet(out) \cup {x}
             \/ ToSet(out') = ToSet(out) \cup {x, y}
      PROVE  /\ ToSet(out) \subseteq ToSet(out')
             /\ \A id : TakenBy(id, out') = TakenBy(id, out)
  BY <1>1 DEF TakenBy
<1>2. ASSUME NEW x, x.event # "Trade", Emit(<<x>>)
      PROVE  /\ ToSet(out) \subseteq ToSet(out')
             /\ \A id : TakenBy(id, out') = TakenBy(id, out)
  BY <1>1, <1>2, ToldOne
<1>3. ASSUME NEW x, NEW y, x.event # "Trade", y.event # "Trade", Emit(<<x, y>>)
      PROVE  /\ ToSet(out) \subseteq ToSet(out')
             /\ \A id : TakenBy(id, out') = TakenBy(id, out)
  BY <1>1, <1>3, ToldTwo
<1>4. ASSUME out' = out \/ Emit(<<>>)
      PROVE  /\ ToSet(out) \subseteq ToSet(out')
             /\ \A id : TakenBy(id, out') = TakenBy(id, out)
  <2>1. out' = out
    BY <1>4 DEF Emit, Recorded
  <2> QED BY <2>1
<1>5. /\ \A id : Accepted(id).event # "Trade" /\ Filled(id).event # "Trade"
                 /\ Cancelled(id).event # "Trade"
      /\ \A id, r : Rejected(id, r).event # "Trade"
      /\ PartlyFilled.event # "Trade"
  BY DEF Accepted, Filled, Cancelled, Rejected, PartlyFilled, PartiallyFilled
<1>6. CASE RejectNew \/ HoldStop \/ StartMatch \/ FinishFilled
  <2>1. \/ \E id, r : Emit(<<Rejected(id, r)>>)
        \/ \E id : Emit(<<Accepted(id)>>) \/ Emit(<<Filled(id)>>)
    BY Zenon, <1>6 DEF RejectNew, HoldStop, StartMatch, FinishFilled
  <2>2. PICK x : x.event # "Trade" /\ Emit(<<x>>)
    BY Zenon, <1>5, <2>1
  <2> QED BY Zenon, <1>2, <2>2
<1>7. CASE KillFok
  <2>1. PICK x, y : x.event # "Trade" /\ y.event # "Trade" /\ Emit(<<x, y>>)
    BY Zenon, <1>5, <1>7 DEF KillFok
  <2> QED BY Zenon, <1>3, <2>1
<1>8. CASE Rest
  <2>1. Emit(<<>>) \/ Emit(<<PartlyFilled>>)
    BY Zenon, <1>8, PartialFillIs DEF Rest
  <2> QED BY Zenon, <1>2, <1>4, <1>5, <2>1
<1>9. CASE CancelRest
  <2>1. \/ Emit(<<Cancelled(Taker.id)>>)
        \/ Emit(<<PartlyFilled, Cancelled(Taker.id)>>)
    BY Zenon, <1>9, PartialFillIs DEF CancelRest
  <2> QED BY Zenon, <1>2, <1>3, <1>5, <2>1
<1>10. CASE VisitStop \/ EndStops
  BY Zenon, <1>4, <1>10 DEF VisitStop, SkipStop, FireStop, EndStops
<1> QED BY <1>6, <1>7, <1>8, <1>9, <1>10

LEMMA TradeTold ==
  ASSUME Recorded, NEW price, FillMaker(price) \/ CutMaker(price)
  PROVE  /\ ToSet(out) \subseteq ToSet(out')
         /\ \A id : \A e \in TakenBy(id, out') :
              e \in TakenBy(id, out) \/ (id = Taker.id /\ e.price = price)
<1>1. \E y : y.event # "Trade" /\ Emit(<<TradeEvent(price), y>>)
  BY DEF FillMaker, CutMaker, Filled, PartiallyFilled
<1>2. PICK y : y.event # "Trade" /\ Emit(<<TradeEvent(price), y>>)
  BY <1>1
<1> DEFINE x == TradeEvent(price)
<1>3. x.taker = Taker.id /\ x.price = price
  BY DEF TradeEvent, Trade
<1> HIDE DEF x
<1>4. ToSet(out') = ToSet(out) \cup {x, y}
  BY <1>2, ToldTwo DEF x
<1> QED BY <1>2, <1>3, <1>4 DEF TakenBy

(***************************************************************************)
(* What a step makes of the id index.                                      *)
(***************************************************************************)

LEMMA DropAbsent ==
  ASSUME NEW D, NEW R, NEW map, IsMap(map, D, R), NEW k, k \notin DOMAIN map
  PROVE  Drop(map, k) = map
<1>1. DOMAIN map \ {k} = DOMAIN map
  OBVIOUS
<1> QED BY <1>1 DEF IsMap, Drop

\* A match that ends with the taker gone leaves the index alone.
LEMMA TakerGoneIds ==
  ASSUME Inv, FinishFilled \/ CancelRest
  PROVE  book'.ids = book.ids
<1>1. Matching
  BY DEF FinishFilled, CancelRest
<1> DEFINE id  == Taker.id
           put == ArenaRemove(book, Top.slot)
<1>2. /\ Top.slot \in Slot /\ id \in OrderId /\ id \notin DOMAIN book.ids
      /\ BookTypeOK(book) /\ IsMap(book.ids, OrderId, Location)
  BY <1>1, InvType, TakerType DEF Inv, TakerApart, BookSound, BookTypeOK, Order
<1>3. BookTypeOK(put) /\ put.ids = book.ids
  BY <1>2, ArenaRemoveType
<1>4. book' = put \/ book' = IndexRemove(put, id)
  BY DEF FinishFilled, CancelRest
<1> HIDE DEF put, id
<1>5. IndexRemove(put, id).ids = Drop(book.ids, id)
  BY <1>2, <1>3, IndexType
<1> QED BY <1>2, <1>3, <1>4, <1>5, DropAbsent

\* A stop is indexed where it is held.
LEMMA HoldStopIds ==
  ASSUME Inv, HoldStop
  PROVE  book'.ids = Put(book.ids, Top.order.id,
                         [slot |-> VacantSlot(book), side |-> Top.order.side,
                          price |-> Top.order.stop_price])
<1> DEFINE no    == Top.order
           slot  == VacantSlot(book)
           loc   == [slot |-> slot, side |-> no.side, price |-> no.stop_price]
           put   == ArenaInsert(book, OrderOf(no))
           known == IndexInsert(put, no.id, loc)
           held  == HoldStopAt(known, no.side, no.stop_price, slot)
<1>1. In("apply_new") /\ Refusal(no) = None /\ book' = held
  BY DEF HoldStop
<1>2. no \in NewOrder /\ OrderOf(no) \in Order
  BY <1>1, AcceptedType
<1>3. BookSound(put) /\ put.ids = book.ids /\ slot \in Slot
  BY <1>2, InsertAll DEF Inv
<1>4. no.id \in OrderId /\ no.side \in Side /\ no.stop_price \in Price /\ loc \in Location
  BY <1>2, <1>3 DEF NewOrder, Location
<1> HIDE DEF put, slot, no, loc
<1>5. BookTypeOK(known) /\ known.ids = Put(book.ids, no.id, loc)
  BY <1>3, <1>4, IndexType DEF BookSound
<1> HIDE DEF known
<1>6. held.ids = known.ids
  BY <1>3, <1>4, <1>5, HoldStopType
<1> QED BY <1>1, <1>5, <1>6 DEF loc, no, slot

LEMMA RestIds ==
  ASSUME Inv, Rest
  PROVE  /\ book'.ids = Put(book.ids, Taker.id,
                            [slot |-> Top.slot, side |-> Taker.side, price |-> Taker.price])
         /\ DOMAIN book'.arena = DOMAIN book.arena
<1> DEFINE slot  == Top.slot
           loc   == [slot |-> slot, side |-> Taker.side, price |-> Taker.price]
           known == IndexInsert(book, Taker.id, loc)
<1>1. Matching /\ book' = InsertResting(known, slot)
  BY DEF Rest
<1>2. /\ slot \in DOMAIN book.arena /\ slot \in Slot /\ Taker = book.arena[slot]
      /\ Taker \in Order
  BY <1>1, InvType, TakerType DEF Matching, Taker
<1>3. Taker.id \in OrderId /\ loc \in Location /\ loc.slot = slot
  BY <1>2 DEF Order, Location
<1>4. book.arena[slot].id = Taker.id
  BY <1>2
<1>5. BookTypeOK(book) /\ NonEmptyLevels(book.levels) /\ SlotsSound(book)
  BY DEF Inv, BookSound
<1> HIDE DEF loc, slot
<1>6. /\ BookTypeOK(known) /\ SlotsSound(known) /\ known.levels = book.levels
      /\ known.arena = book.arena /\ known.ids = Put(book.ids, Taker.id, loc)
  BY <1>2, <1>3, <1>4, <1>5, IndexType, IndexInsertSound
<1> HIDE DEF known
<1>7. BookSound(known) /\ slot \in DOMAIN known.arena
  BY <1>2, <1>5, <1>6 DEF BookSound
<1>8. SameSlots(known, book')
  BY <1>1, <1>7, InsertRestingKeeps
<1> QED BY <1>6, <1>8 DEF SameSlots, loc, slot

\* A maker that is used up leaves the index, one that is cut stays.
LEMMA TradeIds ==
  ASSUME Inv, Matching, NEW price
  PROVE  /\ FillMaker(price) => book'.ids = Drop(book.ids, book.arena[MakerAt(price)].id)
         /\ CutMaker(price) => book'.ids = book.ids
<1> DEFINE new   == Traded(price)
           maker == MakerAt(price)
           id    == book.arena[maker].id
           gone  == ArenaRemove(IndexRemove(new, id), maker)
           side  == Other
<1> SUFFICES ASSUME FillMaker(price) \/ CutMaker(price)
             PROVE  /\ FillMaker(price) => book'.ids = Drop(book.ids, id)
                    /\ CutMaker(price) => book'.ids = book.ids
  OBVIOUS
<1>1. /\ TradesAt(price)
      /\ FillMaker(price) => book' = RemoveEmpty(gone, side, price)
      /\ CutMaker(price) => book' = ReinsertAtHead(new, maker, side, price)
  BY DEF FillMaker, CutMaker
<1>2. BookTypeOK(new) /\ SlotsSound(new) /\ NonEmptyBut(new.levels, side, price)
  BY <1>1, MiddleOfTrade
<1>3. /\ new.ids = book.ids /\ DOMAIN new.arena = DOMAIN book.arena
      /\ \A s \in DOMAIN book.arena : new.arena[s].id = book.arena[s].id
      /\ maker \in DOMAIN book.arena /\ price \in Price
  BY <1>1, InvType, TradedType
<1>4. side \in Side
  BY InvType, TakerType
<1> HIDE DEF new, maker, side
<1>5. /\ BookTypeOK(gone) /\ SlotsSound(gone) /\ gone.levels = new.levels
      /\ gone.ids = Drop(new.ids, id)
  BY <1>2, <1>3, ForgetSound
<1> HIDE DEF gone, id
<1>6. CASE FillMaker(price)
  <2>1. book'.ids = gone.ids
    BY <1>1, <1>2, <1>4, <1>5, <1>6, RemoveEmptyKeeps
  <2>2. CASE CutMaker(price)
    <3>1. FALSE
      BY <1>6, <2>2 DEF FillMaker, CutMaker
    <3> QED BY <3>1
  <2> QED BY <1>3, <1>5, <2>1, <2>2
<1>7. CASE CutMaker(price) /\ ~FillMaker(price)
  <2>1. SameSlots(new, book')
    BY <1>1, <1>2, <1>3, <1>4, <1>7, ReinsertKeeps
  <2> QED BY <1>3, <1>7, <2>1 DEF SameSlots
<1> QED BY <1>6, <1>7

(***************************************************************************)
(* A fill-or-kill order, from its arrival to the end of its command.       *)
(***************************************************************************)

\* Neither held nor resting, neither asked for nor being matched.
Gone(id) ==
  /\ id \notin DOMAIN book.ids
  /\ In("apply_new") => Top.order.id # id
  /\ Matching => Taker.id # id

LEMMA FiredIndexed ==
  ASSUME Inv, Whole(book, stack), Triggering, NEW p, FireStop(p)
  PROVE  book.arena[Head(Top.todo[p])].id \in DOMAIN book.ids
<1>1. Head(Top.todo[p]) \in DOMAIN book.arena
  BY DEF FireStop
<1>2. OrdersSound(book, {})
  BY InTrigger DEF Whole
<1> QED BY <1>1, <1>2 DEF OrdersSound

\* In a trade only the maker's size changes, and the taker's; the maker may go.
LEMMA TradeRests ==
  ASSUME Inv, Whole(book, stack), Matching, NEW price, FillMaker(price) \/ CutMaker(price)
  PROVE  OthersRest(book, book', {Top.slot}, MakerAt(price))
<1> DEFINE new   == Traded(price)
           maker == MakerAt(price)
<1>1. TradesAt(price)
  BY DEF FillMaker, CutMaker
<1>2. CASE FillMaker(price)
  <2>1. book'.arena = Drop(new.arena, maker)
    BY <1>2, FillMakerTotal
  <2> HIDE DEF new, maker
  <2>2. /\ DOMAIN book'.arena \subseteq DOMAIN new.arena
        /\ \A s \in DOMAIN book'.arena : SameTerms(new.arena[s], book'.arena[s])
        /\ \A s \in DOMAIN new.arena : s # maker => s \in DOMAIN book'.arena
    BY <2>1 DEF Drop, SameTerms
  <2> QED BY <1>1, <2>2, TradeOthersRest DEF new, maker
<1>3. CASE CutMaker(price)
  <2>1. /\ DOMAIN book'.arena = DOMAIN new.arena
        /\ \A s \in DOMAIN new.arena : SameTerms(new.arena[s], book'.arena[s])
    BY <1>3, CutMakerTotal
  <2> QED BY <1>1, <2>1, TradeOthersRest
<1> QED BY <1>2, <1>3

LEMMA GoneThen ==
  ASSUME ThenTriggers, NEW id, id \notin DOMAIN book'.ids
  PROVE  Gone(id)'
BY DEF ThenTriggers, Gone, In, Matching, Top

LEMMA GoneStays ==
  ASSUME Inv, Whole(book, stack), NEW id, Gone(id), Apply
  PROVE  Gone(id)'
<1> USE DEF Gone
<1>1. CASE RejectNew \/ KillFok \/ EndStops
  <2>1. ThenTriggers
    BY <1>1, CallAfter
  <2>2. book'.ids = book.ids
    BY <1>1 DEF RejectNew, KillFok, EndStops, Inv, BookSound, BookTypeOK, IsBook
  <2> QED BY <2>1, <2>2, GoneThen
<1>2. CASE FinishFilled \/ CancelRest
  BY <1>2, CallAfter, TakerGoneIds, GoneThen
<1>3. CASE HoldStop
  <2>1. In("apply_new")
    BY <1>3 DEF HoldStop
  <2>2. DOMAIN book'.ids = DOMAIN book.ids \cup {Top.order.id}
    BY <1>3, HoldStopIds DEF Put
  <2> QED BY <1>3, <2>1, <2>2, CallAfter, GoneThen
<1>4. CASE Rest
  <2>1. Matching
    BY <1>4 DEF Rest
  <2>2. DOMAIN book'.ids = DOMAIN book.ids \cup {Taker.id}
    BY <1>4, RestIds DEF Put
  <2> QED BY <1>4, <2>1, <2>2, CallAfter, GoneThen
<1>5. CASE StartMatch
  <2> DEFINE slot == VacantSlot(book)
  <2>1. In("apply_new") /\ Refusal(Top.order) = None /\ book' = ArenaInsert(book, OrderOf(Top.order))
    BY <1>5 DEF StartMatch
  <2>2. OrderOf(Top.order) \in Order
    BY <2>1, AcceptedType
  <2>3. book'.ids = book.ids /\ book'.arena[slot] = OrderOf(Top.order)
    BY <2>1, <2>2, InsertAll DEF Inv
  <2>4. stack'[Len(stack')] = MatchOrder(slot, 0)
    BY <1>5, CallAfter
  <2> HIDE DEF slot
  <2>5. Top'.call = "match_order" /\ Taker'.id = Top.order.id
    BY <2>3, <2>4 DEF Top, Taker, MatchOrder, OrderOf
  <2> QED BY <2>1, <2>3, <2>5 DEF In
<1>6. CASE MatchStep
  <2>1. PICK price : Matching /\ (FillMaker(price) \/ CutMaker(price))
    BY <1>6 DEF MatchStep
  <2>2. DOMAIN book'.ids \subseteq DOMAIN book.ids
    BY <2>1, TradeIds DEF Drop
  <2>3. TradesAt(price) /\ CountFill(price)
    BY <2>1 DEF FillMaker, CutMaker
  <2>4. Top'.call = "match_order" /\ Top'.slot = Top.slot
    BY <2>1, <2>3, CallAfterTrade DEF Top
  <2>5. \A s \in DOMAIN book'.arena : s \in DOMAIN book.arena /\ book'.arena[s].id = book.arena[s].id
    BY <2>1, TradeRests DEF OthersRest, SameButSize
  <2> QED BY <2>1, <2>2, <2>4, <2>5 DEF In, Matching, Taker
<1>7. CASE VisitStop
  <2>1. PICK p \in DOMAIN Top.todo : Triggering /\ (SkipStop(p) \/ FireStop(p))
    BY <1>7 DEF VisitStop
  <2>2. CASE SkipStop(p)
    <3>1. book' = book /\ Top'.call = "trigger_stops"
      BY <2>1, <2>2, CallAfterVisit DEF SkipStop, Top
    <3> QED BY <3>1 DEF In, Matching
  <2>3. CASE FireStop(p)
    <3> DEFINE stop == book.arena[Head(Top.todo[p])]
    <3>1. book'.ids = Drop(book.ids, stop.id)
      BY <2>1, <2>3, FireStopStays
    <3>2. stop.id \in DOMAIN book.ids
      BY <2>1, <2>3, FiredIndexed
    <3>3. Top'.call = "apply_new" /\ Top'.order.id = stop.id
      BY <2>1, <2>3, CallAfterVisit DEF Top
    <3> HIDE DEF stop
    <3> QED BY <3>1, <3>2, <3>3 DEF In, Matching, Drop
  <2> QED BY <2>1, <2>2, <2>3
<1> QED BY <1>1, <1>2, <1>3, <1>4, <1>5, <1>6, <1>7 DEF Apply

\* Its trades so far are within its limit.
TakesWithin(no, o) == \A e \in TakenBy(no.id, o) : Within(no.side, no.price, e.price)

FokWaits(no) == In("apply_new") /\ Len(stack) = 1 /\ Top.order = no /\ out = <<>>

\* While it trades, the orders within its limit suffice for what it still wants.
FokTrades(no) ==
  /\ Matching
  /\ Taker.id = no.id /\ Taker.kind = "Fok" /\ Taker.side = no.side /\ Taker.price = no.price
  /\ Covered(book, Top.slot)
  /\ TakesWithin(no, out)

\* Stops may still fire after it, but no order of its id is there to trade.
FokOver(no) ==
  /\ stack # <<>> => Gone(no.id)
  /\ TakenBy(no.id, out) # {} => Filled(no.id) \in ToSet(out)
  /\ TakesWithin(no, out)

LEMMA NothingTaken ==
  ASSUME NEW id
  PROVE  TakenBy(id, <<>>) = {}
<1>1. DOMAIN <<>> = {}
  OBVIOUS
<1> QED BY <1>1 DEF TakenBy, ToSet

LEMMA FokStarts ==
  ASSUME Inv, Whole(book, stack), Counted(book, Takers(stack)), IsFiniteSet(OrderId), Recorded,
         NEW no, no.kind = "Fok", FokWaits(no), Apply
  PROVE  FokTrades(no)' \/ FokOver(no)'
<1>1. In("apply_new") /\ Len(stack) = 1 /\ Top.order = no /\ out = <<>> /\ stack # <<>>
  BY DEF FokWaits, In
<1>2. RejectNew \/ KillFok \/ StartMatch
  BY <1>1 DEF Apply, HoldStop, IsStop, MatchStep, FinishFilled, Rest, CancelRest, VisitStop,
              EndStops, Matching, Triggering, In
<1>3. TakenBy(no.id, out') = {}
  BY <1>1, <1>2, NoTradeTold, NothingTaken
<1>4. CASE RejectNew \/ KillFok
  <2>1. Return
    BY <1>4 DEF RejectNew, KillFok
  <2>2. stack' = <<>>
    BY <1>1, <2>1, ReturnOfFirst
  <2> QED BY <1>3, <2>2 DEF FokOver, TakesWithin
<1>5. CASE StartMatch
  <2> DEFINE slot  == VacantSlot(book)
             order == OrderOf(no)
             reach == InReach(book.arena, {}, no.side, no.price)
  <2>1. Joins(book, book', slot, order)
    BY <1>1, <1>5, StartMatchJoins
  <2>2. stack' # <<>> /\ stack'[Len(stack')] = MatchOrder(slot, 0)
    BY <1>5, CallAfter
  <2>3. /\ order.id = no.id /\ order.kind = no.kind /\ order.side = no.side
        /\ order.price = no.price /\ order.remaining = no.qty
    BY DEF OrderOf
  <2>4. no.qty <= Left(book.arena, reach)
    BY <1>1, <1>5, LetThrough
  <2>5. Sized(book.arena, reach)
    <3>1. Takers(stack) = {}
      BY <1>1, InCall
    <3> QED BY <3>1, ReachSized DEF Inv, BookSound, Whole
  <2> HIDE DEF slot, order
  <2>6. Covered(book', slot)
    BY <2>1, <2>3, <2>4, <2>5, JoinsCovered
  <2>7. Top'.call = "match_order" /\ Top'.slot = slot
    BY <2>2 DEF Top, MatchOrder
  <2>8. Matching' /\ Taker' = order
    BY <2>1, <2>2, <2>7 DEF Matching, In, Taker, Joins
  <2> QED BY <1>3, <2>3, <2>6, <2>7, <2>8 DEF FokTrades, TakesWithin
<1> QED BY <1>2, <1>4, <1>5

\* As long as it wants more, the best level of the other side is within its limit.
LEMMA BestIsWithin ==
  ASSUME Inv, Whole(book, stack), IsFiniteSet(OrderId), Matching, Taker.remaining # 0,
         Covered(book, Top.slot)
  PROVE  \E s \in InReach(book.arena, {Top.slot}, Taker.side, Taker.price) :
           book.arena[s].price \in DOMAIN book.levels[Other] /\ book.arena[s].price \in Price
<1> DEFINE reach == InReach(book.arena, {Top.slot}, Taker.side, Taker.price)
<1>1. Takers(stack) = {Top.slot}
  BY InCall DEF Matching
<1>2. Taker \in Order /\ Taker.side \in Side
  BY InvType, TakerType
<1>3. Taker.remaining <= Left(book.arena, reach)
  BY DEF Covered, Taker
<1>4. reach # {}
  <2> SUFFICES ASSUME reach = {}
               PROVE  FALSE
    OBVIOUS
  <2>1. Taker.remaining <= 0
    BY <1>3, LeftOfNone
  <2>2. Taker.remaining \in Nat
    BY <1>2 DEF Order, Qty
  <2> QED BY <2>1, <2>2
<1>5. PICK s : s \in reach
  BY <1>4
<1>6. /\ book.arena[s].price \in DOMAIN book.levels[Opposite(Taker.side)]
      /\ book.arena[s].price \in Price
  BY <1>1, <1>2, <1>5, ReachHasLevel
<1> QED BY <1>5, <1>6 DEF Other

LEMMA TradesWithin ==
  ASSUME Inv, Whole(book, stack), IsFiniteSet(OrderId), Matching, Covered(book, Top.slot),
         NEW price, TradesAt(price)
  PROVE  Within(Taker.side, Taker.price, price)
<1>1. Taker.remaining # 0 /\ IsFirst(Other, book.levels[Other], price)
  BY DEF TradesAt
<1>2. PICK s \in InReach(book.arena, {Top.slot}, Taker.side, Taker.price) :
        book.arena[s].price \in DOMAIN book.levels[Other] /\ book.arena[s].price \in Price
  BY <1>1, BestIsWithin
<1> DEFINE p == book.arena[s].price
           q == Taker.price
<1>3. Within(Taker.side, q, p) /\ ~Ahead(Other, p, price) /\ p \in Int
  BY <1>1, <1>2 DEF InReach, IsFirst, Price
<1>4. Taker.side \in Side /\ q \in Int /\ price \in Int
  BY InvType, TakerType, TradedType DEF Order, Price
<1> HIDE DEF p, q
<1>5. CASE Taker.side = "Buy"
  <2>1. Other = "Sell"
    BY <1>5 DEF Other, Opposite
  <2>2. p <= q /\ ~(p < price)
    BY <1>3, <1>5, <2>1 DEF Within, Ahead
  <2>3. price <= q
    BY <1>3, <1>4, <2>2
  <2> QED BY <1>5, <2>3 DEF Within, q
<1>6. CASE Taker.side = "Sell"
  <2>1. Other = "Buy"
    BY <1>6 DEF Other, Opposite
  <2>2. p >= q /\ ~(p > price)
    BY <1>3, <1>6, <2>1 DEF Within, Ahead
  <2>3. price >= q
    BY <1>3, <1>4, <2>2
  <2> QED BY <1>6, <2>3 DEF Within, q
<1> QED BY <1>4, <1>5, <1>6 DEF Side

\* What is left of the two orders after a trade, in the book.
SizesAfter(maker, qty) ==
  /\ Top.slot \in DOMAIN book'.arena
  /\ book'.arena[Top.slot].remaining = Taker.remaining - qty
  /\ Gives(book, book', maker, qty)

LEMMA TradeLeaves ==
  ASSUME Inv, Whole(book, stack), Matching, NEW price, FillMaker(price) \/ CutMaker(price),
         NEW maker, maker = MakerAt(price), NEW qty, qty = TradeQty(price)
  PROVE  SizesAfter(maker, qty) /\ qty \in Nat /\ Taker.remaining \in Nat
<1> DEFINE new  == Traded(price)
           slot == Top.slot
<1>1. TradesAt(price)
  BY DEF FillMaker, CutMaker
<1>2. RestingMaker(maker, Other, price) /\ slot \in DOMAIN book.arena
  BY <1>1, MakerRests DEF Matching
<1>3. /\ qty \in Nat /\ Taker.remaining \in Nat /\ book.arena[maker].remaining \in Nat
      /\ new.arena[slot].remaining = Taker.remaining - qty
      /\ new.arena[maker].remaining = book.arena[maker].remaining - qty
      /\ new.arena[maker].remaining \in Nat
  BY <1>1, TradeSizes DEF Qty
<1>4. DOMAIN new.arena = DOMAIN book.arena
  BY <1>1, InvType, TradedType
<1>5. maker # slot /\ maker \in DOMAIN book.arena
  BY <1>2 DEF RestingMaker
<1>6. CASE FillMaker(price)
  <2>1. new.arena[maker].remaining = 0
    BY <1>6 DEF FillMaker
  <2>2. book'.arena = Drop(new.arena, maker)
    BY <1>6, FillMakerTotal
  <2> HIDE DEF new, slot
  <2>3. /\ maker \notin DOMAIN book'.arena /\ slot \in DOMAIN book'.arena
        /\ book'.arena[slot] = new.arena[slot]
    BY <1>2, <1>4, <1>5, <2>2 DEF Drop
  <2>4. book.arena[maker].remaining = qty
    <3> DEFINE m == book.arena[maker].remaining
    <3>1. m - qty = 0 /\ m \in Nat /\ qty \in Nat
      BY <1>3, <2>1
    <3> HIDE DEF m
    <3>2. m = qty
      BY <3>1
    <3> QED BY <3>2 DEF m
  <2> QED BY <1>3, <2>3, <2>4 DEF SizesAfter, Gives, slot
<1>7. CASE CutMaker(price)
  <2>1. /\ DOMAIN book'.arena = DOMAIN new.arena
        /\ \A s \in DOMAIN new.arena : SameTerms(new.arena[s], book'.arena[s])
    BY <1>7, CutMakerTotal
  <2> HIDE DEF new, slot
  <2>2. /\ slot \in DOMAIN book'.arena /\ maker \in DOMAIN book'.arena
        /\ book'.arena[slot].remaining = new.arena[slot].remaining
        /\ book'.arena[maker].remaining = new.arena[maker].remaining
    BY <1>2, <1>4, <1>5, <2>1 DEF SameTerms
  <2> QED BY <1>3, <2>2 DEF SizesAfter, Gives, slot
<1> QED BY <1>3, <1>6, <1>7

LEMMA StillCovered ==
  ASSUME Inv, Whole(book, stack), IsFiniteSet(OrderId), Matching, Covered(book, Top.slot),
         NEW price, FillMaker(price) \/ CutMaker(price)
  PROVE  /\ Covered(book', Top.slot)
         /\ Top.slot \in DOMAIN book'.arena /\ SameButSize(Taker, book'.arena[Top.slot])
<1> DEFINE slot  == Top.slot
           maker == MakerAt(price)
           qty   == TradeQty(price)
           side  == Taker.side
           limit == Taker.price
           reach == InReach(book.arena, {slot}, side, limit)
           later == InReach(book'.arena, {slot}, side, limit)
<1>1. TradesAt(price)
  BY DEF FillMaker, CutMaker
<1>2. RestingMaker(maker, Other, price) /\ OthersRest(book, book', {slot}, maker)
  BY <1>1, MakerRests, TradeRests
<1>3. maker \in reach
  BY <1>1, <1>2, TradesWithin DEF RestingMaker, InReach, Other
<1>4. Sized(book.arena, reach)
  <2>1. Takers(stack) = {slot}
    BY <1>2 DEF RestingMaker
  <2> QED BY <2>1, ReachSized DEF Inv, BookSound, Whole
<1>5. SizesAfter(maker, qty) /\ qty \in Nat /\ Taker.remaining \in Nat
  BY TradeLeaves
<1>6. slot \in DOMAIN book'.arena /\ SameButSize(Taker, book'.arena[slot])
  BY <1>2, <1>5 DEF SizesAfter, OthersRest, Taker
<1>7. Left(book'.arena, later) = Left(book.arena, reach) - qty
  <2>1. Gives(book, book', maker, qty)
    BY <1>5 DEF SizesAfter
  <2> HIDE DEF slot, maker, qty, side, limit
  <2>2. /\ reach = InReach(book.arena, {slot}, side, limit)
        /\ later = InReach(book'.arena, {slot}, side, limit)
    OBVIOUS
  <2> HIDE DEF reach, later
  <2>3. OthersRest(book, book', {slot}, maker)
    BY <1>2
  <2>4. Taking(book, book', slot, maker, qty, side, limit, reach, later)
    BY <1>3, <1>4, <1>5, <2>1, <2>2, <2>3 DEF Taking
  <2>5. \A b, c, t, m, n, g, l, S, U : Taking(b, c, t, m, n, g, l, S, U) => Left(c.arena, U) = Left(b.arena, S) - n
    BY ReachShrinks
  <2>6. Left(book'.arena, later) = Left(book.arena, reach) - qty
    BY ONLY <2>4, <2>5
  <2> QED BY <2>6
<1>8. Left(book.arena, reach) \in Nat
  BY <1>4, LeftNat
<1> DEFINE x == Left(book.arena, reach)
           y == Left(book'.arena, later)
           r == Taker.remaining
<1>9. r <= x
  BY DEF Covered, Taker
<1>10. book'.arena[slot].remaining = r - qty
  BY <1>5 DEF SizesAfter
<1>11. y = x - qty /\ x \in Nat /\ r \in Nat /\ qty \in Nat
  BY <1>5, <1>7, <1>8
<1>12. book'.arena[slot].side = side /\ book'.arena[slot].price = limit
  BY <1>6 DEF SameButSize
<1> HIDE DEF x, r, qty
<1>13. r - qty <= y
  BY <1>9, <1>11
<1>14. Covered(book', slot)
  <2> HIDE DEF slot, side, limit
  <2> QED BY <1>10, <1>12, <1>13 DEF Covered, y, later
<1> QED BY <1>6, <1>14

LEMMA FokGoesOn ==
  ASSUME Inv, Whole(book, stack), IsFiniteSet(OrderId), Recorded,
         NEW no, no.kind = "Fok", FokTrades(no), MatchStep
  PROVE  FokTrades(no)'
<1>1. PICK price : Matching /\ (FillMaker(price) \/ CutMaker(price))
  BY DEF MatchStep
<1>2. TradesAt(price) /\ CountFill(price)
  BY <1>1 DEF FillMaker, CutMaker
<1>3. Covered(book, Top.slot)
  BY DEF FokTrades
<1>4. /\ Covered(book', Top.slot)
      /\ Top.slot \in DOMAIN book'.arena /\ SameButSize(Taker, book'.arena[Top.slot])
  BY <1>1, <1>3, StillCovered
<1>5. stack' # <<>> /\ Top'.call = "match_order" /\ Top'.slot = Top.slot
  BY <1>1, <1>2, CallAfterTrade DEF Top
<1>6. Matching' /\ Taker' = book'.arena[Top.slot]
  BY <1>4, <1>5 DEF Matching, In, Taker
<1>7. Within(no.side, no.price, price)
  BY <1>1, <1>2, <1>3, TradesWithin DEF FokTrades
<1>8. TakesWithin(no, out')
  <2>1. \A e \in TakenBy(no.id, out') : e \in TakenBy(no.id, out) \/ e.price = price
    BY <1>1, TradeTold
  <2> QED BY <1>7, <2>1 DEF TakesWithin, FokTrades
<1> QED BY <1>4, <1>5, <1>6, <1>8 DEF FokTrades, SameButSize

\* Once it is gone, whatever the stops do that fire after it.
LEMMA FokStaysOver ==
  ASSUME Inv, Whole(book, stack), Recorded, NEW no, stack # <<>>, FokOver(no), Apply
  PROVE  FokOver(no)'
<1>1. Gone(no.id)
  BY DEF FokOver
<1>2. Gone(no.id)'
  BY <1>1, GoneStays
<1>3. TakenBy(no.id, out') \subseteq TakenBy(no.id, out) /\ ToSet(out) \subseteq ToSet(out')
  <2>1. CASE MatchStep
    <3>1. PICK price : Matching /\ (FillMaker(price) \/ CutMaker(price))
      BY <2>1 DEF MatchStep
    <3>2. Taker.id # no.id
      BY <1>1, <3>1 DEF Gone
    <3> QED BY <3>1, <3>2, TradeTold
  <2>2. CASE ~MatchStep
    BY <2>2, NoTradeTold DEF Apply
  <2> QED BY <2>1, <2>2
<1> QED BY <1>2, <1>3 DEF FokOver, TakesWithin

\* Its match ends only when it is filled to the last unit.
LEMMA FokOnlyFills ==
  ASSUME Inv, Whole(book, stack), IsFiniteSet(OrderId), NEW no, FokTrades(no)
  PROVE  ~Rest /\ ~CancelRest
<1>1. Matching /\ Taker.kind = "Fok" /\ Covered(book, Top.slot)
  BY DEF FokTrades
<1>2. ~Rest
  BY <1>1 DEF Rest
<1>3. Taker.remaining \in Nat /\ Top.filled \in Nat /\ Top.filled + Taker.remaining >= 1
  <2>1. Taker.remaining \in Nat /\ Top.filled \in Nat
    BY <1>1, InvType, TakerType DEF Order, Qty
  <2>2. FrameSound(book, Top, Len(stack)) /\ Top.call = "match_order"
    BY <1>1, InCall DEF Matching
  <2> QED BY <2>1, <2>2 DEF FrameSound, Taker
<1>4. ASSUME CancelRest
      PROVE  FALSE
  <2>1. LoopOver /\ ~(Top.filled > 0 /\ Taker.remaining = 0)
    BY <1>4 DEF CancelRest
  <2>2. Taker.remaining # 0
    BY <1>3, <2>1
  <2>3. PICK s : book.arena[s].price \in DOMAIN book.levels[Other]
    BY <1>1, <2>2, BestIsWithin
  <2>4. Crosses(book.arena[s].price)
    BY <1>1 DEF Crosses
  <2>5. PICK p \in DOMAIN book.levels[Other] : book.levels[Other][p].head = None
    BY <2>1, <2>2, <2>3, <2>4 DEF LoopOver
  <2>6. NonEmptyLevels(book.levels) /\ Other \in Side
    BY <1>1, InvType, TakerType DEF Inv, BookSound
  <2> QED BY <2>5, <2>6 DEF NonEmptyLevels
<1> QED BY <1>2, <1>4

LEMMA FokEnds ==
  ASSUME Inv, Whole(book, stack), IsFiniteSet(OrderId), Recorded,
         NEW no, FokTrades(no), FinishFilled
  PROVE  FokOver(no)'
<1>1. Matching /\ Taker.id = no.id /\ TakesWithin(no, out)
  BY DEF FokTrades
<1>2. ThenTriggers
  BY CallAfter
<1>3. no.id \notin DOMAIN book'.ids
  BY <1>1, TakerGoneIds DEF Inv, TakerApart
<1>4. Gone(no.id)'
  BY <1>2, <1>3, GoneThen
<1>5. Filled(no.id) \in ToSet(out')
  <2>1. Emit(<<Filled(no.id)>>)
    BY <1>1 DEF FinishFilled
  <2> QED BY <2>1, ToldOne
<1>6. TakenBy(no.id, out') = TakenBy(no.id, out)
  BY NoTradeTold
<1> QED BY <1>1, <1>4, <1>5, <1>6 DEF FokOver, TakesWithin

FokGoing(no) == FokWaits(no) \/ FokTrades(no) \/ FokOver(no)

LEMMA ApplyInCall ==
  ASSUME Apply
  PROVE  stack # <<>> /\ cmd' = cmd
BY DEF Apply, RejectNew, HoldStop, KillFok, StartMatch, MatchStep, FinishFilled, Rest, CancelRest,
       VisitStop, EndStops, Triggering, Matching, In

LEMMA FokApplies ==
  ASSUME Inv, Whole(book, stack), Counted(book, Takers(stack)), IsFiniteSet(OrderId), Recorded,
         NEW no, no.kind = "Fok", FokGoing(no), Apply
  PROVE  FokGoing(no)'
<1>1. CASE FokWaits(no)
  BY <1>1, FokStarts DEF FokGoing
<1>2. CASE FokTrades(no)
  <2>1. Matching
    BY <1>2 DEF FokTrades
  <2>2. ~Rest /\ ~CancelRest
    BY <1>2, FokOnlyFills
  <2>3. MatchStep \/ FinishFilled
    BY <2>1, <2>2 DEF Apply, Matching, In, RejectNew, HoldStop, KillFok, StartMatch, VisitStop,
                      EndStops, Triggering
  <2> QED BY <1>2, <2>3, FokGoesOn, FokEnds DEF FokGoing
<1>3. CASE FokOver(no)
  <2> QED BY <1>3, ApplyInCall, FokStaysOver DEF FokGoing
<1> QED BY <1>1, <1>2, <1>3 DEF FokGoing

FokFollowed ==
  /\ Recorded
  /\ cmd = None => stack = <<>> /\ out = <<>>
  /\ cmd # None /\ cmd.op = "New" /\ cmd.order.kind = "Fok" => FokGoing(cmd.order)

LEMMA StepFollows ==
  ASSUME Inv, Whole(book, stack), Counted(book, Takers(stack)), IsFiniteSet(OrderId),
         FokFollowed, [Next]_vars
  PROVE  FokFollowed'
<1>1. Recorded'
  BY StepRecords DEF FokFollowed
<1>2. CASE Deliver
  BY <1>1, <1>2 DEF Deliver, FokFollowed
<1>3. CASE UNCHANGED vars
  BY <1>1, <1>3 DEF vars, FokFollowed, FokGoing, FokWaits, FokTrades, FokOver, Gone, Covered,
                    Matching, In, Top, Taker
<1>4. CASE Receive
  <2>1. PICK c \in Commands : New(c) \/ Cancel(c) \/ Replace(c)
    BY <1>4 DEF Receive
  <2>2. cmd' = c /\ cmd' # None
    BY <2>1, NoCommandAssumption DEF New, Cancel, Replace, Refuse
  <2>3. CASE New(c)
    <3>1. stack' = <<ApplyNew(c.order)>> /\ out' = <<>>
      BY <2>3 DEF New, Idle, FokFollowed
    <3>2. stack' # <<>> /\ Len(stack') = 1 /\ Top' = ApplyNew(c.order)
      BY <3>1 DEF Top
    <3>3. FokWaits(c.order)'
      BY <3>1, <3>2 DEF FokWaits, In, ApplyNew
    <3> QED BY <1>1, <2>2, <3>3 DEF FokFollowed, FokGoing
  <2>4. CASE Cancel(c) \/ Replace(c)
    <3>1. c.op # "New"
      BY <2>4 DEF Cancel, Replace
    <3> QED BY <1>1, <2>2, <3>1 DEF FokFollowed
  <2> QED BY <2>1, <2>3, <2>4
<1>5. CASE Apply
  <2>1. cmd' = cmd
    BY <1>5, ApplyInCall
  <2>2. cmd # None
    BY <1>5, ApplyInCall DEF FokFollowed
  <2>3. PICK no : no = cmd.order
    OBVIOUS
  <2>4. ASSUME cmd.op = "New", cmd.order.kind = "Fok"
        PROVE  FokGoing(no)'
    <3>1. no.kind = "Fok" /\ FokGoing(no)
      BY <2>2, <2>3, <2>4 DEF FokFollowed
    <3> QED BY <1>5, <3>1, FokApplies DEF FokFollowed
  <2> QED BY <1>1, <2>1, <2>2, <2>3, <2>4 DEF FokFollowed
<1> QED BY <1>2, <1>3, <1>4, <1>5 DEF Next

LEMMA FollowedFills ==
  ASSUME FokFollowed
  PROVE  FokAllOrNothing
<1> DEFINE no   == cmd.order
           mine == {i \in Events("Trade") : out[i].taker = no.id}
<1> SUFFICES ASSUME stack = <<>>, cmd # None, cmd.op = "New", no.kind = "Fok", mine # {}
             PROVE  /\ Filled(no.id) \in ToSet(out)
                    /\ \A i \in mine : Within(no.side, no.price, out[i].price)
  BY DEF FokAllOrNothing
<1>1. FokOver(no)
  BY DEF FokFollowed, FokGoing, FokWaits, FokTrades, Matching, In
<1>2. \A i \in mine : out[i] \in TakenBy(no.id, out)
  BY DEF Events, TakenBy, ToSet
<1> HIDE DEF mine, no
<1> QED BY <1>1, <1>2 DEF FokOver, TakesWithin

\* A fill-or-kill order trades to the last unit and within its limit, or not at
\* all: what the pre-check lets through on the totals of the levels alone, the
\* match that ignores the limit can fill from the orders within it.
THEOREM FokFillsOrNothing ==
  ASSUME Tame, Ample
  PROVE  FeedSpec => []FokAllOrNothing
<1>1. PICK q \in Nat : QtysWithin(q) /\ q * Cardinality(OrderId) < QtyMod
  BY DEF Ample
<1>2. Spec => [](Inv /\ Whole(book, stack) /\ Counted(book, Takers(stack)))
  BY <1>1, CountedHolds DEF Ample
<1>3. FeedInit => Init /\ FokFollowed
  <2> SUFFICES ASSUME Init
               PROVE  FokFollowed
    BY DEF FeedInit
  <2>1. stack = <<>> /\ out = <<>> /\ cmd = None
    BY DEF Init
  <2>2. out \in Seq({})
    BY <2>1
  <2> QED BY <2>1, <2>2 DEF FokFollowed, Recorded
<1>4. [FeedNext]_feedVars => [Next]_vars
  BY DEF FeedNext, feedVars, Next
<1>5. /\ Inv /\ Whole(book, stack) /\ Counted(book, Takers(stack))
      /\ FokFollowed /\ [Next]_vars
      => FokFollowed'
  <2> SUFFICES ASSUME Inv, Whole(book, stack), Counted(book, Takers(stack)),
                      FokFollowed, [Next]_vars
               PROVE  FokFollowed'
    OBVIOUS
  <2>1. IsFiniteSet(OrderId)
    BY DEF Ample
  <2> QED BY Zenon, <2>1, StepFollows
<1>6. FokFollowed => FokAllOrNothing
  BY FollowedFills
<1> QED BY <1>2, <1>3, <1>4, <1>5, <1>6, PTL DEF FeedSpec, Spec

(***************************************************************************)
(* The open orders that the id index holds, as a client would have them.   *)
(***************************************************************************)

OpenOf(b) == [id \in DOMAIN b.ids |-> b.arena[b.ids[id].slot].remaining]

\* The orders of the other ids keep their size.
SizesStay(b, c, id) ==
  \A s \in DOMAIN b.arena :
    (s \in DOMAIN c.arena /\ b.arena[s].id \in DOMAIN b.ids \ {id})
      => c.arena[s].remaining = b.arena[s].remaining

LEMMA OthersOpen ==
  ASSUME NEW b, IdsSound(b), NEW c, IdsSound(c), NEW id, SizesStay(b, c, id),
         NEW i, i # id, i \in DOMAIN b.ids, i \in DOMAIN c.ids, c.ids[i] = b.ids[i]
  PROVE  OpenOf(c)[i] = OpenOf(b)[i]
<1> DEFINE s == b.ids[i].slot
<1>1. s \in DOMAIN b.arena /\ b.arena[s].id = i /\ s \in DOMAIN c.arena
  BY DEF IdsSound
<1>2. c.arena[s].remaining = b.arena[s].remaining
  BY <1>1 DEF SizesStay
<1> QED BY <1>2 DEF OpenOf

\* One order comes, goes or changes its size.
LEMMA OpenButOne ==
  ASSUME NEW b, IdsSound(b), NEW c, IdsSound(c), NEW id, SizesStay(b, c, id)
  PROVE  /\ c.ids = Drop(b.ids, id) => OpenOf(c) = Drop(OpenOf(b), id)
         /\ \A loc : c.ids = Put(b.ids, id, loc)
                       => OpenOf(c) = Put(OpenOf(b), id, c.arena[loc.slot].remaining)
         /\ c.ids = b.ids /\ id \notin DOMAIN b.ids => OpenOf(c) = OpenOf(b)
         /\ c.ids = b.ids /\ id \in DOMAIN b.ids
              => OpenOf(c) = Put(OpenOf(b), id, c.arena[b.ids[id].slot].remaining)
<1>1. DOMAIN OpenOf(b) = DOMAIN b.ids /\ DOMAIN OpenOf(c) = DOMAIN c.ids
  BY DEF OpenOf
<1>2. OpenOf(c) = [i \in DOMAIN c.ids |-> OpenOf(c)[i]]
  BY DEF OpenOf
<1>3. ASSUME c.ids = Drop(b.ids, id)
      PROVE  OpenOf(c) = Drop(OpenOf(b), id)
  <2>1. DOMAIN c.ids = DOMAIN b.ids \ {id}
    BY <1>3 DEF Drop
  <2>2. \A i \in DOMAIN c.ids : OpenOf(c)[i] = OpenOf(b)[i]
    BY <1>3, <2>1, OthersOpen DEF Drop
  <2> QED BY <1>1, <1>2, <2>1, <2>2 DEF Drop
<1>4. ASSUME NEW loc, c.ids = Put(b.ids, id, loc)
      PROVE  OpenOf(c) = Put(OpenOf(b), id, c.arena[loc.slot].remaining)
  <2>1. DOMAIN c.ids = DOMAIN b.ids \cup {id} /\ c.ids[id] = loc
    BY <1>4 DEF Put
  <2>2. \A i \in DOMAIN c.ids : i # id => i \in DOMAIN b.ids /\ c.ids[i] = b.ids[i]
    BY <1>4, <2>1 DEF Put
  <2>3. \A i \in DOMAIN c.ids : i # id => OpenOf(c)[i] = OpenOf(b)[i]
    BY <2>2, OthersOpen
  <2>4. OpenOf(c)[id] = c.arena[loc.slot].remaining
    BY <2>1 DEF OpenOf
  <2> QED BY <1>1, <1>2, <2>1, <2>3, <2>4 DEF Put
<1>5. ASSUME c.ids = b.ids
      PROVE  \A i \in DOMAIN c.ids : i # id => OpenOf(c)[i] = OpenOf(b)[i]
  BY <1>5, OthersOpen
<1>6. OpenOf(b) = [i \in DOMAIN b.ids |-> OpenOf(b)[i]]
  BY DEF OpenOf
<1>7. ASSUME c.ids = b.ids, id \notin DOMAIN b.ids
      PROVE  OpenOf(c) = OpenOf(b)
  <2>1. \A i \in DOMAIN b.ids : OpenOf(c)[i] = OpenOf(b)[i]
    BY <1>5, <1>7
  <2> QED BY <1>2, <1>6, <1>7, <2>1
<1>8. ASSUME c.ids = b.ids, id \in DOMAIN b.ids
      PROVE  OpenOf(c) = Put(OpenOf(b), id, c.arena[b.ids[id].slot].remaining)
  <2>1. OpenOf(c)[id] = c.arena[b.ids[id].slot].remaining
    BY <1>8 DEF OpenOf
  <2>2. DOMAIN b.ids \cup {id} = DOMAIN b.ids
    BY <1>8
  <2> QED BY <1>1, <1>2, <1>5, <1>8, <2>1, <2>2 DEF Put
<1> QED BY <1>3, <1>4, <1>7, <1>8

(***************************************************************************)
(* What the client has learnt so far of the command.                       *)
(***************************************************************************)

Told == Heard(Asked, feed, out)

LEMMA NoneOrTwo ==
  ASSUME NEW S, NEW o \in Seq(S), NEW x, NEW y
  PROVE  /\ o \o <<x>> = Append(o, x)
         /\ o \o <<x, y>> = Append(Append(o, x), y)
<1> DEFINE U == S \cup {x, y}
           n == Len(o)
<1>1. o \in Seq(U) /\ x \in U /\ y \in U /\ <<x>> \in Seq(U) /\ <<x, y>> \in Seq(U)
  OBVIOUS
<1> HIDE DEF U
<1>2. n \in Nat /\ n = Len(o)
  OBVIOUS
<1> HIDE DEF n
<1> DEFINE a == o \o <<x>>
           b == Append(o, x)
           c == o \o <<x, y>>
           d == Append(b, y)
<1>3. b \in Seq(U) /\ Len(b) = n + 1 /\ b[n + 1] = x /\ \A i \in 1 .. n : b[i] = o[i]
  BY <1>1, <1>2
<1>4. a \in Seq(U) /\ Len(a) = n + 1 /\ a[n + 1] = x /\ \A i \in 1 .. n : a[i] = o[i]
  BY <1>1, <1>2
<1>5. /\ c \in Seq(U) /\ Len(c) = n + 2 /\ c[n + 1] = x /\ c[n + 2] = y
      /\ \A i \in 1 .. n : c[i] = o[i]
  BY <1>1, <1>2
<1> HIDE DEF a, b, c
<1>6. /\ d \in Seq(U) /\ Len(d) = n + 2 /\ d[n + 2] = y
      /\ \A i \in 1 .. n + 1 : d[i] = b[i]
  BY <1>1, <1>2, <1>3
<1> HIDE DEF d
<1>7. a = b
  <2>1. \A i \in 1 .. n + 1 : a[i] = b[i]
    BY <1>2, <1>3, <1>4
  <2> QED BY <1>3, <1>4, <2>1, SeqEqual
<1>8. c = d
  <2>1. \A i \in 1 .. n + 2 : c[i] = d[i]
    BY <1>2, <1>3, <1>5, <1>6
  <2> QED BY <1>5, <1>6, <2>1, SeqEqual
<1> QED BY <1>7, <1>8 DEF a, b, c, d

LEMMA HeardNone ==
  ASSUME NEW a, NEW open
  PROVE  Heard(a, open, <<>>) = open
<1>1. <<>> \in Seq({})
  OBVIOUS
<1> QED BY <1>1, HeardOne

LEMMA ToldThen ==
  ASSUME Recorded, cmd' = cmd, feed' = feed
  PROVE  /\ out' = out => Told' = Told
         /\ Emit(<<>>) => Told' = Told
         /\ \A x : Emit(<<x>>) => Told' = Learn(Asked, Told, x)
         /\ \A x, y : Emit(<<x, y>>) => Told' = Learn(Asked, Learn(Asked, Told, x), y)
<1>1. PICK S : out \in Seq(S)
  BY DEF Recorded
<1>2. Asked' = Asked
  BY DEF Asked
<1>3. Told' = Heard(Asked, feed, out')
  BY <1>2 DEF Told
<1>4. out \o <<>> = out
  BY <1>1
<1>5. ASSUME NEW x, Emit(<<x>>)
      PROVE  Told' = Learn(Asked, Told, x)
  <2>1. out' = Append(out, x)
    BY <1>1, <1>5, NoneOrTwo DEF Emit
  <2> QED BY <1>1, <1>3, <2>1, HeardOne DEF Told
<1>6. ASSUME NEW x, NEW y, Emit(<<x, y>>)
      PROVE  Told' = Learn(Asked, Learn(Asked, Told, x), y)
  <2> DEFINE o == Append(out, x)
  <2>1. out' = Append(o, y)
    BY <1>1, <1>6, NoneOrTwo DEF Emit
  <2>2. o \in Seq(S \cup {x})
    BY <1>1
  <2>3. Heard(Asked, feed, o) = Learn(Asked, Told, x)
    BY <1>1, HeardOne DEF Told
  <2> HIDE DEF o
  <2> QED BY <1>3, <2>1, <2>2, <2>3, HeardOne
<1> QED BY <1>3, <1>4, <1>5, <1>6 DEF Told, Emit

\* What the client should have learnt by now: what the index holds and, while an
\* order is matched or a stop is submitted anew, the order that is in neither.
Belief ==
  IF Matching THEN Put(OpenOf(book), Taker.id, Taker.remaining)
  ELSE IF In("apply_new") /\ Len(stack) > 1 THEN Put(OpenOf(book), Top.order.id, Top.order.qty)
  ELSE OpenOf(book)

\* The client knows the quantity of the order that its command submits.
FirstAsked == In("apply_new") /\ Len(stack) = 1 => Top.order.qty = Asked

LEMMA BeliefThen ==
  ASSUME ThenTriggers
  PROVE  Belief' = OpenOf(book')
<1>1. stack' = <<>> \/ (stack' # <<>> /\ Top'.call = "trigger_stops")
  BY DEF ThenTriggers, Top
<1> QED BY <1>1 DEF Belief, Matching, In

LEMMA PutOut ==
  ASSUME NEW f, f = [i \in DOMAIN f |-> f[i]], NEW id, id \notin DOMAIN f, NEW v
  PROVE  Drop(Put(f, id, v), id) = f
<1>1. (DOMAIN f \cup {id}) \ {id} = DOMAIN f
  OBVIOUS
<1> QED BY <1>1 DEF Put, Drop

LEMMA LearnsAccepted ==
  ASSUME NEW a, NEW open, NEW id
  PROVE  Learn(a, open, Accepted(id)) = IF id \in DOMAIN open THEN open ELSE Put(open, id, a)
BY DEF Learn, Accepted

LEMMA LearnsRejected ==
  ASSUME NEW a, NEW open, NEW id, NEW why
  PROVE  Learn(a, open, Rejected(id, why)) = IF why = "FokUnfillable" THEN Drop(open, id) ELSE open
BY DEF Learn, Rejected

LEMMA LearnsFilled ==
  ASSUME NEW a, NEW open, NEW id, open[id] = 0
  PROVE  Learn(a, open, Filled(id)) = Drop(open, id)
BY DEF Learn, Filled

LEMMA LearnsPartlyFilled ==
  ASSUME NEW a, NEW open, NEW id, NEW filled, NEW left, open[id] = left
  PROVE  Learn(a, open, PartiallyFilled(id, filled, left)) = open
BY DEF Learn, PartiallyFilled

LEMMA LearnsGone ==
  ASSUME NEW a, NEW open, NEW id
  PROVE  /\ Learn(a, open, Cancelled(id)) = Drop(open, id)
         /\ Learn(a, open, Replaced(id)) = Drop(open, id)
BY DEF Learn, Cancelled, Replaced

LEMMA OnlyFirstEnds ==
  ASSUME Inv, Whole(book, stack), StopsWait(book, stack, cmd), RejectNew \/ HoldStop \/ KillFok
  PROVE  In("apply_new") /\ Len(stack) = 1 /\ Belief = OpenOf(book)
<1>1. In("apply_new") /\ Len(stack) = 1
  BY NestedGoesOn DEF StopsWait, RejectNew, HoldStop, KillFok
<1> QED BY <1>1 DEF Belief, Matching, In

\* The facts a step of apply may be told from.
Follows ==
  /\ Inv /\ Inv' /\ Whole(book, stack) /\ StopsWait(book, stack, cmd)
  /\ Recorded /\ cmd' = cmd /\ feed' = feed
  /\ FirstAsked /\ Told = Belief

LEMMA RefusalTold ==
  ASSUME Follows, RejectNew \/ KillFok
  PROVE  Told' = Belief'
<1> DEFINE no   == Top.order
           open == OpenOf(book)
<1>1. Told = open /\ Belief' = OpenOf(book')
  BY OnlyFirstEnds, CallAfter, BeliefThen DEF Follows
<1>2. book' = book
  BY DEF RejectNew, KillFok
<1>3. CASE RejectNew
  <2> DEFINE why == Refusal(no)
  <2>1. Emit(<<Rejected(no.id, why)>>)
    BY <1>3 DEF RejectNew
  <2>2. why # "FokUnfillable"
    BY <1>3 DEF RejectNew, Refusal
  <2> HIDE DEF why, no
  <2>3. Told' = Learn(Asked, Told, Rejected(no.id, why))
    BY <2>1, ToldThen DEF Follows
  <2> QED BY <1>1, <1>2, <2>2, <2>3, LearnsRejected
<1>4. CASE KillFok
  <2>1. /\ Emit(<<Accepted(no.id), Rejected(no.id, "FokUnfillable")>>)
        /\ Refusal(no) = None
    BY <1>4 DEF KillFok
  <2>2. no.id \notin DOMAIN open
    BY <2>1, ReasonAssumption DEF Refusal, OpenOf
  <2>3. open = [i \in DOMAIN open |-> open[i]]
    BY DEF OpenOf
  <2> HIDE DEF no, open
  <2>4. Told' = Learn(Asked, Learn(Asked, Told, Accepted(no.id)), Rejected(no.id, "FokUnfillable"))
    BY <2>1, ToldThen DEF Follows
  <2>5. Learn(Asked, open, Accepted(no.id)) = Put(open, no.id, Asked)
    BY <2>2, LearnsAccepted
  <2>6. Told' = Drop(Put(open, no.id, Asked), no.id)
    BY <1>1, <2>4, <2>5, LearnsRejected
  <2>7. Told' = open
    BY <2>2, <2>3, <2>6, PutOut
  <2> QED BY <1>1, <1>2, <2>7 DEF open
<1> QED BY <1>3, <1>4

LEMMA HoldStopTold ==
  ASSUME Follows, HoldStop
  PROVE  Told' = Belief'
<1> DEFINE no   == Top.order
           id   == no.id
           slot == VacantSlot(book)
           open == OpenOf(book)
           loc  == [slot |-> slot, side |-> no.side, price |-> no.stop_price]
<1>1. Told = open /\ Belief' = OpenOf(book') /\ no.qty = Asked
  BY OnlyFirstEnds, CallAfter, BeliefThen DEF Follows, FirstAsked
<1>2. /\ Emit(<<Accepted(id)>>) /\ id \notin DOMAIN book.ids
      /\ book'.ids = Put(book.ids, id, loc)
  BY HoldStopIds, AcceptedType DEF HoldStop, Follows
<1>3. Joins(book, book', slot, OrderOf(no)) /\ OrderOf(no).remaining = no.qty
  BY HoldStopJoins DEF Follows, OrderOf
<1>4. IdsSound(book) /\ IdsSound(book') /\ loc.slot = slot
  BY DEF Follows, Inv, BookSound, SlotsSound
<1> HIDE DEF no, loc, slot, id
<1>5. SizesStay(book, book', id)
  BY <1>3 DEF SizesStay, Joins
<1>6. OpenOf(book') = Put(open, id, book'.arena[slot].remaining)
  BY <1>2, <1>4, <1>5, OpenButOne
<1>7. book'.arena[slot].remaining = Asked
  BY <1>1, <1>3 DEF Joins
<1>8. Told' = Learn(Asked, open, Accepted(id))
  BY <1>1, <1>2, ToldThen DEF Follows
<1>9. id \notin DOMAIN open
  BY <1>2 DEF OpenOf
<1> HIDE DEF open
<1> QED BY <1>1, <1>6, <1>7, <1>8, <1>9, LearnsAccepted

LEMMA StartMatchTold ==
  ASSUME Follows, StartMatch
  PROVE  Told' = Belief'
<1> DEFINE no   == Top.order
           id   == no.id
           slot == VacantSlot(book)
           open == OpenOf(book)
<1>1. In("apply_new") /\ Emit(<<Accepted(id)>>) /\ id \notin DOMAIN book.ids
  BY AcceptedType DEF StartMatch, Follows
<1>2. Joins(book, book', slot, OrderOf(no))
  BY StartMatchJoins DEF Follows
<1>3. book'.ids = book.ids
  BY AcceptedType, InsertAll DEF StartMatch, Follows, Inv
<1>4. IdsSound(book) /\ IdsSound(book')
  BY DEF Follows, Inv, BookSound, SlotsSound
<1>5. OpenOf(book') = open
  <2>1. SizesStay(book, book', id)
    BY <1>2 DEF SizesStay, Joins
  <2> QED BY <1>1, <1>3, <1>4, <2>1, OpenButOne
<1>6. stack' # <<>> /\ stack'[Len(stack')] = MatchOrder(slot, 0)
  BY CallAfter DEF Follows
<1>7. Matching' /\ Taker'.id = id /\ Taker'.remaining = no.qty
  <2>1. Top' = MatchOrder(slot, 0)
    BY <1>6 DEF Top
  <2>2. Top'.call = "match_order" /\ Top'.slot = slot
    BY <2>1 DEF MatchOrder
  <2>3. OrderOf(no).id = id /\ OrderOf(no).remaining = no.qty
    BY DEF OrderOf
  <2> HIDE DEF slot, no
  <2> QED BY <1>2, <1>6, <2>2, <2>3 DEF Matching, In, Taker, Joins
<1>8. Belief' = Put(open, id, no.qty)
  BY <1>5, <1>7 DEF Belief
<1>9. Told' = Learn(Asked, Told, Accepted(id))
  BY <1>1, ToldThen DEF Follows
<1>10. id \notin DOMAIN open
  BY <1>1 DEF OpenOf
<1>11. ~Matching
  BY <1>1 DEF Matching, In
<1>12. CASE Len(stack) > 1
  <2>1. Told = Put(open, id, no.qty)
    BY <1>1, <1>11, <1>12 DEF Follows, Belief
  <2>2. id \in DOMAIN Told
    BY <2>1 DEF Put
  <2> HIDE DEF id, open, no
  <2> QED BY <1>8, <1>9, <2>1, <2>2, LearnsAccepted
<1>13. CASE ~(Len(stack) > 1)
  <2>1. Told = open
    BY <1>11, <1>13 DEF Follows, Belief
  <2>2. no.qty = Asked
    <3>1. Len(stack) \in Nat \ {0}
      BY <1>1, InCall DEF Follows
    <3>2. Len(stack) = 1
      <4> DEFINE n == Len(stack)
      <4>1. n \in Nat \ {0} /\ ~(n > 1)
        BY <1>13, <3>1
      <4> HIDE DEF n
      <4>2. n = 1
        BY <4>1
      <4> QED BY <4>2 DEF n
    <3> QED BY <1>1, <3>2 DEF Follows, FirstAsked
  <2> HIDE DEF id, open, no
  <2> QED BY <1>8, <1>9, <1>10, <2>1, <2>2, LearnsAccepted
<1> QED BY <1>12, <1>13

LEMMA PutsIn ==
  ASSUME NEW f, NEW id, NEW v
  PROVE  id \in DOMAIN Put(f, id, v) /\ Put(f, id, v)[id] = v
BY DEF Put

LEMMA TakerTold ==
  ASSUME Follows, Matching
  PROVE  /\ Told = Put(OpenOf(book), Taker.id, Taker.remaining)
         /\ Told[Taker.id] = Taker.remaining
         /\ Drop(Told, Taker.id) = OpenOf(book)
         /\ Taker.id \notin DOMAIN book.ids
<1> DEFINE open == OpenOf(book)
           id   == Taker.id
<1>1. Told = Put(open, id, Taker.remaining)
  BY DEF Follows, Belief
<1>2. id \notin DOMAIN book.ids
  BY DEF Follows, Inv, TakerApart
<1>3. id \notin DOMAIN open /\ open = [i \in DOMAIN open |-> open[i]]
  BY <1>2 DEF OpenOf
<1> HIDE DEF open, id
<1>4. Told[id] = Taker.remaining /\ Drop(Told, id) = open
  BY <1>1, <1>3, PutsIn, PutOut
<1> QED BY <1>1, <1>2, <1>4 DEF open, id

LEMMA TakerGoneTold ==
  ASSUME Follows, FinishFilled \/ CancelRest
  PROVE  Told' = Belief'
<1> DEFINE id   == Taker.id
           open == OpenOf(book)
<1>1. Matching /\ Belief' = OpenOf(book')
  BY CallAfter, BeliefThen DEF Follows, FinishFilled, CancelRest
<1>2. Told[id] = Taker.remaining /\ Drop(Told, id) = open /\ id \notin DOMAIN book.ids
  BY <1>1, TakerTold
<1>3. OpenOf(book') = open
  <2>1. book'.ids = book.ids /\ Leaves(book, book', Top.slot)
    BY TakerGoneIds, TakerIsGone DEF Follows
  <2>2. IdsSound(book) /\ IdsSound(book')
    BY DEF Follows, Inv, BookSound, SlotsSound
  <2>3. SizesStay(book, book', id)
    BY <2>1 DEF SizesStay, Leaves
  <2> QED BY <1>2, <2>1, <2>2, <2>3, OpenButOne
<1>4. CASE FinishFilled
  <2>1. Emit(<<Filled(id)>>) /\ Taker.remaining = 0
    BY <1>4 DEF FinishFilled
  <2> HIDE DEF id, open
  <2>2. Told' = Learn(Asked, Told, Filled(id))
    BY <2>1, ToldThen DEF Follows
  <2>3. Learn(Asked, Told, Filled(id)) = Drop(Told, id)
    BY <1>2, <2>1, LearnsFilled
  <2> QED BY <1>1, <1>2, <1>3, <2>2, <2>3
<1>5. CASE CancelRest
  <2>1. \/ Emit(<<Cancelled(id)>>)
        \/ Emit(<<PartlyFilled, Cancelled(id)>>)
    BY Zenon, <1>5, PartialFillIs DEF CancelRest
  <2>2. Learn(Asked, Told, PartlyFilled) = Told
    BY <1>2, LearnsPartlyFilled DEF PartlyFilled
  <2> HIDE DEF id, open
  <2>3. \/ Told' = Learn(Asked, Told, Cancelled(id))
        \/ Told' = Learn(Asked, Learn(Asked, Told, PartlyFilled), Cancelled(id))
    BY <2>1, ToldThen DEF Follows
  <2>4. Told' = Drop(Told, id)
    BY <2>2, <2>3, LearnsGone
  <2> QED BY <1>1, <1>2, <1>3, <2>4
<1> QED BY <1>4, <1>5

LEMMA RestTold ==
  ASSUME Follows, Rest
  PROVE  Told' = Belief'
<1> DEFINE id   == Taker.id
           slot == Top.slot
           open == OpenOf(book)
           loc  == [slot |-> slot, side |-> Taker.side, price |-> Taker.price]
<1>1. Matching /\ Belief' = OpenOf(book')
  BY CallAfter, BeliefThen DEF Follows, Rest
<1>2. Told = Put(open, id, Taker.remaining) /\ Told[id] = Taker.remaining
  BY <1>1, TakerTold
<1>3. book'.ids = Put(book.ids, id, loc) /\ DOMAIN book'.arena = DOMAIN book.arena
  BY RestIds DEF Follows
<1>4. \A s \in DOMAIN book.arena : book'.arena[s].remaining = book.arena[s].remaining
  <2>1. FewerOrders(book, book')
    BY RestWhole DEF Follows
  <2> QED BY <1>3, <2>1 DEF FewerOrders, SameTerms
<1>5. OpenOf(book') = Put(open, id, Taker.remaining)
  <2>1. IdsSound(book) /\ IdsSound(book') /\ loc.slot = slot
    BY DEF Follows, Inv, BookSound, SlotsSound
  <2>2. SizesStay(book, book', id)
    BY <1>4 DEF SizesStay
  <2>3. book'.arena[slot].remaining = Taker.remaining
    BY <1>1, <1>4 DEF Matching, Taker
  <2> HIDE DEF loc
  <2> QED BY <1>3, <2>1, <2>2, <2>3, OpenButOne
<1>6. Emit(<<>>) \/ Emit(<<PartlyFilled>>)
  BY Zenon, PartialFillIs DEF Rest
<1>7. Learn(Asked, Told, PartlyFilled) = Told
  BY <1>2, LearnsPartlyFilled DEF PartlyFilled
<1> HIDE DEF id, open
<1>8. Told' = Told
  BY <1>6, <1>7, ToldThen DEF Follows
<1> QED BY <1>1, <1>2, <1>5, <1>8

LEMMA FiredIsNested ==
  ASSUME Inv, Triggering, NEW p, FireStop(p)
  PROVE  Len(stack') > 1
<1>1. \E frame, callee : stack' = Append([stack EXCEPT ![Len(stack)] = frame], callee)
  BY DEF FireStop, CallFrom
<1>2. StackSound(stack) /\ stack # <<>>
  BY DEF Inv, Triggering, In
<1>3. PICK S : stack \in Seq(S) /\ Len(stack) \in Nat \ {0}
  BY <1>2, StackIn
<1>4. PICK frame, callee : stack' = Append([stack EXCEPT ![Len(stack)] = frame], callee)
  BY <1>1
<1> DEFINE T == S \cup {frame, callee}
           u == [stack EXCEPT ![Len(stack)] = frame]
           n == Len(stack)
<1>5. u \in Seq(T) /\ Len(u) = n /\ callee \in T
  BY <1>3
<1> HIDE DEF T, u, n
<1>6. Len(Append(u, callee)) = n + 1
  BY <1>5
<1>7. n \in Nat \ {0}
  BY <1>3 DEF n
<1> QED BY <1>4, <1>6, <1>7 DEF u

LEMMA TriggerTold ==
  ASSUME Follows, Triggering, NEW p \in DOMAIN Top.todo, SkipStop(p) \/ FireStop(p), out' = out
  PROVE  Told' = Belief'
<1> DEFINE open == OpenOf(book)
<1>1. Told' = open
  <2>1. Belief = open
    BY DEF Belief, Triggering, Matching, In
  <2> QED BY <2>1, ToldThen DEF Follows
<1>2. CASE SkipStop(p)
  <2>1. book' = book /\ stack' # <<>> /\ Top'.call = "trigger_stops"
    BY <1>2, CallAfterVisit DEF Follows, SkipStop, Top
  <2>2. Belief' = OpenOf(book')
    BY <2>1 DEF Belief, Matching, In
  <2> QED BY <1>1, <2>1, <2>2
<1>3. CASE FireStop(p)
  <2> DEFINE slot == Head(Top.todo[p])
             stop == book.arena[slot]
             id   == stop.id
             left == stop.remaining
  <2>1. /\ slot \in DOMAIN book.arena /\ stack' # <<>> /\ Top'.call = "apply_new"
        /\ Top'.order.id = id /\ Top'.order.qty = left
    BY <1>3, CallAfterVisit DEF Follows, Top
  <2>2. Len(stack') > 1
    BY <1>3, FiredIsNested DEF Follows
  <2>3. Belief' = Put(OpenOf(book'), id, left)
    BY <2>1, <2>2 DEF Belief, Matching, In
  <2>4. /\ book'.ids = Drop(book.ids, id)
        /\ book.arena[slot].kind = "StopMarket"
        /\ Leaves(book, book', slot)
    BY <1>3, FireStopStays, FiredIsGone DEF Follows
  <2>5. id \in DOMAIN book.ids /\ book.ids[id].slot = slot
    <3>1. OrdersSound(book, {})
      BY InTrigger DEF Follows, Whole
    <3> QED BY <2>1, <3>1 DEF OrdersSound
  <2>6. SizesStay(book, book', id)
    BY <2>4 DEF SizesStay, Leaves
  <2>7. IdsSound(book) /\ IdsSound(book')
    BY DEF Follows, Inv, BookSound, SlotsSound
  <2>8. open = [i \in DOMAIN open |-> open[i]] /\ id \in DOMAIN open /\ open[id] = left
    BY <2>5 DEF OpenOf
  <2> HIDE DEF slot, stop, id, left
  <2>9. OpenOf(book') = Drop(open, id)
    BY <2>4, <2>6, <2>7, OpenButOne
  <2> HIDE DEF open
  <2>10. Put(Drop(open, id), id, left) = open
    <3>1. (DOMAIN open \ {id}) \cup {id} = DOMAIN open
      BY <2>8
    <3> QED BY <2>8, <3>1 DEF Put, Drop
  <2> QED BY <1>1, <2>3, <2>9, <2>10
<1> QED BY <1>2, <1>3

LEMMA EndStopsTold ==
  ASSUME Follows, EndStops
  PROVE  Told' = Belief'
<1>1. Belief' = OpenOf(book')
  BY CallAfter, BeliefThen DEF Follows
<1>2. book'.ids = book.ids /\ book'.arena = book.arena
  BY DEF EndStops, Follows, Inv, BookSound, BookTypeOK, IsBook
<1>3. Belief = OpenOf(book)
  BY DEF Belief, EndStops, Triggering, Matching, In
<1>4. Told' = Told
  BY ToldThen DEF Follows, EndStops
<1> QED BY <1>1, <1>2, <1>3, <1>4 DEF OpenOf, Follows

\* A trade takes from both orders what it reports.
CutBy(f, maker, taker, left, qty) == Put(Put(f, maker, f[maker] - qty), taker, left - qty)

LEMMA LearnsTrade ==
  ASSUME NEW a, NEW f, f = [i \in DOMAIN f |-> f[i]], NEW taker, taker \notin DOMAIN f,
         NEW maker \in DOMAIN f, NEW left, NEW price, NEW qty
  PROVE  /\ Learn(a, Put(f, taker, left), Trade(taker, maker, price, qty))
              = CutBy(f, maker, taker, left, qty)
         /\ CutBy(f, maker, taker, left, qty)[maker] = f[maker] - qty
         /\ Drop(CutBy(f, maker, taker, left, qty), maker)
              = Put(Drop(f, maker), taker, left - qty)
<1> DEFINE D    == DOMAIN f \cup {taker}
           open == Put(f, taker, left)
           cut  == CutBy(f, maker, taker, left, qty)
           e    == Trade(taker, maker, price, qty)
           new  == [i \in D |-> IF i \in {e.taker, e.maker} THEN open[i] - e.qty ELSE open[i]]
<1>1. DOMAIN open = D /\ taker # maker
  BY DEF Put
<1>2. Learn(a, open, e) = new
  BY <1>1 DEF Learn, Trade
<1>3. DOMAIN cut = D /\ cut = [i \in D |-> cut[i]]
  <2>1. (DOMAIN f \cup {maker}) \cup {taker} = D
    OBVIOUS
  <2> QED BY <2>1 DEF CutBy, Put
<1>4. \A i \in D : cut[i] = IF i = taker THEN left - qty
                            ELSE IF i = maker THEN f[i] - qty ELSE f[i]
  BY <1>1 DEF CutBy, Put
<1>5. \A i \in D : new[i] = IF i = taker THEN left - qty
                            ELSE IF i = maker THEN f[i] - qty ELSE f[i]
  BY <1>1 DEF Put, Trade
<1>6. new = cut
  <2>1. new = [i \in D |-> new[i]]
    OBVIOUS
  <2> HIDE DEF cut, new, D
  <2>2. \A i \in D : new[i] = cut[i]
    BY <1>4, <1>5
  <2> QED BY <1>3, <2>1, <2>2
<1>7. Drop(cut, maker) = Put(Drop(f, maker), taker, left - qty)
  <2> HIDE DEF cut
  <2>1. D \ {maker} = (DOMAIN f \ {maker}) \cup {taker}
    BY <1>1
  <2> QED BY <1>3, <1>4, <2>1 DEF Drop, Put
<1> QED BY <1>1, <1>2, <1>4, <1>6, <1>7

\* In a trade no order changes its size but the taker and the maker.
LEMMA TradeSizesStay ==
  ASSUME Follows, Matching, NEW price, FillMaker(price) \/ CutMaker(price)
  PROVE  SizesStay(book, book', book.arena[MakerAt(price)].id)
<1> DEFINE new   == Traded(price)
           maker == MakerAt(price)
           id    == book.arena[maker].id
<1>1. TradesAt(price)
  BY DEF FillMaker, CutMaker
<1>2. TradeDone(book.arena, new.arena, Top.slot, maker, TradeQty(price))
  BY <1>1, TradedLinks DEF Follows
<1>3. \A s \in DOMAIN book'.arena :
        s \in DOMAIN new.arena /\ book'.arena[s].remaining = new.arena[s].remaining
  <2>1. CASE FillMaker(price)
    <3>1. book'.arena = Drop(new.arena, maker)
      BY <2>1, FillMakerTotal DEF Follows
    <3> HIDE DEF new, maker
    <3> QED BY <3>1 DEF Drop
  <2>2. CASE CutMaker(price)
    <3>1. /\ DOMAIN book'.arena = DOMAIN new.arena
          /\ \A s \in DOMAIN new.arena : SameTerms(new.arena[s], book'.arena[s])
      BY <2>2, CutMakerTotal DEF Follows
    <3> QED BY <3>1 DEF SameTerms
  <2> QED BY <2>1, <2>2
<1>4. Taker.id \notin DOMAIN book.ids
  BY DEF Follows, Inv, TakerApart
<1> SUFFICES ASSUME NEW s \in DOMAIN book.arena, s \in DOMAIN book'.arena,
                    book.arena[s].id \in DOMAIN book.ids \ {id}
             PROVE  book'.arena[s].remaining = book.arena[s].remaining
  BY DEF SizesStay
<1>5. s # maker /\ s # Top.slot
  BY <1>4 DEF Taker
<1> HIDE DEF new, maker
<1>6. new.arena[s].remaining = book.arena[s].remaining
  BY <1>2, <1>5 DEF TradeDone
<1> QED BY <1>3, <1>6

LEMMA MatchTold ==
  ASSUME Follows, MatchStep
  PROVE  Told' = Belief'
<1>1. PICK price : Matching /\ (FillMaker(price) \/ CutMaker(price))
  BY DEF MatchStep
<1> DEFINE maker == MakerAt(price)
           qty   == TradeQty(price)
           id    == book.arena[maker].id
           taker == Taker.id
           left  == Taker.remaining
           open  == OpenOf(book)
           cut   == CutBy(open, id, taker, left, qty)
<1>2. TradesAt(price) /\ CountFill(price)
  BY <1>1 DEF FillMaker, CutMaker
<1>3. RestingMaker(maker, Other, price)
  BY <1>1, <1>2, MakerRests DEF Follows
<1>4. /\ id \in DOMAIN book.ids /\ book.ids[id].slot = maker
      /\ book.arena[maker].remaining \in Nat /\ qty \in Nat
  <2>1. OrdersSound(book, {Top.slot})
    BY <1>3 DEF RestingMaker, Follows, Whole
  <2>2. maker \in DOMAIN book.arena /\ maker \notin {Top.slot}
    BY <1>3 DEF RestingMaker
  <2>3. book.arena[maker].remaining \in Nat /\ qty \in Nat
    BY <1>1, <1>2, TradeSizes DEF Follows, Qty
  <2> HIDE DEF maker, qty
  <2> QED BY <2>1, <2>2, <2>3 DEF OrdersSound
<1>5. SizesAfter(maker, qty)
  BY <1>1, TradeLeaves DEF Follows
<1>6. Told = Put(open, taker, left) /\ taker \notin DOMAIN book.ids
  BY <1>1, TakerTold
<1>7. /\ open = [i \in DOMAIN open |-> open[i]] /\ taker \notin DOMAIN open
      /\ id \in DOMAIN open /\ open[id] = book.arena[maker].remaining
  BY <1>4, <1>6 DEF OpenOf
<1>8. Belief' = Put(OpenOf(book'), taker, left - qty)
  <2>1. stack' # <<>> /\ Top'.call = "match_order" /\ Top'.slot = Top.slot
    BY <1>1, <1>2, CallAfterTrade DEF Top, Follows
  <2>2. Top.slot \in DOMAIN book'.arena /\ book'.arena[Top.slot].remaining = left - qty
    BY <1>5 DEF SizesAfter
  <2>3. book'.arena[Top.slot].id = taker
    BY <1>1, <2>2, TradeRests DEF Follows, OthersRest, SameButSize, Taker
  <2> HIDE DEF taker, left, qty
  <2>4. Matching' /\ Taker'.id = taker /\ Taker'.remaining = left - qty
    BY <2>1, <2>2, <2>3 DEF Matching, In, Taker
  <2> QED BY <2>4 DEF Belief
<1>9. SizesStay(book, book', id) /\ IdsSound(book) /\ IdsSound(book')
  BY <1>1, TradeSizesStay DEF Follows, Inv, BookSound, SlotsSound
<1>10. TradeEvent(price) = Trade(taker, id, price, qty)
  BY DEF TradeEvent
<1> DEFINE trade == TradeEvent(price)
<1>11. /\ Learn(Asked, Told, trade) = cut /\ cut[id] = open[id] - qty
       /\ Drop(cut, id) = Put(Drop(open, id), taker, left - qty)
  <2> HIDE DEF open, taker, id, left, qty
  <2> QED BY <1>6, <1>7, <1>10, LearnsTrade
<1>12. CASE FillMaker(price)
  <2>1. Emit(<<trade, Filled(id)>>)
    BY <1>12 DEF FillMaker
  <2>2. book'.ids = Drop(book.ids, id)
    BY <1>1, <1>12, TradeIds DEF Follows
  <2>3. book.arena[maker].remaining = qty
    <3>1. maker \notin DOMAIN book'.arena
      <4>1. book'.arena = Drop(Traded(price).arena, maker)
        BY <1>1, <1>12, FillMakerTotal DEF Follows
      <4> HIDE DEF maker
      <4> QED BY <4>1 DEF Drop
    <3> QED BY <1>5, <3>1 DEF SizesAfter, Gives
  <2> HIDE DEF maker, qty, id, taker, left, open, cut, trade
  <2>4. OpenOf(book') = Drop(open, id)
    BY <1>9, <2>2, OpenButOne DEF open
  <2>5. cut[id] = 0
    BY <1>4, <1>7, <1>11, <2>3
  <2>6. Told' = Learn(Asked, Learn(Asked, Told, trade), Filled(id))
    BY <2>1, ToldThen DEF Follows
  <2>7. Told' = Drop(cut, id)
    BY <1>11, <2>5, <2>6, LearnsFilled
  <2> QED BY <1>8, <1>11, <2>4, <2>7
<1>13. CASE CutMaker(price)
  <2> DEFINE rest == Traded(price).arena[maker].remaining
  <2>1. Emit(<<trade, PartiallyFilled(id, qty, rest)>>)
    BY <1>13 DEF CutMaker
  <2>2. book'.ids = book.ids
    BY <1>1, <1>13, TradeIds DEF Follows
  <2>3. rest = book.arena[maker].remaining - qty
    BY <1>1, <1>2, TradeSizes DEF Follows
  <2>4. maker \in DOMAIN book'.arena
    <3>1. maker \in DOMAIN Traded(price).arena /\ DOMAIN book'.arena = DOMAIN Traded(price).arena
      BY <1>1, <1>13, CutMakerTotal DEF Follows
    <3> QED BY <3>1
  <2>5. book'.arena[maker].remaining = book.arena[maker].remaining - qty
    BY <1>5, <2>4 DEF SizesAfter, Gives
  <2> HIDE DEF maker, qty, id, taker, left, open, cut, trade, rest
  <2>6. OpenOf(book') = Put(open, id, open[id] - qty)
    BY <1>4, <1>7, <1>9, <2>2, <2>5, OpenButOne DEF open
  <2>7. Told' = Learn(Asked, Learn(Asked, Told, trade), PartiallyFilled(id, qty, rest))
    BY <2>1, ToldThen DEF Follows
  <2>8. Told' = cut
    BY <1>7, <1>11, <2>3, <2>7, LearnsPartlyFilled
  <2> QED BY <1>8, <2>6, <2>8 DEF cut, CutBy
<1> QED BY <1>1, <1>12, <1>13

LEMMA ApplyTold ==
  ASSUME Follows, Apply
  PROVE  Told' = Belief'
<1>1. CASE VisitStop
  <2>1. PICK p \in DOMAIN Top.todo : Triggering /\ (SkipStop(p) \/ FireStop(p)) /\ out' = out
    BY <1>1 DEF VisitStop, SkipStop, FireStop
  <2> QED BY <2>1, TriggerTold
<1> QED BY <1>1, RefusalTold, HoldStopTold, StartMatchTold, MatchTold, TakerGoneTold, RestTold,
           EndStopsTold DEF Apply

\* Only the first call of a command asks for what the command asked for.
LEMMA ApplyAsks ==
  ASSUME Inv, Whole(book, stack), cmd' = cmd, Apply
  PROVE  FirstAsked'
<1>1. CASE VisitStop
  <2>1. PICK p \in DOMAIN Top.todo : Triggering /\ (SkipStop(p) \/ FireStop(p))
    BY <1>1 DEF VisitStop
  <2>2. CASE SkipStop(p)
    BY <2>1, <2>2, CallAfterVisit DEF FirstAsked, In, Top
  <2>3. CASE FireStop(p)
    BY <2>1, <2>3, FiredIsNested DEF FirstAsked
  <2> QED BY <2>1, <2>2, <2>3
<1>2. CASE MatchStep
  <2>1. PICK price : Matching /\ TradesAt(price) /\ CountFill(price)
    BY <1>2 DEF MatchStep, FillMaker, CutMaker
  <2> QED BY <2>1, CallAfterTrade DEF FirstAsked, In, Top
<1>3. CASE StartMatch
  <2>1. stack' # <<>> /\ Top' = MatchOrder(VacantSlot(book), 0)
    BY <1>3, CallAfter DEF Top
  <2> QED BY <2>1 DEF FirstAsked, In, MatchOrder
<1>4. CASE ~VisitStop /\ ~MatchStep /\ ~StartMatch
  <2>1. ThenTriggers
    BY <1>4, CallAfter DEF Apply
  <2> QED BY <2>1 DEF ThenTriggers, FirstAsked, In, Top
<1> QED BY <1>1, <1>2, <1>3, <1>4

LEMMA WithoutIds ==
  ASSUME BookSound(book), NEW id \in DOMAIN book.ids
  PROVE  Without(id).ids = Drop(book.ids, id)
<1> DEFINE loc  == book.ids[id]
           qty  == book.arena[loc.slot].remaining
           gone == IndexRemove(book, id)
           cut  == RemoveSlot(gone, loc.slot, loc.side, loc.price, qty)
<1>1. /\ id \in OrderId /\ loc.slot \in Slot /\ loc.side \in Side /\ loc.price \in Price
      /\ loc.slot \in DOMAIN book.arena /\ qty \in Qty
  <2>1. IsMap(book.ids, OrderId, Location) /\ IsMap(book.arena, Slot, Order) /\ IdsSound(book)
    BY DEF BookSound, BookTypeOK, SlotsSound
  <2>2. id \in OrderId /\ loc \in Location
    BY <2>1 DEF IsMap
  <2>3. loc.slot \in DOMAIN book.arena
    BY <2>1 DEF IdsSound
  <2>4. book.arena[loc.slot] \in Order
    BY <2>1, <2>3 DEF IsMap
  <2> QED BY <2>2, <2>3, <2>4 DEF Location, Order
<1>2. BookTypeOK(gone) /\ gone.arena = book.arena /\ gone.ids = Drop(book.ids, id)
  BY <1>1, IndexType DEF BookSound
<1>3. Without(id) = ArenaRemove(cut, loc.slot)
  BY DEF Without
<1> HIDE DEF gone
<1>4. loc.slot \in DOMAIN gone.arena
  BY <1>1, <1>2
<1> HIDE DEF loc, qty
<1>5. BookTypeOK(cut) /\ SameOrders(gone, cut)
  BY <1>1, <1>2, <1>4, RemoveSlotSound
<1> HIDE DEF cut
<1>6. ArenaRemove(cut, loc.slot).ids = cut.ids
  BY <1>1, <1>5, ArenaRemoveType
<1> QED BY <1>2, <1>3, <1>5, <1>6 DEF SameOrders

LEMMA WithoutOpen ==
  ASSUME Inv, Inv', Whole(book, stack), Tame, NEW c \in Commands, Cancel(c) \/ Replace(c),
         c.id \in DOMAIN book.ids, book' = Without(c.id)
  PROVE  OpenOf(book') = Drop(OpenOf(book), c.id)
<1>1. stack = <<>> /\ c.id \notin StopIdentifiers
  BY DEF Cancel, Replace, Idle, Tame
<1>2. FewerOrders(book, book')
  BY <1>1, WithoutWhole
<1>3. SizesStay(book, book', c.id)
  BY <1>2 DEF SizesStay, FewerOrders, SameTerms
<1>4. IdsSound(book) /\ IdsSound(book') /\ book'.ids = Drop(book.ids, c.id)
  BY WithoutIds DEF Inv, BookSound, SlotsSound
<1> QED BY <1>3, <1>4, OpenButOne

\* What a command that is refused, or that takes an order out, tells the client.
LEMMA ReceiveTold ==
  ASSUME Inv, Inv', Whole(book, stack), Tame, Recorded, feed' = feed,
         out = <<>>, Told = Belief, NEW c \in Commands, New(c) \/ Cancel(c) \/ Replace(c)
  PROVE  Told' = Belief' /\ FirstAsked'
<1>1. stack = <<>> /\ cmd' = c
  BY DEF New, Cancel, Replace, Refuse, Idle
<1>2. feed = OpenOf(book)
  <2>1. Told = feed
    BY HeardNone DEF Told
  <2>2. Belief = OpenOf(book)
    BY <1>1 DEF Belief, Matching, In
  <2> QED BY <2>1, <2>2
<1> DEFINE open  == OpenOf(book)
           asked == Asked'
<1>3. /\ out' = <<>> => Told' = open
      /\ \A x : Emit(<<x>>) => Told' = Learn(asked, open, x)
  <2>1. Told' = Heard(asked, open, out')
    BY <1>2 DEF Told
  <2>2. <<>> \in Seq({})
    OBVIOUS
  <2> HIDE DEF asked, open
  <2>3. \A x : <<>> \o <<x>> = Append(<<>>, x)
    BY <2>2, NoneOrTwo
  <2>4. Heard(asked, open, <<>>) = open
    BY HeardNone
  <2>5. ASSUME NEW x
        PROVE  Heard(asked, open, Append(<<>>, x)) = Learn(asked, open, x)
    <3>1. \A o \in Seq({}) :
            Heard(asked, open, Append(o, x)) = Learn(asked, Heard(asked, open, o), x)
      BY HeardOne
    <3> QED BY Zenon, <2>2, <2>4, <3>1
  <2> QED BY <2>1, <2>3, <2>4, <2>5 DEF Emit
<1>4. ASSUME stack' = <<>>
      PROVE  Belief' = OpenOf(book') /\ FirstAsked'
  BY <1>4 DEF Belief, FirstAsked, Matching, In
<1>5. ASSUME NEW no, stack' = <<ApplyNew(no)>>, no.qty = asked
      PROVE  Belief' = OpenOf(book') /\ FirstAsked'
  <2>1. Len(stack') = 1 /\ Top' = ApplyNew(no)
    BY <1>5 DEF Top
  <2> QED BY <1>5, <2>1 DEF Belief, FirstAsked, Matching, In, ApplyNew
<1>6. ASSUME NEW why, why # "FokUnfillable", Refuse(c, why)
      PROVE  Told' = Belief' /\ FirstAsked'
  <2>1. Told' = Learn(asked, open, Rejected(c.id, why)) /\ book' = book /\ stack' = <<>>
    BY <1>1, <1>3, <1>6 DEF Refuse
  <2> HIDE DEF asked
  <2>2. Told' = open
    BY <1>6, <2>1, LearnsRejected
  <2> QED BY <1>4, <2>1, <2>2
<1>7. CASE New(c)
  <2>1. /\ stack' = <<ApplyNew(c.order)>> /\ out' = <<>> /\ book' = book
        /\ c.order.qty = asked
    BY <1>1, <1>7 DEF New, Asked
  <2> QED BY <1>3, <1>5, <2>1
<1>8. CASE Cancel(c)
  <2>1. CASE Refuse(c, "UnknownId")
    BY <1>6, <2>1
  <2>2. CASE ~Refuse(c, "UnknownId")
    <3>1. /\ c.id \in DOMAIN book.ids /\ book' = Without(c.id) /\ Emit(<<Cancelled(c.id)>>)
          /\ stack' = <<>>
      BY <1>1, <1>8, <2>2 DEF Cancel
    <3>2. OpenOf(book') = Drop(open, c.id)
      BY <1>8, <3>1, WithoutOpen
    <3> HIDE DEF asked, open
    <3>3. Told' = Drop(open, c.id)
      BY <1>3, <3>1, LearnsGone
    <3> QED BY <1>4, <3>1, <3>2, <3>3
  <2> QED BY <2>1, <2>2
<1>9. CASE Replace(c)
  <2>1. CASE Refuse(c, "UnknownId") \/ Refuse(c, "ZeroQty")
    BY <1>6, <2>1
  <2>2. CASE ~Refuse(c, "UnknownId") /\ ~Refuse(c, "ZeroQty")
    <3>1. /\ c.id \in DOMAIN book.ids /\ book' = Without(c.id) /\ Emit(<<Replaced(c.id)>>)
          /\ \E no : stack' = <<ApplyNew(no)>> /\ no.qty = c.new_qty
      BY <1>9, <2>2 DEF Replace
    <3>2. c.new_qty = asked
      BY <1>1, <1>9 DEF Asked, Replace
    <3>3. OpenOf(book') = Drop(open, c.id)
      BY <1>9, <3>1, WithoutOpen
    <3> HIDE DEF asked, open
    <3>4. Told' = Drop(open, c.id)
      BY <1>3, <3>1, LearnsGone
    <3> QED BY <1>5, <3>1, <3>2, <3>3, <3>4
  <2> QED BY <2>1, <2>2
<1> QED BY <1>7, <1>8, <1>9

\* The client follows the book through every step of a command.
Informed ==
  /\ Recorded
  /\ cmd = None => stack = <<>> /\ out = <<>>
  /\ FirstAsked
  /\ Told = Belief

LEMMA StepInforms ==
  ASSUME Inv, Inv', Whole(book, stack), StopsWait(book, stack, cmd), Tame,
         Informed, [FeedNext]_feedVars
  PROVE  Informed'
<1>1. Recorded'
  <2>1. [Next]_vars
    BY DEF FeedNext, feedVars, Next
  <2> QED BY <2>1, StepRecords DEF Informed
<1>2. CASE Deliver /\ Hear
  <2>1. stack = <<>> /\ stack' = <<>> /\ out' = <<>> /\ book' = book
    BY <1>2 DEF Deliver
  <2>2. feed' = Told
    BY <1>2 DEF Hear, Told
  <2>3. Belief = OpenOf(book) /\ Belief' = OpenOf(book) /\ FirstAsked'
    BY <2>1 DEF Belief, FirstAsked, Matching, In
  <2>4. Told' = feed'
    <3>1. Told' = Heard(Asked', feed', <<>>)
      BY <2>1 DEF Told
    <3> QED BY <3>1, HeardNone
  <2> QED BY <1>1, <2>1, <2>2, <2>3, <2>4 DEF Informed
<1>3. CASE UNCHANGED feedVars
  <2>1. book' = book /\ stack' = stack /\ out' = out /\ cmd' = cmd /\ feed' = feed
    BY <1>3 DEF feedVars, vars
  <2>2. Asked' = Asked
    BY <2>1 DEF Asked
  <2>3. Told' = Told
    BY <2>1, <2>2 DEF Told
  <2>4. Belief' = Belief /\ (FirstAsked => FirstAsked')
    BY <2>1, <2>2 DEF Belief, FirstAsked, Matching, In, Top, Taker
  <2> QED BY <1>1, <2>1, <2>3, <2>4 DEF Informed
<1>4. CASE Receive /\ feed' = feed
  <2>1. PICK c \in Commands : New(c) \/ Cancel(c) \/ Replace(c)
    BY <1>4 DEF Receive
  <2>2. cmd' = c /\ cmd' # None /\ cmd = None
    BY <2>1, NoCommandAssumption DEF New, Cancel, Replace, Refuse, Idle
  <2>3. Told' = Belief' /\ FirstAsked'
    BY <1>4, <2>1, <2>2, ReceiveTold DEF Informed
  <2> QED BY <1>1, <2>2, <2>3 DEF Informed
<1>5. CASE Apply /\ feed' = feed
  <2>1. cmd' = cmd /\ cmd # None
    BY <1>5, ApplyInCall DEF Informed
  <2>2. Follows
    BY <1>5, <2>1 DEF Follows, Informed
  <2>3. Told' = Belief'
    BY <1>5, <2>2, ApplyTold
  <2>4. FirstAsked'
    BY <1>5, <2>1, ApplyAsks
  <2> QED BY <1>1, <2>1, <2>3, <2>4 DEF Informed
<1> QED BY <1>2, <1>3, <1>4, <1>5 DEF FeedNext

\* The events tell of every fill, cancel, replace, refusal and trigger once and
\* in a usable order: whoever rebuilds the open orders from them alone has, when
\* a command is done, those of the id index with the quantities of the arena.
THEOREM FeedAlwaysMatches ==
  ASSUME Tame
  PROVE  FeedSpec => []FeedMatchesBook
<1>1. FeedInit => Init /\ Informed
  <2> SUFFICES ASSUME FeedInit
               PROVE  Init /\ Informed
    OBVIOUS
  <2>1. book = EmptyBook /\ stack = <<>> /\ out = <<>> /\ cmd = None /\ feed = <<>>
    BY DEF FeedInit, Init
  <2>2. Told = feed
    BY <2>1, HeardNone DEF Told
  <2>3. Belief = OpenOf(book) /\ FirstAsked
    BY <2>1 DEF Belief, FirstAsked, Matching, In
  <2>4. OpenOf(book) = <<>>
    <3>1. DOMAIN book.ids = {}
      BY <2>1 DEF EmptyBook
    <3> QED BY <3>1 DEF OpenOf
  <2>5. out \in Seq({})
    BY <2>1
  <2> QED BY <2>1, <2>2, <2>3, <2>4, <2>5 DEF FeedInit, Informed, Recorded
<1>2. [FeedNext]_feedVars => [Next]_vars
  BY DEF FeedNext, feedVars, Next
<1>3. /\ Inv /\ Whole(book, stack) /\ (Inv /\ Whole(book, stack))'
      /\ StopsWait(book, stack, cmd) /\ Informed /\ [FeedNext]_feedVars
      => Informed'
  BY StepInforms
<1>4. Informed => FeedMatchesBook
  <2> SUFFICES ASSUME Informed, Idle
               PROVE  feed = OpenOf(book)
    BY DEF FeedMatchesBook, OpenOf
  <2>1. stack = <<>> /\ out = <<>>
    BY DEF Idle, Informed
  <2>2. Told = feed
    BY <2>1, HeardNone DEF Told
  <2>3. Belief = OpenOf(book)
    BY <2>1 DEF Belief, Matching, In
  <2> QED BY <2>2, <2>3 DEF Informed
<1> QED BY <1>1, <1>2, <1>3, <1>4, WholeHolds, StopsWaitHolds, PTL DEF FeedSpec, Spec

===============================================================================
