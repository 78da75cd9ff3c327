---------------------------- MODULE MatcherProofs ----------------------------
(***************************************************************************)
(* The order book and the matcher, for every set of ids, every set of      *)
(* commands, every word width and every stack depth: each operation of the *)
(* book and each action of the matcher.                                    *)
(***************************************************************************)
EXTENDS Matcher, SequenceTheorems, TLAPS

USE NoneAssumption, QtyModAssumption

(***************************************************************************)
(* The operations of the order book: each keeps the book's shape, and says *)
(* which part of the book it leaves alone.                                 *)
(***************************************************************************)

(***************************************************************************)
(* Maps and words.                                                         *)
(***************************************************************************)

\* What Put, Keep and Drop do to the domain and the values of a map.
LEMMA PutLemma ==
  ASSUME NEW D, NEW R, NEW map, IsMap(map, D, R), NEW k \in D, NEW v \in R
  PROVE  /\ IsMap(Put(map, k, v), D, R)
         /\ DOMAIN Put(map, k, v) = DOMAIN map \cup {k}
         /\ Put(map, k, v)[k] = v
         /\ \A j \in DOMAIN map : j # k => Put(map, k, v)[j] = map[j]
BY DEF IsMap, Put

LEMMA KeepLemma ==
  ASSUME NEW D, NEW R, NEW map, IsMap(map, D, R), NEW S
  PROVE  /\ IsMap(Keep(map, S), D, R)
         /\ DOMAIN Keep(map, S) = DOMAIN map \cap S
         /\ \A j \in DOMAIN map \cap S : Keep(map, S)[j] = map[j]
BY DEF IsMap, Keep

LEMMA DropLemma ==
  ASSUME NEW D, NEW R, NEW map, IsMap(map, D, R), NEW k
  PROVE  /\ IsMap(Drop(map, k), D, R)
         /\ DOMAIN Drop(map, k) = DOMAIN map \ {k}
         /\ \A j \in DOMAIN map \ {k} : Drop(map, k)[j] = map[j]
BY DEF IsMap, Drop

\* Word arithmetic stays within the word.
LEMMA WordLemma ==
  ASSUME NEW m \in Qty, NEW n \in Qty
  PROVE  Plus(m, n) \in Qty /\ Minus(m, n) \in Qty /\ SaturatingSub(m, n) \in Qty
         /\ Least(m, n) \in Qty
BY DEF Qty, Plus, Minus, SaturatingSub, Least

(***************************************************************************)
(* The operations of the book keep its shape.                              *)
(***************************************************************************)

LEMMA EmptyBookType == BookTypeOK(EmptyBook)
BY DEF EmptyBook, BookTypeOK, IsBook, IsMap, Optional, Side

LEMMA ArenaInsertType ==
  ASSUME NEW b, BookTypeOK(b), NEW order \in Order
  PROVE  /\ BookTypeOK(ArenaInsert(b, order))
         /\ VacantSlot(b) \in Slot
         /\ ArenaInsert(b, order).levels = b.levels
         /\ ArenaInsert(b, order).ids = b.ids
         /\ ArenaInsert(b, order).arena = Put(b.arena, VacantSlot(b), order)
<1>1. VacantSlot(b) \in Slot
  BY DEF BookTypeOK, VacantSlot, Slot
<1>2. IsMap(Put(b.arena, VacantSlot(b), order), Slot, Order)
  BY <1>1, PutLemma DEF BookTypeOK
<1>3. (IF b.vacant = <<>> THEN <<>> ELSE Tail(b.vacant)) \in Seq(Slot)
  BY DEF BookTypeOK
<1>4. (IF b.vacant = <<>> THEN b.slots + 1 ELSE b.slots) \in Nat
  BY DEF BookTypeOK
<1> QED BY <1>1, <1>2, <1>3, <1>4 DEF BookTypeOK, IsBook, ArenaInsert

LEMMA ArenaRemoveType ==
  ASSUME NEW b, BookTypeOK(b), NEW slot \in Slot
  PROVE  /\ BookTypeOK(ArenaRemove(b, slot))
         /\ ArenaRemove(b, slot).levels = b.levels
         /\ ArenaRemove(b, slot).ids = b.ids
         /\ ArenaRemove(b, slot).arena = Drop(b.arena, slot)
<1>1. IsMap(Drop(b.arena, slot), Slot, Order)
  BY DropLemma DEF BookTypeOK
<1>2. <<slot>> \o b.vacant \in Seq(Slot)
  BY DEF BookTypeOK
<1> QED BY <1>1, <1>2 DEF BookTypeOK, IsBook, ArenaRemove

LEMMA IndexType ==
  ASSUME NEW b, BookTypeOK(b), NEW id \in OrderId
  PROVE  /\ BookTypeOK(IndexRemove(b, id))
         /\ IndexRemove(b, id).levels = b.levels
         /\ IndexRemove(b, id).arena = b.arena
         /\ IndexRemove(b, id).ids = Drop(b.ids, id)
         /\ \A loc \in Location :
              /\ BookTypeOK(IndexInsert(b, id, loc))
              /\ IndexInsert(b, id, loc).levels = b.levels
              /\ IndexInsert(b, id, loc).arena = b.arena
              /\ IndexInsert(b, id, loc).ids = Put(b.ids, id, loc)
<1>1. IsMap(Drop(b.ids, id), OrderId, Location)
  BY DropLemma DEF BookTypeOK
<1>2. \A loc \in Location : IsMap(Put(b.ids, id, loc), OrderId, Location)
  BY PutLemma DEF BookTypeOK
<1> QED BY <1>1, <1>2 DEF BookTypeOK, IsBook, IndexInsert, IndexRemove

\* The same orders in the same slots: what an operation on levels leaves alone.
SameOrders(b, c) ==
  /\ c.ids = b.ids /\ c.vacant = b.vacant /\ c.slots = b.slots
  /\ c.stops = b.stops /\ c.last = b.last
  /\ DOMAIN c.arena = DOMAIN b.arena
  /\ \A s \in DOMAIN b.arena : /\ c.arena[s].id = b.arena[s].id
                              /\ c.arena[s].side = b.arena[s].side
                              /\ c.arena[s].price = b.arena[s].price
                              /\ c.arena[s].kind = b.arena[s].kind

\* Two arenas that differ in links only.
SameButLinks(a1, a2) ==
  /\ DOMAIN a2 = DOMAIN a1
  /\ \A s \in DOMAIN a1 : /\ a2[s].id = a1[s].id /\ a2[s].side = a1[s].side
                         /\ a2[s].price = a1[s].price /\ a2[s].kind = a1[s].kind
                         /\ a2[s].remaining = a1[s].remaining

LEMMA SetLevelType ==
  ASSUME NEW b, BookTypeOK(b), NEW side \in Side, NEW price \in Price, NEW level \in Level
  PROVE  /\ BookTypeOK(SetLevel(b, side, price, level))
         /\ SetLevel(b, side, price, level).arena = b.arena
         /\ SameOrders(b, SetLevel(b, side, price, level))
         /\ SetLevel(b, side, price, level).levels
              = [b.levels EXCEPT ![side] = Put(@, price, level)]
<1>1. IsMap(Put(b.levels[side], price, level), Price, Level)
  BY PutLemma DEF BookTypeOK
<1> QED BY <1>1 DEF BookTypeOK, IsBook, SetLevel, SameOrders

LEMMA DropLevelType ==
  ASSUME NEW b, BookTypeOK(b), NEW side \in Side, NEW price
  PROVE  /\ BookTypeOK(DropLevel(b, side, price))
         /\ DropLevel(b, side, price).arena = b.arena
         /\ SameOrders(b, DropLevel(b, side, price))
         /\ DropLevel(b, side, price).levels = [b.levels EXCEPT ![side] = Drop(@, price)]
<1>1. IsMap(Drop(b.levels[side], price), Price, Level)
  BY DropLemma DEF BookTypeOK
<1> QED BY <1>1 DEF BookTypeOK, IsBook, DropLevel, SameOrders


LEMMA HoldStopType ==
  ASSUME NEW b, BookTypeOK(b), NEW side \in Side, NEW trigger \in Price, NEW slot \in Slot
  PROVE  /\ BookTypeOK(HoldStopAt(b, side, trigger, slot))
         /\ HoldStopAt(b, side, trigger, slot).levels = b.levels
         /\ HoldStopAt(b, side, trigger, slot).arena = b.arena
         /\ HoldStopAt(b, side, trigger, slot).ids = b.ids
<1> DEFINE held  == IF trigger \in DOMAIN b.stops[side] THEN b.stops[side][trigger] ELSE <<>>
           lists == Put(b.stops[side], trigger, Append(held, slot))
<1>1. held \in Seq(Slot)
  <2>1. IsMap(b.stops[side], Price, Seq(Slot) \ {<<>>})
    BY DEF BookTypeOK
  <2>2. trigger \in DOMAIN b.stops[side] => b.stops[side][trigger] \in Seq(Slot)
    BY <2>1 DEF IsMap
  <2> QED BY <2>2, EmptySeq
<1>2. Append(held, slot) \in Seq(Slot) \ {<<>>}
  BY <1>1, AppendProperties
<1>3. IsMap(lists, Price, Seq(Slot) \ {<<>>})
  BY <1>2, PutLemma DEF BookTypeOK
<1>4. HoldStopAt(b, side, trigger, slot) = [b EXCEPT !.stops[side] = lists]
  BY DEF HoldStopAt
<1> HIDE DEF lists
<1> QED BY <1>3, <1>4 DEF BookTypeOK, IsBook

LEMMA KeepStopsType ==
  ASSUME NEW b, BookTypeOK(b), NEW side \in Side, NEW S
  PROVE  LET new == [b EXCEPT !.stops[side] = Keep(@, S)]
         IN  /\ BookTypeOK(new) /\ new.levels = b.levels /\ new.arena = b.arena
             /\ new.ids = b.ids /\ new.vacant = b.vacant /\ new.slots = b.slots
<1>1. IsMap(Keep(b.stops[side], S), Price, Seq(Slot) \ {<<>>})
  <2>1. IsMap(b.stops[side], Price, Seq(Slot) \ {<<>>})
    BY DEF BookTypeOK
  <2> QED BY <2>1, KeepLemma
<1> QED BY <1>1 DEF BookTypeOK, IsBook

LEMMA EmptyLevelType == EmptyLevel \in Level
BY DEF EmptyLevel, Level, Optional, Qty

LEMMA LevelAtType ==
  ASSUME NEW b, BookTypeOK(b), NEW side \in Side, NEW price
  PROVE  LevelAt(b, side, price) \in Level
BY EmptyLevelType DEF LevelAt, BookTypeOK, IsMap

\* Rewriting the links of orders keeps the arena a map of orders.
LEMMA LinkType ==
  ASSUME NEW arena, IsMap(arena, Slot, Order), NEW ref, NEW link \in Optional(Slot)
  PROVE  /\ IsMap(SetNext(arena, ref, link), Slot, Order)
         /\ IsMap(SetPrev(arena, ref, link), Slot, Order)
         /\ SameButLinks(arena, SetNext(arena, ref, link))
         /\ SameButLinks(arena, SetPrev(arena, ref, link))
<1> DEFINE same(o, n) == /\ n \in Order
                         /\ n.id = o.id /\ n.side = o.side /\ n.price = o.price
                         /\ n.kind = o.kind /\ n.remaining = o.remaining
<1>1. CASE ref \notin DOMAIN arena
  <2>1. SetNext(arena, ref, link) = arena /\ SetPrev(arena, ref, link) = arena
    BY <1>1 DEF SetNext, SetPrev, IsMap
  <2> QED BY <2>1 DEF SameButLinks
<1>2. CASE ref \in DOMAIN arena
  <2>1. ref # None /\ arena[ref] \in Order
    BY <1>2 DEF IsMap, Slot
  <2>2. /\ same(arena[ref], [arena[ref] EXCEPT !.next = link])
        /\ same(arena[ref], [arena[ref] EXCEPT !.prev = link])
    BY <2>1 DEF Order
  <2>3. /\ SetNext(arena, ref, link)
              = [arena EXCEPT ![ref] = [arena[ref] EXCEPT !.next = link]]
        /\ SetPrev(arena, ref, link)
              = [arena EXCEPT ![ref] = [arena[ref] EXCEPT !.prev = link]]
    BY <2>1 DEF SetNext, SetPrev
  <2> QED BY <1>2, <2>2, <2>3 DEF IsMap, SameButLinks
<1> QED BY <1>1, <1>2

LEMMA SameTransitive ==
  ASSUME NEW a1, NEW a2, NEW a3, SameButLinks(a1, a2), SameButLinks(a2, a3)
  PROVE  SameButLinks(a1, a3)
BY DEF SameButLinks

LEMMA SetArenaType ==
  ASSUME NEW b, BookTypeOK(b), NEW arena, IsMap(arena, Slot, Order)
  PROVE  /\ BookTypeOK([b EXCEPT !.arena = arena])
         /\ [b EXCEPT !.arena = arena].arena = arena
         /\ [b EXCEPT !.arena = arena].levels = b.levels
         /\ SameButLinks(b.arena, arena) => SameOrders(b, [b EXCEPT !.arena = arena])
BY DEF BookTypeOK, IsBook, SameOrders, SameButLinks

LEMMA PushBackType ==
  ASSUME NEW level \in Level, NEW slot \in Slot, NEW qty \in Qty
  PROVE  /\ PushBack(level, slot, qty) \in Level
         /\ level.head # None \/ level.tail = None => PushBack(level, slot, qty).head # None
BY WordLemma DEF PushBack, Level, Optional, Slot

LEMMA InsertRestingType ==
  ASSUME NEW b, BookTypeOK(b), NEW slot \in DOMAIN b.arena
  PROVE  LET o == b.arena[slot]
             level == LevelAt(b, o.side, o.price)
             new == InsertResting(b, slot)
         IN  /\ BookTypeOK(new) /\ SameOrders(b, new)
             /\ new.levels
                  = [b.levels EXCEPT ![o.side] = Put(@, o.price, PushBack(level, slot, o.remaining))]
<1> DEFINE o     == b.arena[slot]
           level == LevelAt(b, o.side, o.price)
           wired == [b.arena EXCEPT ![slot].prev = level.tail, ![slot].next = None]
           arena == SetNext(wired, level.tail, slot)
           set   == SetLevel(b, o.side, o.price, PushBack(level, slot, o.remaining))
<1>1. o \in Order /\ slot \in Slot
  BY DEF BookTypeOK, IsMap
<1>2. o.side \in Side /\ o.price \in Price /\ o.remaining \in Qty
  BY <1>1 DEF Order
<1>3. level \in Level /\ level.tail \in Optional(Slot)
  BY <1>2, LevelAtType DEF Level
<1>4. IsMap(b.arena, Slot, Order) /\ None \in Optional(Slot)
  BY DEF BookTypeOK, Optional
<1>5. IsMap(wired, Slot, Order) /\ SameButLinks(b.arena, wired)
  <2> DEFINE half == SetPrev(b.arena, slot, level.tail)
  <2>1. wired = SetNext(half, slot, None)
    BY <1>1 DEF SetNext, SetPrev, Slot
  <2>2. IsMap(half, Slot, Order) /\ SameButLinks(b.arena, half)
    BY <1>3, <1>4, LinkType
  <2> HIDE DEF half, wired
  <2>3. IsMap(wired, Slot, Order) /\ SameButLinks(half, wired)
    BY <1>4, <2>1, <2>2, LinkType
  <2> QED BY <2>2, <2>3, SameTransitive
<1>6. IsMap(arena, Slot, Order) /\ SameButLinks(b.arena, arena)
  <2> HIDE DEF wired
  <2>1. slot \in Optional(Slot)
    BY <1>1 DEF Optional
  <2>2. IsMap(arena, Slot, Order) /\ SameButLinks(wired, arena)
    BY <1>5, <2>1, LinkType
  <2> QED BY <1>5, <2>2, SameTransitive
<1>7. PushBack(level, slot, o.remaining) \in Level
  BY <1>1, <1>2, <1>3, PushBackType
<1>8. /\ BookTypeOK(set) /\ set.arena = b.arena /\ SameOrders(b, set)
      /\ set.levels = [b.levels EXCEPT ![o.side] =
                         Put(@, o.price, PushBack(level, slot, o.remaining))]
  BY <1>2, <1>7, SetLevelType
<1>9. InsertResting(b, slot) = [set EXCEPT !.arena = arena]
  BY DEF InsertResting
<1> HIDE DEF arena, set, level, wired
<1>10. /\ BookTypeOK([set EXCEPT !.arena = arena])
       /\ [set EXCEPT !.arena = arena].levels = set.levels
       /\ SameOrders(set, [set EXCEPT !.arena = arena])
  BY <1>6, <1>8, SetArenaType
<1> QED BY <1>8, <1>9, <1>10 DEF SameOrders, level


LEMMA PopHeadType ==
  ASSUME NEW b, BookTypeOK(b), NEW side \in Side, NEW price \in DOMAIN b.levels[side],
         b.levels[side][price].head \in DOMAIN b.arena
  PROVE  LET new == PopHead(b, side, price)
         IN  /\ BookTypeOK(new) /\ SameOrders(b, new)
             /\ SameButLinks(b.arena, new.arena)
             /\ \E level \in Level : new.levels = [b.levels EXCEPT ![side] = Put(@, price, level)]
<1> DEFINE level == b.levels[side][price]
           head  == b.arena[level.head]
           left  == [head  |-> head.next,
                     tail  |-> IF head.next = None THEN None ELSE level.tail,
                     total |-> SaturatingSub(level.total, head.remaining)]
           arena == SetPrev(b.arena, head.next, None)
           set   == SetLevel(b, side, price, left)
<1>1. level \in Level /\ price \in Price
  BY DEF BookTypeOK, IsMap
<1>2. head \in Order
  BY DEF BookTypeOK, IsMap
<1>3. left \in Level
  BY <1>1, <1>2, WordLemma DEF Level, Order, Optional
<1> HIDE DEF left
<1>4. /\ BookTypeOK(set) /\ set.arena = b.arena /\ SameOrders(b, set)
      /\ set.levels = [b.levels EXCEPT ![side] = Put(@, price, left)]
  BY <1>1, <1>3, SetLevelType
<1>5. IsMap(arena, Slot, Order) /\ SameButLinks(b.arena, arena)
  BY LinkType DEF BookTypeOK, Optional
<1>6. PopHead(b, side, price) = [set EXCEPT !.arena = arena]
  BY <1>4 DEF PopHead, left
<1> HIDE DEF arena, set
<1>7. /\ BookTypeOK([set EXCEPT !.arena = arena])
      /\ [set EXCEPT !.arena = arena].levels = set.levels
      /\ [set EXCEPT !.arena = arena].arena = arena
      /\ SameOrders(set, [set EXCEPT !.arena = arena])
  BY <1>4, <1>5, SetArenaType
<1> QED BY <1>3, <1>4, <1>5, <1>6, <1>7 DEF SameOrders

LEMMA RemoveEmptyType ==
  ASSUME NEW b, BookTypeOK(b), NEW side \in Side, NEW price
  PROVE  LET new == RemoveEmpty(b, side, price)
         IN  /\ BookTypeOK(new) /\ SameOrders(b, new) /\ new.arena = b.arena
             /\ new.levels \in {b.levels, [b.levels EXCEPT ![side] = Drop(@, price)]}
             /\ (price \in DOMAIN b.levels[side] /\ b.levels[side][price].head = None)
                   => new.levels = [b.levels EXCEPT ![side] = Drop(@, price)]
<1>1. CASE LevelAt(b, side, price).head = None
  BY <1>1, DropLevelType DEF RemoveEmpty
<1>2. CASE LevelAt(b, side, price).head # None
  <2>1. RemoveEmpty(b, side, price) = b
    BY <1>2 DEF RemoveEmpty
  <2> QED BY <1>2, <2>1 DEF LevelAt, SameOrders
<1> QED BY <1>1, <1>2

LEMMA ReinsertAtHeadType ==
  ASSUME NEW b, BookTypeOK(b), NEW side \in Side, NEW price \in Price,
         NEW slot \in DOMAIN b.arena
  PROVE  LET new == ReinsertAtHead(b, slot, side, price)
         IN  /\ BookTypeOK(new) /\ SameOrders(b, new)
             /\ \E level \in Level :
                  level.head # None /\ new.levels = [b.levels EXCEPT ![side] = Put(@, price, level)]
<1> DEFINE level == LevelAt(b, side, price)
           wired == [b.arena EXCEPT ![slot].prev = None, ![slot].next = level.head]
           arena == SetPrev(wired, level.head, slot)
           full  == [head  |-> slot,
                     tail  |-> IF level.tail = None THEN slot ELSE level.tail,
                     total |-> Plus(level.total, b.arena[slot].remaining)]
           set   == SetLevel(b, side, price, full)
<1>1. slot \in Slot /\ b.arena[slot] \in Order /\ IsMap(b.arena, Slot, Order)
  BY DEF BookTypeOK, IsMap
<1>2. level \in Level
  BY LevelAtType
<1>3. full \in Level /\ full.head # None
  BY <1>1, <1>2, WordLemma DEF Level, Order, Optional, Slot
<1>4. IsMap(wired, Slot, Order) /\ SameButLinks(b.arena, wired)
  <2> DEFINE half == SetPrev(b.arena, slot, None)
  <2>1. None \in Optional(Slot) /\ level.head \in Optional(Slot)
    BY <1>2 DEF Level, Optional
  <2>2. IsMap(half, Slot, Order) /\ SameButLinks(b.arena, half)
    BY <1>1, <2>1, LinkType
  <2>3. wired = SetNext(half, slot, level.head)
    BY <1>1 DEF SetNext, SetPrev, Slot
  <2> HIDE DEF half, wired
  <2>4. IsMap(wired, Slot, Order) /\ SameButLinks(half, wired)
    BY <2>1, <2>2, <2>3, LinkType
  <2> QED BY <2>2, <2>4, SameTransitive
<1> HIDE DEF wired, full, level
<1>5. IsMap(arena, Slot, Order) /\ SameButLinks(b.arena, arena)
  <2>1. slot \in Optional(Slot)
    BY <1>1 DEF Optional
  <2>2. IsMap(arena, Slot, Order) /\ SameButLinks(wired, arena)
    BY <1>4, <2>1, LinkType
  <2> QED BY <1>4, <2>2, SameTransitive
<1>6. /\ BookTypeOK(set) /\ set.arena = b.arena /\ SameOrders(b, set)
      /\ set.levels = [b.levels EXCEPT ![side] = Put(@, price, full)]
  BY <1>3, SetLevelType
<1>7. ReinsertAtHead(b, slot, side, price) = [set EXCEPT !.arena = arena]
  BY DEF ReinsertAtHead, level, full, wired
<1> HIDE DEF arena, set
<1>8. /\ BookTypeOK([set EXCEPT !.arena = arena])
      /\ [set EXCEPT !.arena = arena].levels = set.levels
      /\ SameOrders(set, [set EXCEPT !.arena = arena])
  BY <1>5, <1>6, SetArenaType
<1> DEFINE new == [set EXCEPT !.arena = arena]
<1> HIDE DEF new
<1>9. BookTypeOK(new) /\ SameOrders(b, new)
  BY <1>6, <1>8 DEF SameOrders, new
<1>10. new.levels = [b.levels EXCEPT ![side] = Put(@, price, full)]
  BY <1>6, <1>8 DEF new
<1> QED BY <1>3, <1>7, <1>9, <1>10 DEF new

\* What the levels may be after an order has left the level at `price`.
Shortened(old, new, side, price) ==
  \/ new = old
  \/ \E level \in Level :
       /\ level.head # None
       /\ price \in DOMAIN old[side]
       /\ new = [old EXCEPT ![side] = Put(@, price, level)]
  \/ new = [old EXCEPT ![side] = Drop(@, price)]

LEMMA RemoveSlotType ==
  ASSUME NEW b, BookTypeOK(b), NEW slot \in DOMAIN b.arena,
         NEW side \in Side, NEW price \in Price, NEW qty \in Qty
  PROVE  LET new == RemoveSlot(b, slot, side, price, qty)
         IN  /\ BookTypeOK(new) /\ SameOrders(b, new)
             /\ Shortened(b.levels, new.levels, side, price)
<1> DEFINE order    == b.arena[slot]
           half     == SetNext(b.arena, order.prev, order.next)
           stitched == SetPrev(half, order.next, order.prev)
           level    == LevelAt(b, side, price)
           shrunk   == [head  |-> IF level.head = slot THEN order.next ELSE level.head,
                        tail  |-> IF level.tail = slot THEN order.prev ELSE level.tail,
                        total |-> SaturatingSub(level.total, qty)]
           unlinked == [b EXCEPT !.arena = stitched]
           set      == SetLevel(unlinked, side, price, shrunk)
           new      == RemoveSlot(b, slot, side, price, qty)
<1>1. order \in Order /\ IsMap(b.arena, Slot, Order)
  BY DEF BookTypeOK, IsMap
<1>2. order.prev \in Optional(Slot) /\ order.next \in Optional(Slot)
  BY <1>1 DEF Order
<1>3. level \in Level
  BY LevelAtType
<1>4. shrunk \in Level
  BY <1>2, <1>3, WordLemma DEF Level
<1>5. IsMap(half, Slot, Order) /\ SameButLinks(b.arena, half)
  BY <1>1, <1>2, LinkType
<1>6. IsMap(stitched, Slot, Order) /\ SameButLinks(b.arena, stitched)
  <2> HIDE DEF half
  <2>1. IsMap(stitched, Slot, Order) /\ SameButLinks(half, stitched)
    BY <1>2, <1>5, LinkType
  <2> QED BY <1>5, <2>1, SameTransitive
<1>7. new = IF price \in DOMAIN b.levels[side] THEN RemoveEmpty(set, side, price) ELSE unlinked
  BY DEF RemoveSlot
<1> HIDE DEF stitched, shrunk, level, new
<1>8. BookTypeOK(unlinked) /\ unlinked.levels = b.levels /\ SameOrders(b, unlinked)
  BY <1>6, SetArenaType
<1> HIDE DEF unlinked
<1>9. /\ BookTypeOK(set) /\ SameOrders(unlinked, set)
      /\ set.levels = [b.levels EXCEPT ![side] = Put(@, price, shrunk)]
  BY <1>4, <1>8, SetLevelType
<1>10. CASE price \notin DOMAIN b.levels[side]
  BY <1>7, <1>8, <1>10 DEF new, Shortened
<1>11. CASE price \in DOMAIN b.levels[side]
  <2>1. /\ BookTypeOK(RemoveEmpty(set, side, price))
        /\ SameOrders(set, RemoveEmpty(set, side, price))
        /\ RemoveEmpty(set, side, price).levels
             \in {set.levels, [set.levels EXCEPT ![side] = Drop(@, price)]}
        /\ (price \in DOMAIN set.levels[side] /\ set.levels[side][price].head = None)
             => RemoveEmpty(set, side, price).levels
                  = [set.levels EXCEPT ![side] = Drop(@, price)]
    BY <1>9, RemoveEmptyType
  <2>2. IsMap(b.levels[side], Price, Level) /\ DOMAIN b.levels = Side
    BY DEF BookTypeOK
  <2>3. /\ set.levels[side] = Put(b.levels[side], price, shrunk)
        /\ price \in DOMAIN set.levels[side]
        /\ set.levels[side][price] = shrunk
    <3>1. set.levels[side] = Put(b.levels[side], price, shrunk)
      BY <1>9, <2>2
    <3>2. /\ price \in DOMAIN Put(b.levels[side], price, shrunk)
          /\ Put(b.levels[side], price, shrunk)[price] = shrunk
      BY DEF Put
    <3> QED BY <3>1, <3>2
  <2>4. [set.levels EXCEPT ![side] = Drop(@, price)]
          = [b.levels EXCEPT ![side] = Drop(@, price)]
    <3>1. Drop(Put(b.levels[side], price, shrunk), price) = Drop(b.levels[side], price)
      BY <2>2 DEF Drop, Put
    <3>2. [set.levels EXCEPT ![side] = Drop(@, price)]
            = [b.levels EXCEPT ![side] = Drop(set.levels[side], price)]
      BY <1>9, <2>2
    <3> QED BY <2>3, <3>1, <3>2
  <2>5. BookTypeOK(new) /\ SameOrders(b, new)
    BY <1>7, <1>8, <1>9, <1>11, <2>1 DEF SameOrders
  <2>6. CASE shrunk.head = None
    BY <1>7, <1>11, <2>1, <2>3, <2>4, <2>5, <2>6 DEF new, Shortened
  <2>7. CASE shrunk.head # None
    BY <1>4, <1>7, <1>9, <1>11, <2>1, <2>3, <2>4, <2>5, <2>7 DEF new, Shortened
  <2> QED BY <2>6, <2>7
<1> QED BY <1>10, <1>11

(***************************************************************************)
(* Levels.                                                                 *)
(***************************************************************************)

NonEmptyLevels(levels) ==
  \A side \in Side : \A p \in DOMAIN levels[side] : levels[side][p].head # None

Uncrossed(levels) ==
  \A bid \in DOMAIN levels["Buy"], ask \in DOMAIN levels["Sell"] : bid < ask

\* A price at which an order of a side can rest without crossing the other.
Apart(levels, side, price) ==
  \A q \in DOMAIN levels[Opposite(side)] : IF side = "Buy" THEN price < q ELSE q < price

LEMMA PutLevelLemma ==
  ASSUME NEW b, BookTypeOK(b), NEW side \in Side, NEW price \in Price, NEW level,
         NEW new, new = [b.levels EXCEPT ![side] = Put(@, price, level)]
  PROVE  /\ NonEmptyLevels(b.levels) /\ level.head # None => NonEmptyLevels(new)
         /\ Uncrossed(b.levels)
              /\ (price \in DOMAIN b.levels[side] \/ Apart(b.levels, side, price))
              => Uncrossed(new)
<1>1. DOMAIN b.levels = Side /\ DOMAIN new = Side
  BY DEF BookTypeOK
<1>2. /\ new[side] = Put(b.levels[side], price, level)
      /\ \A other \in Side : other # side => new[other] = b.levels[other]
  BY <1>1
<1>3. /\ DOMAIN new[side] = DOMAIN b.levels[side] \cup {price}
      /\ new[side][price] = level
      /\ \A p \in DOMAIN b.levels[side] : p # price => new[side][p] = b.levels[side][p]
  BY <1>2 DEF Put
<1>4. NonEmptyLevels(b.levels) /\ level.head # None => NonEmptyLevels(new)
  BY <1>2, <1>3 DEF NonEmptyLevels
<1>5. Uncrossed(b.levels)
        /\ (price \in DOMAIN b.levels[side] \/ Apart(b.levels, side, price))
        => Uncrossed(new)
  BY <1>2, <1>3 DEF Uncrossed, Apart, Opposite, Side
<1> QED BY <1>4, <1>5

LEMMA DropLevelLemma ==
  ASSUME NEW b, BookTypeOK(b), NEW side \in Side, NEW price,
         NEW new, new = [b.levels EXCEPT ![side] = Drop(@, price)]
  PROVE  /\ NonEmptyLevels(b.levels) => NonEmptyLevels(new)
         /\ Uncrossed(b.levels) => Uncrossed(new)
<1>1. DOMAIN b.levels = Side /\ DOMAIN new = Side
  BY DEF BookTypeOK
<1>2. /\ new[side] = Drop(b.levels[side], price)
      /\ \A other \in Side : other # side => new[other] = b.levels[other]
  BY <1>1
<1>3. /\ DOMAIN new[side] = DOMAIN b.levels[side] \ {price}
      /\ \A p \in DOMAIN b.levels[side] : p # price => new[side][p] = b.levels[side][p]
  BY <1>2 DEF Drop
<1> QED BY <1>2, <1>3 DEF NonEmptyLevels, Uncrossed, Side

\* In the middle of a trade one level may be empty.
NonEmptyBut(levels, side, price) ==
  \A s \in Side : \A p \in DOMAIN levels[s] :
    (s # side \/ p # price) => levels[s][p].head # None

LEMMA NonEmptyButLemma ==
  ASSUME NEW b, BookTypeOK(b), NEW side \in Side, NEW price, NEW level,
         NEW new, new = [b.levels EXCEPT ![side] = Put(@, price, level)],
         NonEmptyBut(b.levels, side, price)
  PROVE  /\ NonEmptyBut(new, side, price)
         /\ level.head # None => NonEmptyLevels(new)
<1>1. DOMAIN b.levels = Side
  BY DEF BookTypeOK
<1>2. /\ new[side] = Put(b.levels[side], price, level)
      /\ \A other \in Side : other # side => new[other] = b.levels[other]
  BY <1>1
<1>3. /\ DOMAIN new[side] = DOMAIN b.levels[side] \cup {price}
      /\ new[side][price] = level
      /\ \A p \in DOMAIN b.levels[side] : p # price => new[side][p] = b.levels[side][p]
  BY <1>2 DEF Put
<1> QED BY <1>2, <1>3 DEF NonEmptyBut, NonEmptyLevels

LEMMA RemoveEmptySound ==
  ASSUME NEW b, BookTypeOK(b), NEW side \in Side, NEW price,
         NonEmptyBut(b.levels, side, price)
  PROVE  NonEmptyLevels(RemoveEmpty(b, side, price).levels)
<1> DEFINE new == RemoveEmpty(b, side, price)
<1>1. DOMAIN b.levels = Side
  BY DEF BookTypeOK
<1>2. CASE price \in DOMAIN b.levels[side] /\ b.levels[side][price].head = None
  <2>1. new.levels = [b.levels EXCEPT ![side] = Drop(@, price)]
    BY <1>2, RemoveEmptyType
  <2> HIDE DEF new
  <2>2. /\ new.levels[side] = Drop(b.levels[side], price)
        /\ \A other \in Side : other # side => new.levels[other] = b.levels[other]
    BY <1>1, <2>1
  <2>3. NonEmptyLevels(new.levels)
    BY <2>2 DEF Drop, NonEmptyBut, NonEmptyLevels
  <2> QED BY <2>3 DEF new
<1>3. CASE ~(price \in DOMAIN b.levels[side] /\ b.levels[side][price].head = None)
  <2>1. NonEmptyLevels(b.levels)
    BY <1>3 DEF NonEmptyBut, NonEmptyLevels
  <2>2. new.levels \in {b.levels, [b.levels EXCEPT ![side] = Drop(@, price)]}
    BY RemoveEmptyType
  <2> HIDE DEF new
  <2>3. CASE new.levels = b.levels
    BY <2>1, <2>3 DEF new
  <2>4. CASE new.levels = [b.levels EXCEPT ![side] = Drop(@, price)]
    BY <2>1, <2>4, DropLevelLemma DEF new
  <2> QED BY <2>2, <2>3, <2>4
<1> QED BY <1>2, <1>3

\* An order that leaves its level leaves no empty level behind.
LEMMA RemoveSlotSound ==
  ASSUME NEW b, BookTypeOK(b), NEW slot \in DOMAIN b.arena,
         NEW side \in Side, NEW price \in Price, NEW qty \in Qty
  PROVE  LET new == RemoveSlot(b, slot, side, price, qty)
         IN  /\ BookTypeOK(new) /\ SameOrders(b, new)
             /\ NonEmptyLevels(b.levels) => NonEmptyLevels(new.levels)
             /\ Uncrossed(b.levels) => Uncrossed(new.levels)
<1> DEFINE new == RemoveSlot(b, slot, side, price, qty)
<1>1. BookTypeOK(new) /\ SameOrders(b, new) /\ Shortened(b.levels, new.levels, side, price)
  BY RemoveSlotType
<1> SUFFICES /\ NonEmptyLevels(b.levels) => NonEmptyLevels(new.levels)
             /\ Uncrossed(b.levels) => Uncrossed(new.levels)
  BY <1>1
<1> HIDE DEF new
<1>2. CASE \E level \in Level :
              /\ level.head # None
              /\ price \in DOMAIN b.levels[side]
              /\ new.levels = [b.levels EXCEPT ![side] = Put(@, price, level)]
  BY <1>2, PutLevelLemma
<1>3. CASE new.levels = [b.levels EXCEPT ![side] = Drop(@, price)]
  BY <1>3, DropLevelLemma
<1> QED BY <1>1, <1>2, <1>3 DEF Shortened

(***************************************************************************)
(* The slab and the id index. What makes the index sound is that a slot    *)
(* the slab hands out is not in use, and that a slot is given back only    *)
(* together with the index entry that leads to it.                         *)
(***************************************************************************)

SlabSound(b) ==
  /\ \A s \in DOMAIN b.arena : s < b.slots
  /\ \A i \in 1 .. Len(b.vacant) : b.vacant[i] < b.slots /\ b.vacant[i] \notin DOMAIN b.arena
  /\ \A i, j \in 1 .. Len(b.vacant) : b.vacant[i] = b.vacant[j] => i = j

IdsSound(b) ==
  \A id \in DOMAIN b.ids : /\ b.ids[id].slot \in DOMAIN b.arena
                           /\ b.arena[b.ids[id].slot].id = id

SlotsSound(b) == SlabSound(b) /\ IdsSound(b)

\* Neither the arena's slots nor the orders' ids nor the index have changed.
SameSlots(b, c) ==
  /\ c.ids = b.ids /\ c.vacant = b.vacant /\ c.slots = b.slots
  /\ DOMAIN c.arena = DOMAIN b.arena
  /\ \A s \in DOMAIN b.arena : c.arena[s].id = b.arena[s].id

LEMMA SameSlotsSound ==
  ASSUME NEW b, NEW c, SameSlots(b, c), SlotsSound(b)
  PROVE  SlotsSound(c)
BY DEF SameSlots, SlotsSound, SlabSound, IdsSound

\* A slot the slab hands out was not in use.
LEMMA FreshSlot ==
  ASSUME NEW b, BookTypeOK(b), SlabSound(b)
  PROVE  VacantSlot(b) \notin DOMAIN b.arena
<1>1. CASE b.vacant = <<>>
  BY <1>1 DEF BookTypeOK, SlabSound, VacantSlot, IsMap, Slot
<1>2. CASE b.vacant # <<>>
  <2>1. 1 \in 1 .. Len(b.vacant) /\ Head(b.vacant) = b.vacant[1]
    BY <1>2 DEF BookTypeOK
  <2> QED BY <1>2, <2>1 DEF SlabSound, VacantSlot
<1> QED BY <1>1, <1>2

\* Neither the index nor an order in use is disturbed by a new order.
LEMMA InsertSound ==
  ASSUME NEW b, BookTypeOK(b), SlotsSound(b), NEW order \in Order
  PROVE  SlotsSound(ArenaInsert(b, order))
<1> DEFINE slot == VacantSlot(b)
           new  == ArenaInsert(b, order)
<1>1. slot \notin DOMAIN b.arena /\ slot \in Slot
  BY FreshSlot, ArenaInsertType DEF SlotsSound
<1>2. /\ DOMAIN new.arena = DOMAIN b.arena \cup {slot}
      /\ \A s \in DOMAIN b.arena : new.arena[s] = b.arena[s]
      /\ new.ids = b.ids
  <2>1. new.arena = Put(b.arena, slot, order) /\ new.ids = b.ids
    BY ArenaInsertType
  <2> HIDE DEF new, slot
  <2> QED BY <1>1, <2>1 DEF Put
<1>3. IdsSound(new)
  BY <1>2 DEF SlotsSound, IdsSound
<1>4. /\ new.vacant = IF b.vacant = <<>> THEN <<>> ELSE Tail(b.vacant)
      /\ new.slots = IF b.vacant = <<>> THEN b.slots + 1 ELSE b.slots
  BY DEF ArenaInsert, BookTypeOK, IsBook
<1> SUFFICES SlotsSound(new)
  OBVIOUS
<1> HIDE DEF new
<1>5. CASE b.vacant = <<>>
  <2>1. slot = b.slots /\ new.slots = b.slots + 1 /\ Len(new.vacant) = 0
    BY <1>4, <1>5 DEF VacantSlot
  <2>2. \A s \in DOMAIN new.arena : s < new.slots
    BY <1>2, <2>1 DEF SlotsSound, SlabSound, BookTypeOK, IsMap, Slot
  <2> QED BY <2>1, <2>2, <1>3 DEF SlotsSound, SlabSound
<1>6. CASE b.vacant # <<>>
  <2>1. /\ slot = b.vacant[1] /\ new.slots = b.slots
        /\ Len(b.vacant) \in Nat /\ Len(b.vacant) >= 1
        /\ Len(new.vacant) = Len(b.vacant) - 1
        /\ \A i \in 1 .. Len(b.vacant) - 1 : new.vacant[i] = b.vacant[i + 1]
    BY <1>4, <1>6 DEF VacantSlot, BookTypeOK
  <2>2. \A s \in DOMAIN new.arena : s < new.slots
    BY <1>2, <2>1 DEF SlotsSound, SlabSound
  <2>3. ASSUME NEW i \in 1 .. Len(new.vacant)
        PROVE  new.vacant[i] < new.slots /\ new.vacant[i] \notin DOMAIN new.arena
    <3>1. i + 1 \in 1 .. Len(b.vacant) /\ 1 \in 1 .. Len(b.vacant) /\ i + 1 # 1
          /\ new.vacant[i] = b.vacant[i + 1]
      BY <2>1
    <3> QED BY <1>2, <2>1, <3>1 DEF SlotsSound, SlabSound
  <2>4. ASSUME NEW i \in 1 .. Len(new.vacant), NEW j \in 1 .. Len(new.vacant),
               new.vacant[i] = new.vacant[j]
        PROVE  i = j
    <3>1. /\ i + 1 \in 1 .. Len(b.vacant) /\ j + 1 \in 1 .. Len(b.vacant)
          /\ b.vacant[i + 1] = b.vacant[j + 1]
      BY <2>1, <2>4
    <3> QED BY <3>1 DEF SlotsSound, SlabSound
  <2> QED BY <2>2, <2>3, <2>4, <1>3 DEF SlotsSound, SlabSound
<1> QED BY <1>5, <1>6

\* A slot no index entry leads to can be given back.
LEMMA RemoveSound ==
  ASSUME NEW b, BookTypeOK(b), SlotsSound(b), NEW slot \in DOMAIN b.arena,
         b.arena[slot].id \notin DOMAIN b.ids
  PROVE  SlotsSound(ArenaRemove(b, slot))
<1> DEFINE new == ArenaRemove(b, slot)
<1>1. slot \in Slot
  BY DEF BookTypeOK, IsMap
<1>2. /\ DOMAIN new.arena = DOMAIN b.arena \ {slot}
      /\ \A s \in DOMAIN new.arena : new.arena[s] = b.arena[s]
      /\ new.ids = b.ids
  <2>1. new.arena = Drop(b.arena, slot) /\ new.ids = b.ids
    BY <1>1, ArenaRemoveType
  <2> HIDE DEF new
  <2> QED BY <2>1 DEF Drop
<1>3. IdsSound(new)
  BY <1>2 DEF SlotsSound, IdsSound
<1>4. /\ new.vacant = <<slot>> \o b.vacant /\ new.slots = b.slots
  BY DEF ArenaRemove, BookTypeOK, IsBook
<1> HIDE DEF new
<1>5. /\ Len(b.vacant) \in Nat /\ Len(new.vacant) = Len(b.vacant) + 1
      /\ \A i \in 1 .. Len(new.vacant) :
           new.vacant[i] = IF i = 1 THEN slot ELSE b.vacant[i - 1]
  BY <1>1, <1>4 DEF BookTypeOK
<1>6. \A s \in DOMAIN new.arena : s < new.slots
  BY <1>2, <1>4 DEF SlotsSound, SlabSound
<1>7. ASSUME NEW i \in 1 .. Len(new.vacant)
      PROVE  new.vacant[i] < new.slots /\ new.vacant[i] \notin DOMAIN new.arena
  <2>1. CASE i = 1
    BY <2>1, <1>2, <1>4, <1>5 DEF SlotsSound, SlabSound
  <2>2. CASE i # 1
    <3>1. i - 1 \in 1 .. Len(b.vacant) /\ new.vacant[i] = b.vacant[i - 1]
      BY <2>2, <1>5
    <3> QED BY <3>1, <1>2, <1>4 DEF SlotsSound, SlabSound
  <2> QED BY <2>1, <2>2
<1>8. ASSUME NEW i \in 1 .. Len(new.vacant), NEW j \in 1 .. Len(new.vacant),
             new.vacant[i] = new.vacant[j]
      PROVE  i = j
  <2>1. \A k \in 1 .. Len(new.vacant) :
          k # 1 => /\ k - 1 \in 1 .. Len(b.vacant) /\ new.vacant[k] = b.vacant[k - 1]
                   /\ new.vacant[k] # slot
    BY SMTT(60), <1>5 DEF SlotsSound, SlabSound
  <2>2. new.vacant[1] = slot
    BY <1>5
  <2>3. CASE i # 1 /\ j # 1
    <3>1. b.vacant[i - 1] = b.vacant[j - 1]
      BY <2>1, <2>3, <1>8
    <3>2. i - 1 = j - 1
      BY <3>1, <2>1, <2>3 DEF SlotsSound, SlabSound
    <3> QED BY <3>2, <1>5
  <2> QED BY <2>1, <2>2, <2>3, <1>8
<1> QED BY <1>3, <1>6, <1>7, <1>8 DEF SlotsSound, SlabSound, new

\* Forgetting an id does no harm to the others.
LEMMA IndexRemoveSound ==
  ASSUME NEW b, BookTypeOK(b), SlotsSound(b), NEW id \in OrderId
  PROVE  SlotsSound(IndexRemove(b, id))
<1> DEFINE new == IndexRemove(b, id)
<1>1. /\ new.arena = b.arena /\ new.ids = Drop(b.ids, id)
      /\ new.vacant = b.vacant /\ new.slots = b.slots
  BY DEF IndexRemove, BookTypeOK, IsBook
<1> SUFFICES SlotsSound(new)
  OBVIOUS
<1> HIDE DEF new
<1> QED BY <1>1 DEF SlotsSound, SlabSound, IdsSound, Drop

\* An order leaves the index and the arena together.
LEMMA ForgetSound ==
  ASSUME NEW b, BookTypeOK(b), SlotsSound(b), NEW slot \in DOMAIN b.arena
  PROVE  LET id  == b.arena[slot].id
             new == ArenaRemove(IndexRemove(b, id), slot)
         IN  /\ BookTypeOK(new) /\ SlotsSound(new)
             /\ new.levels = b.levels /\ new.ids = Drop(b.ids, id)
             /\ new = IndexRemove(ArenaRemove(b, slot), id)
<1> DEFINE id    == b.arena[slot].id
           gone  == IndexRemove(b, id)
<1>1. slot \in Slot /\ id \in OrderId
  BY DEF BookTypeOK, IsMap, Order
<1>2. /\ BookTypeOK(gone) /\ gone.levels = b.levels /\ gone.arena = b.arena
      /\ gone.ids = Drop(b.ids, id)
  BY <1>1, IndexType
<1>3. ArenaRemove(gone, slot) = IndexRemove(ArenaRemove(b, slot), id)
  BY DEF ArenaRemove, IndexRemove, BookTypeOK, IsBook
<1>4. SlotsSound(gone)
  BY <1>1, IndexRemoveSound
<1> HIDE DEF gone
<1>5. gone.arena[slot].id \notin DOMAIN gone.ids
  BY <1>2 DEF Drop
<1> QED BY <1>1, <1>2, <1>3, <1>4, <1>5, ArenaRemoveType, RemoveSound DEF gone

\* An index entry that leads to the id's order.
LEMMA IndexInsertSound ==
  ASSUME NEW b, BookTypeOK(b), SlotsSound(b), NEW id \in OrderId, NEW loc \in Location,
         loc.slot \in DOMAIN b.arena, b.arena[loc.slot].id = id
  PROVE  SlotsSound(IndexInsert(b, id, loc))
<1> DEFINE new == IndexInsert(b, id, loc)
<1>1. /\ new.arena = b.arena /\ new.ids = Put(b.ids, id, loc)
      /\ new.vacant = b.vacant /\ new.slots = b.slots
  BY DEF IndexInsert, BookTypeOK, IsBook
<1> HIDE DEF new
<1>2. IdsSound(new)
  BY <1>1 DEF IdsSound, SlotsSound, Put
<1> QED BY <1>1, <1>2 DEF SlotsSound, SlabSound, new

(***************************************************************************)
(* What the operations on levels keep between two steps of the matcher.    *)
(***************************************************************************)

BookSound(b) == BookTypeOK(b) /\ NonEmptyLevels(b.levels) /\ SlotsSound(b)

LEMMA RemoveEmptyKeeps ==
  ASSUME NEW b, BookTypeOK(b), SlotsSound(b), NEW side \in Side, NEW price,
         NonEmptyBut(b.levels, side, price)
  PROVE  LET new == RemoveEmpty(b, side, price)
         IN  BookSound(new) /\ new.ids = b.ids /\ new.arena = b.arena
<1> DEFINE new == RemoveEmpty(b, side, price)
<1>1. BookTypeOK(new) /\ SameOrders(b, new) /\ new.arena = b.arena
  BY RemoveEmptyType
<1>2. NonEmptyLevels(new.levels)
  BY RemoveEmptySound
<1> HIDE DEF new
<1>3. SameSlots(b, new)
  BY <1>1 DEF SameOrders, SameSlots
<1>4. SlotsSound(new)
  BY <1>3, SameSlotsSound
<1> QED BY <1>1, <1>2, <1>3, <1>4 DEF BookSound, SameSlots, new

LEMMA ReinsertKeeps ==
  ASSUME NEW b, BookTypeOK(b), SlotsSound(b), NEW side \in Side, NEW price \in Price,
         NEW slot \in DOMAIN b.arena, NonEmptyBut(b.levels, side, price)
  PROVE  LET new == ReinsertAtHead(b, slot, side, price)
         IN  BookSound(new) /\ SameSlots(b, new)
<1> DEFINE new == ReinsertAtHead(b, slot, side, price)
<1>1. /\ BookTypeOK(new) /\ SameOrders(b, new)
      /\ \E level \in Level :
           level.head # None /\ new.levels = [b.levels EXCEPT ![side] = Put(@, price, level)]
  BY ReinsertAtHeadType
<1> HIDE DEF new
<1>2. NonEmptyLevels(new.levels)
  BY <1>1, NonEmptyButLemma
<1>3. SameSlots(b, new)
  BY <1>1 DEF SameOrders, SameSlots
<1>4. SlotsSound(new)
  BY <1>3, SameSlotsSound
<1> QED BY <1>1, <1>2, <1>3, <1>4 DEF BookSound, new

LEMMA InsertRestingKeeps ==
  ASSUME NEW b, BookSound(b), NEW slot \in DOMAIN b.arena
  PROVE  LET new == InsertResting(b, slot)
         IN  BookSound(new) /\ SameSlots(b, new)
<1> DEFINE new   == InsertResting(b, slot)
           o     == b.arena[slot]
           level == LevelAt(b, o.side, o.price)
           full  == PushBack(level, slot, o.remaining)
<1>1. BookTypeOK(b) /\ SlotsSound(b) /\ NonEmptyLevels(b.levels)
  BY DEF BookSound
<1>2. o.side \in Side /\ o.price \in Price /\ o.remaining \in Qty /\ slot \in Slot
  BY <1>1 DEF BookTypeOK, IsMap, Order
<1>3. /\ BookTypeOK(new) /\ SameOrders(b, new)
      /\ new.levels = [b.levels EXCEPT ![o.side] = Put(@, o.price, full)]
  BY <1>1, InsertRestingType
<1> HIDE DEF new, o
<1>4. level \in Level /\ (level.head # None \/ level.tail = None)
  BY <1>1, <1>2, LevelAtType DEF LevelAt, EmptyLevel, NonEmptyLevels
<1> HIDE DEF level
<1>5. full.head # None
  BY <1>2, <1>4, PushBackType
<1> HIDE DEF full
<1>6. NonEmptyBut(b.levels, o.side, o.price)
  BY <1>1 DEF NonEmptyLevels, NonEmptyBut
<1>7. NonEmptyLevels(new.levels)
  BY <1>1, <1>2, <1>3, <1>5, <1>6, NonEmptyButLemma
<1>8. SameSlots(b, new)
  BY <1>3 DEF SameOrders, SameSlots
<1>9. SlotsSound(new)
  BY <1>1, <1>8, SameSlotsSound
<1> QED BY <1>3, <1>7, <1>8, <1>9 DEF BookSound, new

(***************************************************************************)
(* The call stack.                                                         *)
(***************************************************************************)

LEMMA StackIsSeq ==
  ASSUME NEW calls, StackOK(calls), NEW S, \A i \in 1 .. Len(calls) : calls[i] \in S
  PROVE  calls \in Seq(S)
BY DEF StackOK

\* Only trigger_stops calls back, so every call below the innermost is one.
Nested(calls) == \A i \in 1 .. Len(calls) - 1 : calls[i].call = "trigger_stops"

StackSound(calls) == StackOK(calls) /\ Nested(calls)

LEMMA BecomeSound ==
  ASSUME NEW calls, StackSound(calls), calls # <<>>, NEW frame, FrameOK(frame)
  PROVE  LET new == [calls EXCEPT ![Len(calls)] = frame]
         IN  StackSound(new) /\ new # <<>> /\ new[Len(new)] = frame
<1> DEFINE S   == {calls[i] : i \in 1 .. Len(calls)} \cup {frame}
           new == [calls EXCEPT ![Len(calls)] = frame]
<1>1. frame \in S /\ \A i \in 1 .. Len(calls) : calls[i] \in S
  OBVIOUS
<1> HIDE DEF S
<1>2. calls \in Seq(S)
  BY <1>1, StackIsSeq DEF StackSound
<1>3. Len(calls) \in 1 .. Len(calls)
  BY <1>2, EmptySeq, LenProperties
<1>4. /\ new \in Seq(S) /\ Len(new) = Len(calls)
      /\ \A i \in 1 .. Len(calls) : new[i] = IF i = Len(calls) THEN frame ELSE calls[i]
  BY <1>1, <1>2, <1>3, ExceptSeq
<1> SUFFICES StackSound(new) /\ new # <<>> /\ new[Len(new)] = frame
  OBVIOUS
<1> HIDE DEF new
<1>5. Len(new) \in Nat /\ new = [i \in 1 .. Len(new) |-> new[i]]
  BY <1>4, LenProperties
<1>6. \A i \in 1 .. Len(new) : FrameOK(new[i])
  BY <1>4 DEF StackSound, StackOK
<1>7. Nested(new)
  BY <1>3, <1>4 DEF StackSound, Nested
<1>8. new # <<>> /\ new[Len(new)] = frame
  BY <1>3, <1>4, EmptySeq
<1> QED BY <1>5, <1>6, <1>7, <1>8 DEF StackSound, StackOK

LEMMA PushSound ==
  ASSUME NEW calls, StackSound(calls), NEW frame, FrameOK(frame),
         calls # <<>> => calls[Len(calls)].call = "trigger_stops"
  PROVE  LET new == Append(calls, frame)
         IN  StackSound(new) /\ new # <<>> /\ new[Len(new)] = frame
<1> DEFINE S   == {calls[i] : i \in 1 .. Len(calls)} \cup {frame}
           new == Append(calls, frame)
<1>1. frame \in S /\ \A i \in 1 .. Len(calls) : calls[i] \in S
  OBVIOUS
<1> HIDE DEF S
<1>2. calls \in Seq(S) /\ Len(calls) \in Nat
  BY <1>1, StackIsSeq DEF StackSound, StackOK
<1>3. /\ new \in Seq(S) /\ Len(new) = Len(calls) + 1
      /\ \A i \in 1 .. Len(calls) : new[i] = calls[i]
      /\ new[Len(calls) + 1] = frame
  BY <1>1, <1>2, AppendProperties
<1> SUFFICES StackSound(new) /\ new # <<>> /\ new[Len(new)] = frame
  OBVIOUS
<1> HIDE DEF new
<1>4. Len(new) \in Nat /\ new = [i \in 1 .. Len(new) |-> new[i]]
  BY <1>3, LenProperties
<1>5. \A i \in 1 .. Len(new) : FrameOK(new[i])
  BY <1>2, <1>3 DEF StackSound, StackOK
<1>6. Nested(new)
  <2>1. \A i \in 1 .. Len(calls) : calls[i].call = "trigger_stops"
    BY <1>2, EmptySeq DEF StackSound, Nested
  <2> QED BY <1>2, <1>3, <2>1 DEF Nested
<1>7. new # <<>> /\ new[Len(new)] = frame
  BY <1>2, <1>3, EmptySeq
<1> QED BY <1>4, <1>5, <1>6, <1>7 DEF StackSound, StackOK

LEMMA ReturnSound ==
  ASSUME NEW calls, StackSound(calls), calls # <<>>
  PROVE  LET new == SubSeq(calls, 1, Len(calls) - 1)
         IN  StackSound(new) /\ (new # <<>> => new[Len(new)].call = "trigger_stops")
<1> DEFINE S   == {calls[i] : i \in 1 .. Len(calls)}
           new == SubSeq(calls, 1, Len(calls) - 1)
<1>1. \A i \in 1 .. Len(calls) : calls[i] \in S
  OBVIOUS
<1> HIDE DEF S
<1>2. calls \in Seq(S)
  BY <1>1, StackIsSeq DEF StackSound
<1>3. Len(calls) \in Nat \ {0} /\ 1 \in Int /\ Len(calls) - 1 \in Int
  BY <1>2, EmptySeq
<1>4. /\ new \in Seq(S) /\ Len(new) = Len(calls) - 1
      /\ \A i \in 1 .. Len(calls) - 1 : new[i] = calls[i]
  <2> DEFINE last == Len(calls) - 1
  <2>1. last \in Int /\ \A i \in 1 .. last : calls[i] \in S
    BY <1>1, <1>3
  <2> HIDE DEF last
  <2>2. SubSeq(calls, 1, last) \in Seq(S)
    BY <2>1, SubSeqProperties
  <2>3. Len(SubSeq(calls, 1, last)) = IF 1 <= last THEN last - 1 + 1 ELSE 0
    BY <2>1, SubSeqProperties
  <2>4. \A i \in 1 .. last - 1 + 1 : SubSeq(calls, 1, last)[i] = calls[1 + i - 1]
    BY <2>1, SubSeqProperties
  <2>5. Len(new) = Len(calls) - 1
    BY <1>3, <2>3 DEF last
  <2>6. \A i \in 1 .. Len(calls) - 1 : new[i] = calls[i]
    BY <1>3, <2>4 DEF last
  <2> QED BY <2>2, <2>5, <2>6 DEF last
<1> SUFFICES StackSound(new) /\ (new # <<>> => new[Len(new)].call = "trigger_stops")
  OBVIOUS
<1> HIDE DEF new
<1>5. Len(new) \in Nat /\ new = [i \in 1 .. Len(new) |-> new[i]]
  BY <1>4, LenProperties
<1>6. \A i \in 1 .. Len(new) : FrameOK(new[i])
  BY <1>3, <1>4 DEF StackSound, StackOK
<1>7. Nested(new)
  BY <1>3, <1>4 DEF StackSound, Nested
<1>8. ASSUME new # <<>>
      PROVE  new[Len(new)].call = "trigger_stops"
  <2>1. Len(new) \in 1 .. Len(calls) - 1
    BY <1>3, <1>4, <1>8, EmptySeq
  <2> QED BY <1>4, <2>1 DEF StackSound, Nested
<1> QED BY <1>5, <1>6, <1>7, <1>8 DEF StackSound, StackOK

(***************************************************************************)
(* One trade.                                                              *)
(***************************************************************************)

LEMMA ShrinkType ==
  ASSUME NEW arena, IsMap(arena, Slot, Order), NEW ref \in DOMAIN arena, NEW qty \in Qty
  PROVE  LET new == Shrink(arena, ref, qty)
         IN  /\ IsMap(new, Slot, Order) /\ DOMAIN new = DOMAIN arena
             /\ \A s \in DOMAIN arena : /\ new[s].id = arena[s].id
                                      /\ new[s].side = arena[s].side
                                      /\ new[s].price = arena[s].price
                                      /\ new[s].kind = arena[s].kind
<1> DEFINE less == [arena[ref] EXCEPT !.remaining = Minus(@, qty)]
<1>1. arena[ref] \in Order
  BY DEF IsMap
<1>2. Minus(arena[ref].remaining, qty) \in Qty
  BY <1>1, WordLemma DEF Order
<1>3. /\ less \in Order /\ less.id = arena[ref].id /\ less.side = arena[ref].side
      /\ less.price = arena[ref].price /\ less.kind = arena[ref].kind
  BY <1>1, <1>2 DEF Order
<1>4. Shrink(arena, ref, qty) = [arena EXCEPT ![ref] = less]
  BY DEF Shrink
<1> HIDE DEF less
<1> QED BY <1>3, <1>4 DEF IsMap

LEMMA TopType ==
  ASSUME TypeOK, stack # <<>>
  PROVE  FrameOK(Top) /\ Len(stack) \in Nat \ {0}
<1> DEFINE S == {stack[i] : i \in 1 .. Len(stack)}
<1>1. \A i \in 1 .. Len(stack) : stack[i] \in S
  OBVIOUS
<1> HIDE DEF S
<1>2. stack \in Seq(S)
  BY <1>1, StackIsSeq DEF TypeOK
<1>3. Len(stack) \in Nat \ {0}
  BY <1>2, EmptySeq
<1> QED BY <1>3 DEF TypeOK, StackOK, Top

LEMMA TakerType ==
  ASSUME TypeOK, Matching
  PROVE  /\ Taker \in Order /\ Other \in Side /\ Taker.side \in Side /\ Top.slot \in Slot
         /\ Top = MatchOrder(Top.slot, Top.filled) /\ Top.filled \in Qty
<1>1. FrameOK(Top) /\ Top.call = "match_order"
  BY TopType DEF Matching, In
<1>2. Taker \in Order
  BY DEF Matching, Taker, TypeOK, BookTypeOK, IsMap
<1> QED BY <1>1, <1>2 DEF FrameOK, Other, Opposite, Order, Side

\* The book between taking the maker out and putting it back or away.
LEMMA TradedType ==
  ASSUME TypeOK, Matching, NEW price, TradesAt(price)
  PROVE  LET new == Traded(price)
         IN  /\ BookTypeOK(new)
             /\ new.ids = book.ids /\ new.vacant = book.vacant /\ new.slots = book.slots
             /\ DOMAIN new.arena = DOMAIN book.arena
             /\ \A s \in DOMAIN book.arena : new.arena[s].id = book.arena[s].id
             /\ price \in Price /\ price \in DOMAIN book.levels[Other]
             /\ MakerAt(price) \in DOMAIN book.arena /\ MakerAt(price) \in Slot
             /\ TradeQty(price) \in Qty
             /\ \E level \in Level :
                  new.levels = [book.levels EXCEPT ![Other] = Put(@, price, level)]
<1> DEFINE maker  == MakerAt(price)
           popped == PopHead(book, Other, price)
           once   == Shrink(popped.arena, Top.slot, TradeQty(price))
           twice  == Shrink(once, maker, TradeQty(price))
<1>1. /\ BookTypeOK(book) /\ Taker \in Order /\ Other \in Side
      /\ Top.slot \in DOMAIN book.arena
  BY TakerType DEF TypeOK, Matching
<1>2. price \in DOMAIN book.levels[Other] /\ price \in Price
  BY <1>1 DEF TradesAt, IsFirst, BookTypeOK, IsMap
<1>3. maker \in DOMAIN book.arena /\ maker \in Slot /\ book.arena[maker] \in Order
  BY <1>1 DEF TradesAt, MakerAt, BookTypeOK, IsMap
<1>4. TradeQty(price) \in Qty
  BY <1>1, <1>3, WordLemma DEF TradeQty, Order
<1>5. /\ BookTypeOK(popped) /\ SameOrders(book, popped)
      /\ \E level \in Level :
           popped.levels = [book.levels EXCEPT ![Other] = Put(@, price, level)]
  BY <1>1, <1>2, <1>3, PopHeadType DEF MakerAt
<1>6. Traded(price) = [popped EXCEPT !.arena = twice, !.last = price]
  BY DEF Traded
<1> HIDE DEF popped
<1>7. /\ IsMap(once, Slot, Order) /\ DOMAIN once = DOMAIN book.arena
      /\ \A s \in DOMAIN book.arena : once[s].id = book.arena[s].id
  <2>1. IsMap(popped.arena, Slot, Order) /\ Top.slot \in DOMAIN popped.arena
    BY <1>1, <1>5 DEF SameOrders, BookTypeOK
  <2>2. /\ IsMap(once, Slot, Order) /\ DOMAIN once = DOMAIN popped.arena
        /\ \A s \in DOMAIN popped.arena : once[s].id = popped.arena[s].id
    BY <1>4, <2>1, ShrinkType
  <2> HIDE DEF once
  <2> QED BY <1>5, <2>2 DEF SameOrders
<1> HIDE DEF once
<1>8. /\ IsMap(twice, Slot, Order) /\ DOMAIN twice = DOMAIN book.arena
      /\ \A s \in DOMAIN book.arena : twice[s].id = book.arena[s].id
  <2>1. maker \in DOMAIN once
    BY <1>3, <1>7
  <2> HIDE DEF maker
  <2> QED BY <2>1, <1>4, <1>7, ShrinkType
<1> HIDE DEF twice, maker
<1>9. /\ BookTypeOK([popped EXCEPT !.arena = twice, !.last = price])
      /\ [popped EXCEPT !.arena = twice, !.last = price].arena = twice
      /\ [popped EXCEPT !.arena = twice, !.last = price].ids = popped.ids
      /\ [popped EXCEPT !.arena = twice, !.last = price].vacant = popped.vacant
      /\ [popped EXCEPT !.arena = twice, !.last = price].slots = popped.slots
      /\ [popped EXCEPT !.arena = twice, !.last = price].levels = popped.levels
  BY <1>2, <1>5, <1>8 DEF BookTypeOK, IsBook, Optional
<1> QED BY <1>2, <1>3, <1>4, <1>5, <1>6, <1>8, <1>9 DEF SameOrders, maker

(***************************************************************************)
(* The invariant that is inductive: no level is empty between two steps,   *)
(* the slab and the index are sound, calls nest as trigger_stops makes     *)
(* them, and an order that is being matched is not in the index yet.       *)
(***************************************************************************)

TakerApart == Matching => Taker.id \notin DOMAIN book.ids

Inv ==
  /\ BookSound(book)
  /\ StackSound(stack)
  /\ cmd \in Commands \cup {None}
  /\ TakerApart

LEMMA InvType ==
  ASSUME Inv
  PROVE  TypeOK
BY DEF Inv, BookSound, StackSound, TypeOK

LEMMA TriggerFrame ==
  ASSUME NEW b, BookTypeOK(b), NEW side \in Side, NEW last \in Price
  PROVE  FrameOK(TriggerStops(b, side, last))
<1> DEFINE hit == {p \in DOMAIN b.stops[side] : Reached(side, last, p)}
<1>1. IsMap(b.stops[side], Price, Seq(Slot) \ {<<>>})
  BY DEF BookTypeOK
<1>2. IsMap(Keep(b.stops[side], hit), Price, Seq(Slot) \ {<<>>})
  BY <1>1, KeepLemma
<1>3. TriggerStops(b, side, last) = [call |-> "trigger_stops", side |-> side, last |-> last,
                                     todo |-> Keep(b.stops[side], hit)]
  BY DEF TriggerStops
<1> HIDE DEF hit
<1> QED BY <1>2, <1>3 DEF FrameOK

\* Whatever apply_new does after the match, no order is being matched then.
LEMMA ThenStopsSound ==
  ASSUME BookSound(book), StackSound(stack), stack # <<>>, ThenStops
  PROVE  StackSound(stack') /\ ~Matching'
<1>1. CASE book.last # None
  <2>1. FrameOK(TriggerStops(book, "Buy", book.last))
    BY <1>1, TriggerFrame DEF BookSound, BookTypeOK, Optional, Side
  <2>2. stack' = [stack EXCEPT ![Len(stack)] = TriggerStops(book, "Buy", book.last)]
    BY <1>1 DEF ThenStops, Become
  <2>3. TriggerStops(book, "Buy", book.last).call = "trigger_stops"
    BY DEF TriggerStops
  <2>4. StackSound(stack') /\ stack'[Len(stack')].call = "trigger_stops"
    BY ZenonT(60), <2>1, <2>2, <2>3, BecomeSound
  <2> QED BY <2>4 DEF Matching, In, Top
<1>2. CASE book.last = None
  <2>1. stack' = SubSeq(stack, 1, Len(stack) - 1)
    BY <1>2 DEF ThenStops, Return
  <2> QED BY <2>1, ReturnSound DEF Matching, In, Top
<1> QED BY <1>1, <1>2

LEMMA ReturnStep ==
  ASSUME StackSound(stack), stack # <<>>, Return
  PROVE  StackSound(stack') /\ ~Matching'
<1>1. stack' = SubSeq(stack, 1, Len(stack) - 1)
  BY DEF Return
<1> QED BY <1>1, ReturnSound DEF Matching, In, Top

\* Cancelling an order keeps the book sound, wherever the order rests.
LEMMA WithoutSound ==
  ASSUME BookSound(book), NEW id \in DOMAIN book.ids
  PROVE  BookSound(Without(id))
<1> DEFINE loc  == book.ids[id]
           qty  == book.arena[loc.slot].remaining
           gone == IndexRemove(book, id)
           cut  == RemoveSlot(gone, loc.slot, loc.side, loc.price, qty)
<1>1. /\ id \in OrderId /\ loc.slot \in Slot /\ loc.side \in Side /\ loc.price \in Price
      /\ loc.slot \in DOMAIN book.arena /\ book.arena[loc.slot].id = id
      /\ qty \in Qty
  <2>1. IsMap(book.ids, OrderId, Location) /\ IsMap(book.arena, Slot, Order) /\ IdsSound(book)
    BY DEF BookSound, BookTypeOK, SlotsSound
  <2>2. id \in OrderId /\ loc \in Location
    BY <2>1 DEF IsMap
  <2>3. loc.slot \in DOMAIN book.arena /\ book.arena[loc.slot].id = id
    BY <2>1 DEF IdsSound
  <2>4. book.arena[loc.slot] \in Order
    BY <2>1, <2>3 DEF IsMap
  <2> QED BY <2>2, <2>3, <2>4 DEF Location, Order
<1>2. /\ BookTypeOK(gone) /\ SlotsSound(gone)
      /\ gone.levels = book.levels /\ gone.arena = book.arena
      /\ gone.ids = Drop(book.ids, id)
  BY <1>1, IndexType, IndexRemoveSound DEF BookSound
<1>3. Without(id) = ArenaRemove(cut, loc.slot)
  BY DEF Without
<1> HIDE DEF gone
<1>4. NonEmptyLevels(gone.levels) /\ loc.slot \in DOMAIN gone.arena
  BY <1>1, <1>2 DEF BookSound
<1> HIDE DEF loc, qty
<1>5. BookTypeOK(cut) /\ SameOrders(gone, cut) /\ NonEmptyLevels(cut.levels)
  BY <1>1, <1>2, <1>4, RemoveSlotSound
<1> HIDE DEF cut
<1>6. SlotsSound(cut)
  BY <1>2, <1>5, SameSlotsSound DEF SameOrders, SameSlots
<1>7. loc.slot \in DOMAIN cut.arena /\ cut.arena[loc.slot].id \notin DOMAIN cut.ids
  BY <1>1, <1>2, <1>5 DEF SameOrders, Drop
<1>8. /\ BookTypeOK(ArenaRemove(cut, loc.slot))
      /\ ArenaRemove(cut, loc.slot).levels = cut.levels
  BY <1>1, <1>5, ArenaRemoveType
<1>9. SlotsSound(ArenaRemove(cut, loc.slot))
  BY <1>5, <1>6, <1>7, RemoveSound
<1> QED BY <1>3, <1>5, <1>8, <1>9 DEF BookSound

(***************************************************************************)
(* Every action keeps the invariant.                                       *)
(***************************************************************************)

LEMMA InitSound == Init => Inv
<1> SUFFICES ASSUME Init PROVE Inv
  OBVIOUS
<1>1. BookTypeOK(book)
  BY EmptyBookType DEF Init
<1>2. NonEmptyLevels(book.levels) /\ SlotsSound(book)
  BY DEF Init, EmptyBook, NonEmptyLevels, SlotsSound, SlabSound,
         IdsSound, Side
<1>3. StackSound(stack)
  BY DEF Init, StackSound, StackOK, Nested
<1> QED BY <1>1, <1>2, <1>3 DEF Init, Inv, BookSound, TakerApart, Matching, In

\* A call of apply_new on an empty stack.
LEMMA FirstCall ==
  ASSUME NEW no \in NewOrder, stack' = <<ApplyNew(no)>>
  PROVE  StackSound(stack') /\ ~Matching'
<1>1. FrameOK(ApplyNew(no))
  BY DEF FrameOK, ApplyNew
<1>2. Len(stack') = 1 /\ stack'[1] = ApplyNew(no)
  OBVIOUS
<1>3. ApplyNew(no).call = "apply_new"
  BY DEF ApplyNew
<1> QED BY <1>1, <1>2, <1>3 DEF StackSound, StackOK, Nested, Matching, In, Top

LEMMA NewSound ==
  ASSUME Inv, NEW c \in Commands, New(c)
  PROVE  Inv'
<1>1. c.order \in NewOrder
  BY CommandsAssumption DEF New, Command
<1> QED BY <1>1, FirstCall DEF New, Inv, TakerApart

LEMMA RefuseSound ==
  ASSUME Inv, NEW c \in Commands, NEW reason, Refuse(c, reason)
  PROVE  Inv'
BY DEF Refuse, Inv, TakerApart, Matching, In, Top, Taker

LEMMA CancelSound ==
  ASSUME Inv, NEW c \in Commands, Cancel(c)
  PROVE  Inv'
<1>1. CASE Refuse(c, "UnknownId")
  BY <1>1, RefuseSound
<1>2. CASE c.id \in DOMAIN book.ids /\ book' = Without(c.id) /\ cmd' = c /\ UNCHANGED stack
  <2>1. BookSound(book')
    BY <1>2, WithoutSound DEF Inv
  <2>2. stack = <<>>
    BY DEF Cancel, Idle
  <2> QED BY <1>2, <2>1, <2>2 DEF Inv, TakerApart, Matching, In
<1> QED BY <1>1, <1>2 DEF Cancel

LEMMA ReplaceSound ==
  ASSUME Inv, NEW c \in Commands, Replace(c)
  PROVE  Inv'
<1> DEFINE old == book.arena[book.ids[c.id].slot]
           no  == [id |-> c.id, side |-> old.side, kind |-> old.kind,
                   price |-> c.new_price, stop_price |-> 0, qty |-> c.new_qty]
<1>1. ASSUME NEW reason, Refuse(c, reason)
      PROVE  Inv'
  BY <1>1, RefuseSound
<1>2. CASE c.id \in DOMAIN book.ids /\ book' = Without(c.id) /\ cmd' = c
             /\ stack' = <<ApplyNew(no)>>
  <2>1. BookSound(book')
    BY <1>2, WithoutSound DEF Inv
  <2>2. old \in Order
    BY <1>2 DEF Inv, BookSound, BookTypeOK, SlotsSound, IdsSound, IsMap
  <2>3. c.id \in OrderId /\ c.new_price \in Price /\ c.new_qty \in Qty
    BY CommandsAssumption DEF Replace, Command
  <2>4. no \in NewOrder
    <3> HIDE DEF old
    <3> QED BY <2>2, <2>3 DEF NewOrder, Order, Price
  <2> QED BY <1>2, <2>1, <2>4, FirstCall DEF Inv, TakerApart
<1> QED BY <1>1, <1>2 DEF Replace

LEMMA RejectNewSound ==
  ASSUME Inv, RejectNew
  PROVE  Inv'
<1>1. StackSound(stack') /\ ~Matching'
  BY ReturnStep DEF RejectNew, Inv, In
<1> QED BY <1>1 DEF RejectNew, Inv, TakerApart

LEMMA KillFokSound ==
  ASSUME Inv, KillFok
  PROVE  Inv'
<1>1. StackSound(stack') /\ ~Matching'
  BY ReturnStep DEF KillFok, Inv, In
<1> QED BY <1>1 DEF KillFok, Inv, TakerApart

\* An order apply_new accepts, as it lies in the arena.
LEMMA AcceptedType ==
  ASSUME Inv, In("apply_new"), Refusal(Top.order) = None
  PROVE  /\ Top.order \in NewOrder /\ OrderOf(Top.order) \in Order
         /\ Top.order.id \notin DOMAIN book.ids
<1>1. FrameOK(Top) /\ Top.call = "apply_new"
  BY InvType, TopType DEF In
<1>2. Top.order \in NewOrder
  BY <1>1 DEF FrameOK
<1>3. OrderOf(Top.order) \in Order
  BY <1>2 DEF OrderOf, NewOrder, Order, Optional
<1>4. Top.order.id \notin DOMAIN book.ids
  BY ReasonAssumption DEF Refusal
<1> QED BY <1>2, <1>3, <1>4

LEMMA InsertAll ==
  ASSUME NEW b, BookSound(b), NEW order \in Order
  PROVE  LET new  == ArenaInsert(b, order)
             slot == VacantSlot(b)
         IN  /\ BookSound(new) /\ new.ids = b.ids
             /\ slot \in Slot /\ slot \in DOMAIN new.arena /\ new.arena[slot] = order
<1> DEFINE new  == ArenaInsert(b, order)
           slot == VacantSlot(b)
<1>1. /\ BookTypeOK(new) /\ slot \in Slot /\ new.levels = b.levels
      /\ new.ids = b.ids /\ new.arena = Put(b.arena, slot, order)
  BY ArenaInsertType DEF BookSound
<1>2. SlotsSound(new)
  BY InsertSound DEF BookSound
<1> HIDE DEF new, slot
<1>3. slot \in DOMAIN new.arena /\ new.arena[slot] = order
  BY <1>1 DEF Put
<1> QED BY <1>1, <1>2, <1>3 DEF BookSound, new, slot

LEMMA StartMatchSound ==
  ASSUME Inv, StartMatch
  PROVE  Inv'
<1> DEFINE no    == Top.order
           slot  == VacantSlot(book)
           frame == MatchOrder(slot, 0)
<1>1. /\ In("apply_new") /\ Refusal(no) = None
      /\ book' = ArenaInsert(book, OrderOf(no))
      /\ stack' = [stack EXCEPT ![Len(stack)] = frame]
      /\ cmd' = cmd
  BY DEF StartMatch, Become
<1>2. OrderOf(no) \in Order /\ no.id \notin DOMAIN book.ids
  BY <1>1, AcceptedType
<1>3. /\ BookSound(book') /\ book'.ids = book.ids
      /\ slot \in Slot /\ slot \in DOMAIN book'.arena /\ book'.arena[slot] = OrderOf(no)
  BY <1>1, <1>2, InsertAll DEF Inv
<1>4. FrameOK(frame)
  BY <1>3 DEF FrameOK, MatchOrder, Qty
<1>5. StackSound(stack') /\ stack'[Len(stack')] = frame
  BY <1>1, <1>4, BecomeSound DEF Inv, In
<1>6. Top' = frame /\ frame.slot = slot
  BY <1>5 DEF Top, MatchOrder
<1>7. Taker'.id = no.id
  BY <1>3, <1>6 DEF Taker, OrderOf
<1> QED BY <1>1, <1>2, <1>3, <1>5, <1>7 DEF Inv, TakerApart

LEMMA HoldStopSound ==
  ASSUME Inv, HoldStop
  PROVE  Inv'
<1> DEFINE no    == Top.order
           slot  == VacantSlot(book)
           loc   == [slot |-> slot, side |-> no.side, price |-> no.stop_price]
           put   == ArenaInsert(book, OrderOf(no))
           known == IndexInsert(put, no.id, loc)
           held  == HoldStopAt(known, no.side, no.stop_price, slot)
<1>1. In("apply_new") /\ Refusal(no) = None /\ book' = held /\ Return /\ cmd' = cmd
  BY DEF HoldStop
<1>2. no \in NewOrder /\ OrderOf(no) \in Order /\ no.id \notin DOMAIN book.ids
  BY <1>1, AcceptedType
<1>3. /\ BookSound(put) /\ put.ids = book.ids
      /\ slot \in Slot /\ slot \in DOMAIN put.arena /\ put.arena[slot] = OrderOf(no)
  BY <1>2, InsertAll DEF Inv
<1>4. /\ no.id \in OrderId /\ no.side \in Side /\ no.stop_price \in Price
      /\ OrderOf(no).id = no.id /\ loc \in Location /\ loc.slot = slot
  BY <1>2, <1>3 DEF NewOrder, OrderOf, Location
<1> HIDE DEF put, slot, no, loc
<1>5. BookSound(known)
  BY <1>3, <1>4, IndexType, IndexInsertSound DEF BookSound
<1> HIDE DEF known
<1>6. /\ BookTypeOK(held) /\ held.levels = known.levels
      /\ held.arena = known.arena /\ held.ids = known.ids
  BY <1>3, <1>4, <1>5, HoldStopType DEF BookSound
<1>7. held.vacant = known.vacant /\ held.slots = known.slots
  BY <1>5 DEF HoldStopAt, BookSound, BookTypeOK, IsBook
<1> HIDE DEF held
<1>8. SlotsSound(held)
  BY <1>5, <1>6, <1>7, SameSlotsSound DEF SameSlots, BookSound
<1>9. BookSound(held)
  BY <1>5, <1>6, <1>8 DEF BookSound
<1>10. StackSound(stack') /\ ~Matching'
  BY <1>1, ReturnStep DEF Inv, In
<1> QED BY <1>1, <1>9, <1>10 DEF Inv, TakerApart

LEMMA FinishFilledSound ==
  ASSUME Inv, FinishFilled
  PROVE  Inv'
<1>1. /\ Matching /\ ThenStops /\ cmd' = cmd
      /\ book' = IndexRemove(ArenaRemove(book, Top.slot), Taker.id)
  BY DEF FinishFilled
<1>2. Top.slot \in DOMAIN book.arena /\ Taker.id = book.arena[Top.slot].id
  BY <1>1 DEF Matching, Taker
<1>3. BookSound(book')
  BY <1>1, <1>2, ForgetSound DEF Inv, BookSound
<1>4. StackSound(stack') /\ ~Matching'
  BY <1>1, ThenStopsSound DEF Inv, Matching, In
<1> QED BY <1>1, <1>3, <1>4 DEF Inv, TakerApart

LEMMA CancelRestSound ==
  ASSUME Inv, CancelRest
  PROVE  Inv'
<1>1. Matching /\ ThenStops /\ cmd' = cmd /\ book' = ArenaRemove(book, Top.slot)
  BY DEF CancelRest
<1>2. /\ Top.slot \in DOMAIN book.arena /\ Top.slot \in Slot
      /\ book.arena[Top.slot].id \notin DOMAIN book.ids
  BY <1>1, InvType, TakerType DEF Inv, TakerApart, Matching, Taker
<1>3. BookSound(book')
  BY <1>1, <1>2, ArenaRemoveType, RemoveSound DEF Inv, BookSound
<1>4. StackSound(stack') /\ ~Matching'
  BY <1>1, ThenStopsSound DEF Inv, Matching, In
<1> QED BY <1>1, <1>3, <1>4 DEF Inv, TakerApart

\* After a trade: the order still being matched is the same and not indexed.
LEMMA CountFillSound ==
  ASSUME Inv, Matching, NEW price, TradeQty(price) \in Qty, CountFill(price)
  PROVE  /\ StackSound(stack')
         /\ Top'.slot = Top.slot
<1> DEFINE frame == MatchOrder(Top.slot, Plus(Top.filled, TradeQty(price)))
<1>1. Top = MatchOrder(Top.slot, Top.filled) /\ Top.slot \in Slot /\ Top.filled \in Qty
  BY InvType, TakerType
<1>2. [Top EXCEPT !.filled = Plus(@, TradeQty(price))] = frame
  BY <1>1 DEF MatchOrder
<1>3. FrameOK(frame) /\ frame.slot = Top.slot
  BY <1>1, WordLemma DEF FrameOK, MatchOrder
<1>4. stack' = [stack EXCEPT ![Len(stack)] = frame]
  BY <1>2 DEF CountFill, Become
<1> HIDE DEF frame
<1>5. StackSound(stack') /\ stack'[Len(stack')] = frame
  BY <1>3, <1>4, BecomeSound DEF Inv, Matching, In
<1> QED BY <1>3, <1>5 DEF Top

LEMMA MiddleOfTrade ==
  ASSUME Inv, Matching, NEW price, TradesAt(price)
  PROVE  LET new == Traded(price)
         IN  /\ BookTypeOK(new) /\ SlotsSound(new)
             /\ NonEmptyBut(new.levels, Other, price)
<1> DEFINE new == Traded(price)
<1>1. /\ BookTypeOK(new)
      /\ new.ids = book.ids /\ new.vacant = book.vacant /\ new.slots = book.slots
      /\ DOMAIN new.arena = DOMAIN book.arena
      /\ \A s \in DOMAIN book.arena : new.arena[s].id = book.arena[s].id
      /\ price \in Price
      /\ \E level \in Level :
           new.levels = [book.levels EXCEPT ![Other] = Put(@, price, level)]
  BY InvType, TradedType
<1>2. Other \in Side /\ BookSound(book)
  BY InvType, TakerType DEF Inv
<1> HIDE DEF new
<1>3. SlotsSound(new)
  BY <1>1, <1>2, SameSlotsSound DEF SameSlots, BookSound
<1>4. NonEmptyBut(book.levels, Other, price)
  BY <1>2 DEF BookSound, NonEmptyLevels, NonEmptyBut
<1>5. NonEmptyBut(new.levels, Other, price)
  BY <1>1, <1>2, <1>4, NonEmptyButLemma DEF BookSound
<1> QED BY <1>1, <1>3, <1>5 DEF new

LEMMA FillMakerSound ==
  ASSUME Inv, Matching, NEW price, FillMaker(price), cmd' = cmd
  PROVE  Inv'
<1> DEFINE new   == Traded(price)
           maker == MakerAt(price)
           id    == book.arena[maker].id
           gone  == ArenaRemove(IndexRemove(new, id), maker)
           side  == Other
<1>1. TradesAt(price) /\ CountFill(price) /\ book' = RemoveEmpty(gone, side, price)
  BY DEF FillMaker
<1>2. BookTypeOK(new) /\ SlotsSound(new) /\ NonEmptyBut(new.levels, side, price)
  BY <1>1, MiddleOfTrade
<1>3. /\ new.ids = book.ids /\ DOMAIN new.arena = DOMAIN book.arena
      /\ \A s \in DOMAIN book.arena : new.arena[s].id = book.arena[s].id
      /\ maker \in DOMAIN book.arena
      /\ TradeQty(price) \in Qty
  BY <1>1, InvType, TradedType
<1>4. side \in Side
  BY InvType, TakerType
<1> HIDE DEF new, maker, side
<1>5. /\ BookTypeOK(gone) /\ SlotsSound(gone) /\ gone.levels = new.levels
      /\ gone.ids = Drop(new.ids, id)
  BY <1>2, <1>3, ForgetSound
<1>6. \A s \in DOMAIN gone.arena : s \in DOMAIN book.arena /\ gone.arena[s].id = book.arena[s].id
  <2>1. gone.arena = Drop(new.arena, maker)
    BY DEF ArenaRemove, IndexRemove, Drop
  <2> QED BY <1>3, <2>1 DEF Drop
<1> HIDE DEF gone, id
<1>7. BookSound(book')
  BY <1>1, <1>2, <1>4, <1>5, RemoveEmptyKeeps
<1>8. book'.ids = gone.ids /\ book'.arena = gone.arena
  BY <1>1, <1>2, <1>4, <1>5, RemoveEmptyKeeps
<1>9. StackSound(stack') /\ Top'.slot = Top.slot
  BY <1>1, <1>3, CountFillSound
<1>10. TakerApart'
  <2>1. ASSUME Matching'
        PROVE  Taker'.id = Taker.id
    BY <2>1, <1>6, <1>8, <1>9 DEF Matching, Taker
  <2>2. DOMAIN book'.ids \subseteq DOMAIN book.ids
    BY <1>3, <1>5, <1>8 DEF Drop
  <2> QED BY <2>1, <2>2 DEF TakerApart, Inv
<1> QED BY <1>7, <1>9, <1>10 DEF Inv

LEMMA CutMakerSound ==
  ASSUME Inv, Matching, NEW price, CutMaker(price), cmd' = cmd
  PROVE  Inv'
<1> DEFINE new   == Traded(price)
           maker == MakerAt(price)
           side  == Other
<1>1. TradesAt(price) /\ CountFill(price) /\ book' = ReinsertAtHead(new, maker, side, price)
  BY DEF CutMaker
<1>2. BookTypeOK(new) /\ SlotsSound(new) /\ NonEmptyBut(new.levels, side, price)
  BY <1>1, MiddleOfTrade
<1>3. /\ new.ids = book.ids /\ DOMAIN new.arena = DOMAIN book.arena
      /\ \A s \in DOMAIN book.arena : new.arena[s].id = book.arena[s].id
      /\ maker \in DOMAIN book.arena /\ price \in Price
      /\ TradeQty(price) \in Qty
  BY <1>1, InvType, TradedType
<1>4. side \in Side
  BY InvType, TakerType
<1> HIDE DEF new, maker, side
<1>5. BookSound(book') /\ SameSlots(new, book')
  BY <1>1, <1>2, <1>3, <1>4, ReinsertKeeps
<1>6. StackSound(stack') /\ Top'.slot = Top.slot
  BY <1>1, <1>3, CountFillSound
<1>7. TakerApart'
  <2>1. ASSUME Matching'
        PROVE  Taker'.id = Taker.id
    BY <2>1, <1>3, <1>5, <1>6 DEF Matching, Taker, SameSlots
  <2>2. book'.ids = book.ids
    BY <1>3, <1>5 DEF SameSlots
  <2> QED BY <2>1, <2>2 DEF TakerApart, Inv
<1> QED BY <1>5, <1>6, <1>7 DEF Inv

LEMMA RestSound ==
  ASSUME Inv, Rest
  PROVE  Inv'
<1> DEFINE slot  == Top.slot
           loc   == [slot |-> slot, side |-> Taker.side, price |-> Taker.price]
           known == IndexInsert(book, Taker.id, loc)
<1>1. Matching /\ ThenStops /\ cmd' = cmd /\ book' = InsertResting(known, slot)
  BY DEF Rest
<1>2. /\ slot \in DOMAIN book.arena /\ slot \in Slot /\ Taker = book.arena[slot]
      /\ Taker \in Order
  BY <1>1, InvType, TakerType DEF Matching, Taker
<1>3. Taker.id \in OrderId /\ loc \in Location /\ loc.slot = slot
  BY <1>2 DEF Order, Location
<1>4. book.arena[slot].id = Taker.id
  BY <1>2
<1>5. BookTypeOK(book) /\ NonEmptyLevels(book.levels) /\ SlotsSound(book)
  BY DEF Inv, BookSound
<1> HIDE DEF loc, slot
<1>6. /\ BookTypeOK(known) /\ SlotsSound(known) /\ known.levels = book.levels
      /\ known.arena = book.arena
  BY <1>2, <1>3, <1>4, <1>5, IndexType, IndexInsertSound
<1> HIDE DEF known
<1>7. BookSound(known) /\ slot \in DOMAIN known.arena
  BY <1>2, <1>5, <1>6 DEF BookSound
<1>8. BookSound(book')
  BY <1>1, <1>7, InsertRestingKeeps
<1>9. StackSound(stack') /\ ~Matching'
  BY <1>1, ThenStopsSound DEF Inv, Matching, In
<1> QED BY <1>1, <1>8, <1>9 DEF Inv, TakerApart

\* A trigger_stops call that has passed over its first stop is still one.
LEMMA PoppedFrame ==
  ASSUME Inv, Triggering, NEW p \in DOMAIN Top.todo
  PROVE  /\ FrameOK(Popped(p)) /\ Popped(p).call = "trigger_stops"
         /\ Head(Top.todo[p]) \in Slot
<1> DEFINE todo == Top.todo
           left == IF Len(todo[p]) = 1 THEN Drop(todo, p) ELSE Put(todo, p, Tail(todo[p]))
<1>1. FrameOK(Top) /\ Top.call = "trigger_stops"
  BY InvType, TopType DEF Triggering, In
<1>2. /\ Top = [call |-> "trigger_stops", side |-> Top.side, last |-> Top.last, todo |-> todo]
      /\ Top.side \in Side /\ Top.last \in Price
      /\ IsMap(todo, Price, Seq(Slot) \ {<<>>})
  BY <1>1 DEF FrameOK, ApplyNew, MatchOrder
<1>3. Popped(p) = [Top EXCEPT !.todo = left]
  BY DEF Popped
<1> HIDE DEF todo
<1>4. todo[p] \in Seq(Slot) /\ todo[p] # <<>> /\ p \in Price
  BY <1>2 DEF IsMap, todo
<1>5. IsMap(left, Price, Seq(Slot) \ {<<>>})
  <2>1. CASE Len(todo[p]) = 1
    BY <2>1, <1>2, DropLemma
  <2>2. CASE Len(todo[p]) # 1
    <3>1. Tail(todo[p]) \in Seq(Slot) /\ Len(Tail(todo[p])) = Len(todo[p]) - 1
      BY <1>4
    <3>2. Len(todo[p]) \in Nat /\ Len(todo[p]) # 0
      BY <1>4, EmptySeq
    <3>3. Tail(todo[p]) \in Seq(Slot) \ {<<>>}
      <4>1. Len(Tail(todo[p])) # 0
        BY <2>2, <3>1, <3>2
      <4> QED BY <3>1, <4>1, EmptySeq
    <3> QED BY <2>2, <3>3, <1>2, <1>4, PutLemma
  <2> QED BY <2>1, <2>2
<1> HIDE DEF left
<1>6. Popped(p) = [call |-> "trigger_stops", side |-> Top.side, last |-> Top.last, todo |-> left]
  BY <1>2, <1>3
<1>7. FrameOK(Popped(p)) /\ Popped(p).call = "trigger_stops"
  BY <1>2, <1>5, <1>6 DEF FrameOK
<1>8. Head(todo[p]) \in Slot
  BY <1>4
<1> QED BY <1>7, <1>8 DEF todo

LEMMA SkipStopSound ==
  ASSUME Inv, Triggering, NEW p \in DOMAIN Top.todo, SkipStop(p), cmd' = cmd
  PROVE  Inv'
<1>1. stack' = [stack EXCEPT ![Len(stack)] = Popped(p)] /\ book' = book
  BY DEF SkipStop, Become
<1>2. StackSound(stack') /\ stack'[Len(stack')] = Popped(p)
  BY <1>1, PoppedFrame, BecomeSound DEF Inv, Triggering, In
<1>3. ~Matching'
  BY <1>2, PoppedFrame DEF Matching, In, Top
<1> QED BY <1>1, <1>2, <1>3 DEF Inv, TakerApart

LEMMA FireStopSound ==
  ASSUME Inv, Triggering, NEW p \in DOMAIN Top.todo, FireStop(p), cmd' = cmd
  PROVE  Inv'
<1> DEFINE slot  == Head(Top.todo[p])
           stop  == book.arena[slot]
           no    == [id |-> stop.id, side |-> stop.side,
                     kind |-> IF stop.kind = "StopMarket" THEN "Market" ELSE "Limit",
                     price |-> stop.price, stop_price |-> 0, qty |-> stop.remaining]
           below == [stack EXCEPT ![Len(stack)] = Popped(p)]
<1>1. /\ slot \in DOMAIN book.arena
      /\ book' = ArenaRemove(IndexRemove(book, stop.id), slot)
      /\ stack' = Append(below, ApplyNew(no))
  BY DEF FireStop, CallFrom
<1>2. BookSound(book')
  BY <1>1, ForgetSound DEF Inv, BookSound
<1>3. stop \in Order
  BY <1>1 DEF Inv, BookSound, BookTypeOK, IsMap
<1>4. no \in NewOrder
  <2> HIDE DEF stop
  <2> QED BY <1>3 DEF NewOrder, Order, Kind, Price
<1> HIDE DEF no, stop, slot
<1>5. FrameOK(ApplyNew(no)) /\ ApplyNew(no).call = "apply_new"
  BY <1>4 DEF FrameOK, ApplyNew
<1>6. StackSound(below) /\ below # <<>> /\ below[Len(below)].call = "trigger_stops"
  BY PoppedFrame, BecomeSound DEF Inv, Triggering, In
<1> HIDE DEF below
<1>7. StackSound(stack') /\ stack'[Len(stack')] = ApplyNew(no)
  BY <1>1, <1>5, <1>6, PushSound
<1>8. ~Matching'
  BY <1>5, <1>7 DEF Matching, In, Top
<1> QED BY <1>2, <1>7, <1>8 DEF Inv, TakerApart

LEMMA EndStopsSound ==
  ASSUME Inv, EndStops
  PROVE  Inv'
<1> DEFINE left == {p \in DOMAIN book.stops[Top.side] : ~Reached(Top.side, Top.last, p)}
<1>1. FrameOK(Top) /\ Top.call = "trigger_stops" /\ stack # <<>>
  BY InvType, TopType DEF EndStops, Triggering, In
<1>2. Top.side \in Side /\ Top.last \in Price
  BY <1>1 DEF FrameOK, ApplyNew, MatchOrder
<1>3. book' = [book EXCEPT !.stops[Top.side] = Keep(@, left)] /\ cmd' = cmd
  BY DEF EndStops
<1> HIDE DEF left
<1>4. BookSound(book')
  <2>1. BookTypeOK(book) /\ NonEmptyLevels(book.levels) /\ SlotsSound(book)
    BY DEF Inv, BookSound
  <2>2. /\ BookTypeOK(book') /\ book'.levels = book.levels /\ book'.arena = book.arena
        /\ book'.ids = book.ids /\ book'.vacant = book.vacant /\ book'.slots = book.slots
    BY <1>2, <1>3, <2>1, KeepStopsType
  <2>3. SameSlots(book, book')
    BY <2>2 DEF SameSlots
  <2> QED BY <2>1, <2>2, <2>3, SameSlotsSound DEF BookSound
<1>5. StackSound(stack') /\ ~Matching'
  <2>1. CASE Return
    BY <1>1, <2>1, ReturnStep DEF Inv
  <2>2. CASE Become(TriggerStops(book, "Sell", Top.last))
    <3> DEFINE frame == TriggerStops(book, "Sell", Top.last)
    <3>1. FrameOK(frame)
      BY <1>2, TriggerFrame DEF Inv, BookSound, Side
    <3>2. frame.call = "trigger_stops"
      BY DEF TriggerStops
    <3>3. stack' = [stack EXCEPT ![Len(stack)] = frame]
      BY <2>2 DEF Become
    <3> HIDE DEF frame
    <3>4. /\ StackSound([stack EXCEPT ![Len(stack)] = frame])
          /\ [stack EXCEPT ![Len(stack)] = frame][Len([stack EXCEPT ![Len(stack)] = frame])] = frame
      <4>1. StackSound(stack) /\ stack # <<>>
        BY <1>1 DEF Inv
      <4> QED BY <3>1, <4>1, BecomeSound
    <3> QED BY <3>2, <3>3, <3>4 DEF Matching, In, Top
  <2> QED BY <2>1, <2>2 DEF EndStops
<1> QED BY <1>3, <1>4, <1>5 DEF Inv, TakerApart

LEMMA DeliverSound ==
  ASSUME Inv, Deliver
  PROVE  Inv'
BY DEF Deliver, Inv, TakerApart, Matching, In

LEMMA StutterSound ==
  ASSUME Inv, UNCHANGED vars
  PROVE  Inv'
BY DEF vars, Inv, TakerApart, Matching, In, Top, Taker

LEMMA StepSound ==
  ASSUME Inv, [Next]_vars
  PROVE  Inv'
<1>1. CASE Receive
  BY <1>1, NewSound, CancelSound, ReplaceSound DEF Receive
<1>2. CASE RejectNew  BY <1>2, RejectNewSound
<1>3. CASE HoldStop   BY <1>3, HoldStopSound
<1>4. CASE KillFok    BY <1>4, KillFokSound
<1>5. CASE StartMatch BY <1>5, StartMatchSound
<1>6. CASE MatchStep
  BY <1>6, FillMakerSound, CutMakerSound DEF MatchStep
<1>7. CASE FinishFilled BY <1>7, FinishFilledSound
<1>8. CASE Rest         BY <1>8, RestSound
<1>9. CASE CancelRest   BY <1>9, CancelRestSound
<1>10. CASE VisitStop
  BY <1>10, SkipStopSound, FireStopSound DEF VisitStop
<1>11. CASE EndStops BY <1>11, EndStopsSound
<1>12. CASE Deliver  BY <1>12, DeliverSound
<1>13. CASE UNCHANGED vars BY <1>13, StutterSound
<1> QED BY <1>1, <1>2, <1>3, <1>4, <1>5, <1>6, <1>7, <1>8, <1>9, <1>10, <1>11, <1>12, <1>13
        DEF Next, Apply

(***************************************************************************)
(* Theorems.                                                               *)
(***************************************************************************)

\* The strengthened invariant holds in every reachable state of apply.
THEOREM InvHolds == Spec => []Inv
<1>1. Init => Inv
  BY InitSound
<1>2. Inv /\ [Next]_vars => Inv'
  BY StepSound
<1> QED BY <1>1, <1>2, PTL DEF Spec

\* apply keeps book, call stack and command well typed: quantities stay words
\* though the release profile wraps, and no slot or id is out of range.
THEOREM TypeCorrect == Spec => []TypeOK
<1>1. Inv => TypeOK
  BY InvType
<1> QED BY <1>1, InvHolds, PTL

\* match_order never finds a best level without a head, whichever stops are
\* cancelled, replaced or fired in between.
THEOREM NoEmptyLevel == Spec => []LevelsNonEmpty
<1>1. Inv => LevelsNonEmpty
  BY DEF Inv, BookSound, NonEmptyLevels, LevelsNonEmpty
<1> QED BY <1>1, InvHolds, PTL

\* An index entry never leads to a vacant slot or to another client's order,
\* though the slab reuses slots and stops leave stale slots in their trees.
THEOREM IndexAlwaysSound == Spec => []IndexSound
<1>1. Inv => IndexSound
  BY DEF Inv, BookSound, SlotsSound, IdsSound, IndexSound
<1> QED BY <1>1, InvHolds, PTL

=============================================================================
