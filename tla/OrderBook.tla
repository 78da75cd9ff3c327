------------------------------ MODULE OrderBook ------------------------------
(***************************************************************************)
(* The limit order book of crates/core (book.rs, price_level.rs, order.rs, *)
(* types.rs) and the operations it offers to the matcher, as operators     *)
(* from book to book.                                                      *)
(*                                                                         *)
(* A book is a record                                                      *)
(*   arena   slot -> order, the slab that holds every live order           *)
(*   vacant  the slab's free list, the most recently freed slot first      *)
(*   slots   how many slots the slab ever had                              *)
(*   ids     order id -> [slot, side, price], the id index                 *)
(*   levels  side -> price -> level, the trees `bids` and `asks`           *)
(*   stops   side -> price -> slots, the trees `stop_buys`, `stop_sells`   *)
(*   last    the price of the last trade, or None                          *)
(*                                                                         *)
(* Orders of a level are chained through the fields prev and next of the   *)
(* orders themselves; a level knows its two ends and its total quantity.   *)
(* The fields the matcher never reads (symbol, tick, tif, seq, ts, status, *)
(* a level's count) are left out.                                          *)
(***************************************************************************)
EXTENDS Integers, Sequences, FiniteSets

CONSTANTS
  OrderId,    \* the identifiers clients give their orders
  QtyMod,     \* quantities are unsigned words: 0 .. QtyMod - 1 (2^64 in the code)
  None        \* Option::None

ASSUME NoneAssumption == None \notin Int
ASSUME QtyModAssumption == QtyMod \in Nat \ {0}

Side  == {"Buy", "Sell"}
Kind  == {"Limit", "Market", "Ioc", "Fok", "StopMarket", "StopLimit"}
Price == Int
Qty   == 0 .. QtyMod - 1
Slot  == Nat

Optional(S) == {None} \cup S

Order == [id : OrderId, side : Side, kind : Kind, price : Price, stop_price : Price,
          remaining : Qty, prev : Optional(Slot), next : Optional(Slot)]

Level == [head : Optional(Slot), tail : Optional(Slot), total : Qty]

Location == [slot : Slot, side : Side, price : Price]

(***************************************************************************)
(* Maps and machine arithmetic.                                            *)
(***************************************************************************)

Put(map, key, value) ==
  [k \in DOMAIN map \cup {key} |-> IF k = key THEN value ELSE map[k]]

Keep(map, keys) == [k \in DOMAIN map \cap keys |-> map[k]]

Drop(map, key) == [k \in DOMAIN map \ {key} |-> map[k]]

\* u64 addition and subtraction of the release profile wrap around.
Plus(m, n)  == (m + n) % QtyMod
Minus(m, n) == (m - n) % QtyMod

\* Mutant: a checked level total would go below zero.
PlainSub(m, n) == m - n

SaturatingSub(m, n) == IF m >= n THEN m - n ELSE 0

Least(m, n) == IF m <= n THEN m ELSE n

Opposite(side) == IF side = "Buy" THEN "Sell" ELSE "Buy"

\* The order of a tree's keys: bids are iterated from the highest price
\* (Reverse<Price>), asks from the lowest.
Ahead(side, p, q) == IF side = "Buy" THEN p > q ELSE p < q

\* p is the first key of a map ordered that way.
IsFirst(side, map, p) ==
  /\ p \in DOMAIN map
  /\ \A q \in DOMAIN map : ~Ahead(side, q, p)

(***************************************************************************)
(* The arena: a slab hands out the slot freed last, or a new one.          *)
(***************************************************************************)

VacantSlot(book) == IF book.vacant = <<>> THEN book.slots ELSE Head(book.vacant)

ArenaInsert(book, order) ==
  [book EXCEPT !.arena  = Put(@, VacantSlot(book), order),
               !.vacant = IF @ = <<>> THEN <<>> ELSE Tail(@),
               !.slots  = IF book.vacant = <<>> THEN @ + 1 ELSE @]

\* Mutant: an order that is done with keeps its slot.
ArenaLeak(book, slot) == book

ArenaRemove(book, slot) ==
  [book EXCEPT !.arena = Drop(@, slot), !.vacant = <<slot>> \o @]

\* Indexing the slab at a vacant slot panics; a reference is safe otherwise.
Safe(book, ref) == ref \in Optional(DOMAIN book.arena)

IndexInsert(book, id, location) == [book EXCEPT !.ids = Put(@, id, location)]

IndexRemove(book, id) == [book EXCEPT !.ids = Drop(@, id)]

(***************************************************************************)
(* Price levels.                                                           *)
(***************************************************************************)

EmptyLevel == [head |-> None, tail |-> None, total |-> 0]

LevelAt(book, side, price) ==
  IF price \in DOMAIN book.levels[side] THEN book.levels[side][price] ELSE EmptyLevel

SetLevel(book, side, price, level) ==
  [book EXCEPT !.levels[side] = Put(@, price, level)]

DropLevel(book, side, price) == [book EXCEPT !.levels[side] = Drop(@, price)]

\* Mutant: the level does not count what joins it.
PushUncounted(level, slot, qty) ==
  [level EXCEPT !.head = IF level.tail = None THEN slot ELSE @, !.tail = slot]

\* PriceLevel::push_back
PushBack(level, slot, qty) ==
  [head  |-> IF level.tail = None THEN slot ELSE level.head,
   tail  |-> slot,
   total |-> Plus(level.total, qty)]

\* Writing one link of the chain, if there is an order to write it in.
SetNext(arena, ref, next) == IF ref = None THEN arena ELSE [arena EXCEPT ![ref].next = next]

\* Mutant: the back links are forgotten.
ForgetPrev(arena, ref, prev) == arena

SetPrev(arena, ref, prev) == IF ref = None THEN arena ELSE [arena EXCEPT ![ref].prev = prev]

\* OrderBook::insert_resting: the order joins the back of the level at its price.
InsertResting(book, slot) ==
  LET order == book.arena[slot]
      level == LevelAt(book, order.side, order.price)
      wired == [book.arena EXCEPT ![slot].prev = level.tail, ![slot].next = None]
  IN  [SetLevel(book, order.side, order.price, PushBack(level, slot, order.remaining))
         EXCEPT !.arena = SetNext(wired, level.tail, slot)]

\* OrderBook::pop_bid_head and pop_ask_head, for a level that has a head.
PopHead(book, side, price) ==
  LET level == book.levels[side][price]
      head  == book.arena[level.head]
  IN  [SetLevel(book, side, price,
                [head  |-> head.next,
                 tail  |-> IF head.next = None THEN None ELSE level.tail,
                 total |-> SaturatingSub(level.total, head.remaining)])
         EXCEPT !.arena = SetPrev(@, head.next, None)]

\* Mutant: a level that has lost its last order stays.
KeepEmpty(book, side, price) == book

\* OrderBook::remove_empty_bid and remove_empty_ask
RemoveEmpty(book, side, price) ==
  IF LevelAt(book, side, price).head = None THEN DropLevel(book, side, price) ELSE book

\* Mutant: a partly filled maker joins the back of its level.
ReinsertAtTail(book, slot, side, price) == InsertResting(book, slot)

\* matcher::reinsert_at_head: a maker that is not used up gets its place back.
ReinsertAtHead(book, slot, side, price) ==
  LET level == LevelAt(book, side, price)
      wired == [book.arena EXCEPT ![slot].prev = None, ![slot].next = level.head]
  IN  [SetLevel(book, side, price,
                [head  |-> slot,
                 tail  |-> IF level.tail = None THEN slot ELSE level.tail,
                 total |-> Plus(level.total, book.arena[slot].remaining)])
         EXCEPT !.arena = SetPrev(wired, level.head, slot)]

\* Mutant: the level's tail is not moved when its last order goes away.
RemoveKeepsTail(book, slot, side, price, qty) ==
  LET order    == book.arena[slot]
      stitched == SetPrev(SetNext(book.arena, order.prev, order.next), order.next, order.prev)
      level    == LevelAt(book, side, price)
      shrunk   == [head  |-> IF level.head = slot THEN order.next ELSE level.head,
                   tail  |-> level.tail,
                   total |-> SaturatingSub(level.total, qty)]
  IN  RemoveEmpty(SetLevel([book EXCEPT !.arena = stitched], side, price, shrunk), side, price)

\* OrderBook::remove_slot: unlink an order from the middle of its level. The
\* level is the one at `price`, whether or not the order is chained in it.
RemoveSlot(book, slot, side, price, qty) ==
  LET order    == book.arena[slot]
      stitched == SetPrev(SetNext(book.arena, order.prev, order.next), order.next, order.prev)
      level    == LevelAt(book, side, price)
      shrunk   == [head  |-> IF level.head = slot THEN order.next ELSE level.head,
                   tail  |-> IF level.tail = slot THEN order.prev ELSE level.tail,
                   total |-> SaturatingSub(level.total, qty)]
      unlinked == [book EXCEPT !.arena = stitched]
  IN  IF price \in DOMAIN book.levels[side]
        THEN RemoveEmpty(SetLevel(unlinked, side, price, shrunk), side, price)
        ELSE unlinked

(***************************************************************************)
(* Stop orders wait in the tree of their side under their trigger price.   *)
(***************************************************************************)

HoldStopAt(book, side, trigger, slot) ==
  LET held == IF trigger \in DOMAIN book.stops[side] THEN book.stops[side][trigger] ELSE <<>>
  IN  [book EXCEPT !.stops[side] = Put(@, trigger, Append(held, slot))]

\* Mutant: the two sides are swapped.
ReachedSwapped(side, last, trigger) ==
  IF side = "Sell" THEN trigger <= last ELSE trigger >= last

\* A trade at `last` reaches a buy stop at or below it, a sell stop at or above it.
Reached(side, last, trigger) == IF side = "Buy" THEN trigger <= last ELSE trigger >= last

EmptyBook ==
  [arena  |-> << >>, vacant |-> << >>, slots |-> 0, ids |-> << >>,
   levels |-> [side \in Side |-> << >>], stops |-> [side \in Side |-> << >>],
   last   |-> None]

(***************************************************************************)
(* The shape of a book.                                                    *)
(***************************************************************************)

IsMap(map, D, R) == /\ DOMAIN map \subseteq D
                    /\ map = [k \in DOMAIN map |-> map[k]]
                    /\ \A k \in DOMAIN map : map[k] \in R

IsBook(book) ==
  book \in [arena : {book.arena}, vacant : {book.vacant}, slots : {book.slots},
            ids : {book.ids}, levels : {book.levels}, stops : {book.stops},
            last : {book.last}]

BookTypeOK(book) ==
  /\ IsBook(book)
  /\ IsMap(book.arena, Slot, Order)
  /\ book.vacant \in Seq(Slot)
  /\ book.slots \in Nat
  /\ IsMap(book.ids, OrderId, Location)
  /\ DOMAIN book.levels = Side /\ DOMAIN book.stops = Side
  /\ \A side \in Side : IsMap(book.levels[side], Price, Level)
  /\ \A side \in Side : IsMap(book.stops[side], Price, Seq(Slot) \ {<<>>})
  /\ book.last \in Optional(Price)

=============================================================================
