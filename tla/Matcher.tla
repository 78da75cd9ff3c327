------------------------------- MODULE Matcher -------------------------------
(***************************************************************************)
(* matcher::apply of crates/core: one shard applies one command at a time  *)
(* to one book. The function runs to completion before the next command,   *)
(* but it calls itself (apply_new, trigger_stops, apply_new, ...), so it   *)
(* is modelled as a machine with an explicit call stack: an action is one  *)
(* of apply_new's branches, one iteration of a loop, or a return. The      *)
(* stack is empty between commands.                                        *)
(*                                                                         *)
(* A slab access that panics has no action: the process has stopped        *)
(* (panic = "abort"), and a run that checks deadlock shows it cannot. The  *)
(* same holds for a call that does not fit on the native stack.            *)
(***************************************************************************)
EXTENDS OrderBook, FiniteSetsExt

CONSTANTS
  Commands,   \* the commands clients may send
  MaxDepth    \* how many calls fit on the thread's native stack

NewOrder == [id : OrderId, side : Side, kind : Kind, price : Price,
             stop_price : Price, qty : Qty]

Command == [op : {"New"}, order : NewOrder]
             \cup [op : {"Cancel"}, id : OrderId]
             \cup [op : {"Replace"}, id : OrderId, new_price : Price, new_qty : Qty]

ASSUME CommandsAssumption == Commands \subseteq Command
ASSUME MaxDepthAssumption == MaxDepth \in Nat

\* Between commands the thread has Option::None, which is no command.
ASSUME NoCommandAssumption == None \notin Commands

\* Option::None is none of apply_new's reasons to refuse an order.
ASSUME ReasonAssumption == None \notin {"ZeroQty", "DuplicateId", "BadPrice"}

VARIABLES
  book,    \* the OrderBook
  stack,   \* the calls in progress, innermost last
  out,     \* the events the command has produced
  cmd      \* the command being applied or just applied, None when idle

vars == <<book, stack, out, cmd>>

(***************************************************************************)
(* Calls and events.                                                       *)
(***************************************************************************)

ApplyNew(order)          == [call |-> "apply_new", order |-> order]
MatchOrder(slot, filled) == [call |-> "match_order", slot |-> slot, filled |-> filled]

\* Mutant: all stops of the side are collected.
TriggerAll(b, side, last) ==
  [call |-> "trigger_stops", side |-> side, last |-> last, todo |-> b.stops[side]]

\* trigger_stops first collects the stops of a side that `last` reaches.
TriggerStops(b, side, last) ==
  [call |-> "trigger_stops", side |-> side, last |-> last,
   todo |-> Keep(b.stops[side], {p \in DOMAIN b.stops[side] : Reached(side, last, p)})]

Top      == stack[Len(stack)]
In(call) == stack # <<>> /\ Top.call = call

Become(frame)          == stack' = [stack EXCEPT ![Len(stack)] = frame]
CallFrom(frame, callee) == stack' = Append([stack EXCEPT ![Len(stack)] = frame], callee)
Return                 == stack' = SubSeq(stack, 1, Len(stack) - 1)

Accepted(id)         == [event |-> "Accepted", id |-> id]
Filled(id)           == [event |-> "Filled", id |-> id]
Cancelled(id)        == [event |-> "Cancelled", id |-> id]
Replaced(id)         == [event |-> "Replaced", id |-> id]
Rejected(id, reason) == [event |-> "Rejected", id |-> id, reason |-> reason]
PartiallyFilled(id, filled, remaining) ==
  [event |-> "PartiallyFilled", id |-> id, filled |-> filled, remaining |-> remaining]
Trade(taker, maker, price, qty) ==
  [event |-> "Trade", taker |-> taker, maker |-> maker, price |-> price, qty |-> qty]

Emit(events) == out' = out \o events
Events(kind) == {i \in DOMAIN out : out[i].event = kind}

(***************************************************************************)
(* A command arrives.                                                      *)
(***************************************************************************)

Idle == stack = <<>> /\ cmd = None

New(c) ==
  /\ Idle /\ c.op = "New"
  /\ cmd' = c
  /\ stack' = <<ApplyNew(c.order)>>
  /\ UNCHANGED <<book, out>>

\* Mutant: the id of a cancelled order stays in the index.
WithoutButIndexed(id) ==
  LET loc == book.ids[id]
  IN  ArenaRemove(RemoveSlot(book, loc.slot, loc.side, loc.price,
                             book.arena[loc.slot].remaining), loc.slot)

\* The book without the order: unlinked at the place its index entry names.
Without(id) ==
  LET loc == book.ids[id]
  IN  ArenaRemove(RemoveSlot(IndexRemove(book, id), loc.slot, loc.side, loc.price,
                             book.arena[loc.slot].remaining), loc.slot)

\* The order an index entry leads to is there, and so are its neighbours.
CanUnlink(id) ==
  /\ book.ids[id].slot \in DOMAIN book.arena
  /\ Safe(book, book.arena[book.ids[id].slot].prev)
  /\ Safe(book, book.arena[book.ids[id].slot].next)

Refuse(c, reason) ==
  /\ cmd' = c
  /\ Emit(<<Rejected(c.id, reason)>>)
  /\ UNCHANGED <<book, stack>>

Cancel(c) ==
  /\ Idle /\ c.op = "Cancel"
  /\ \/ /\ c.id \notin DOMAIN book.ids
        /\ Refuse(c, "UnknownId")
     \/ /\ c.id \in DOMAIN book.ids /\ CanUnlink(c.id)
        /\ cmd' = c
        /\ book' = Without(c.id)
        /\ Emit(<<Cancelled(c.id)>>)
        /\ UNCHANGED stack

\* Cancel, then submit the rest of the order anew under its id.
Replace(c) ==
  /\ Idle /\ c.op = "Replace"
  /\ \/ /\ c.new_qty = 0
        /\ Refuse(c, "ZeroQty")
     \/ /\ c.new_qty # 0 /\ c.id \notin DOMAIN book.ids
        /\ Refuse(c, "UnknownId")
     \/ /\ c.new_qty # 0 /\ c.id \in DOMAIN book.ids /\ CanUnlink(c.id)
        /\ cmd' = c
        /\ book' = Without(c.id)
        /\ Emit(<<Replaced(c.id)>>)
        /\ LET old == book.arena[book.ids[c.id].slot]
           IN  stack' = <<ApplyNew([id |-> c.id, side |-> old.side, kind |-> old.kind,
                                    price |-> c.new_price, stop_price |-> 0,
                                    qty |-> c.new_qty])>>

(***************************************************************************)
(* apply_new up to the match.                                              *)
(***************************************************************************)

Refusal(no) ==
  IF no.qty = 0 THEN "ZeroQty"
  ELSE IF no.id \in DOMAIN book.ids THEN "DuplicateId"
  ELSE IF no.kind \notin {"Market", "StopMarket"} /\ no.price <= 0 THEN "BadPrice"
  ELSE None

IsStop(no) == no.kind \in {"StopMarket", "StopLimit"}

OrderOf(no) ==
  [id |-> no.id, side |-> no.side, kind |-> no.kind, price |-> no.price,
   stop_price |-> no.stop_price, remaining |-> no.qty, prev |-> None, next |-> None]

\* What the levels within the limit hold together, a saturating sum.
Within(side, limit, price) == IF side = "Buy" THEN price <= limit ELSE price >= limit

\* Mutant: the limit is ignored.
AvailableAnywhere(side, limit) ==
  LET levels == book.levels[Opposite(side)]
  IN  MapThenSumSet(LAMBDA p : levels[p].total, DOMAIN levels)

\* Mutant: only the best level counts.
AvailableAtBest(side, limit) ==
  LET levels == book.levels[Opposite(side)]
      within == {p \in DOMAIN levels : Within(side, limit, p) /\ IsFirst(Opposite(side), levels, p)}
  IN  MapThenSumSet(LAMBDA p : levels[p].total, within)

Available(side, limit) ==
  LET levels == book.levels[Opposite(side)]
      within == {p \in DOMAIN levels : Within(side, limit, p)}
  IN  Least(MapThenSumSet(LAMBDA p : levels[p].total, within), QtyMod - 1)

Unfillable(no) == no.kind = "Fok" /\ Available(no.side, no.price) < no.qty

RejectNew ==
  /\ In("apply_new") /\ Refusal(Top.order) # None
  /\ Emit(<<Rejected(Top.order.id, Refusal(Top.order))>>)
  /\ Return
  /\ UNCHANGED <<book, cmd>>

HoldStop ==
  /\ In("apply_new") /\ Refusal(Top.order) = None /\ IsStop(Top.order)
  /\ LET no   == Top.order
         slot == VacantSlot(book)
     IN  book' = HoldStopAt(
                   IndexInsert(ArenaInsert(book, OrderOf(no)), no.id,
                               [slot |-> slot, side |-> no.side, price |-> no.stop_price]),
                   no.side, no.stop_price, slot)
  /\ Emit(<<Accepted(Top.order.id)>>)
  /\ Return
  /\ UNCHANGED cmd

KillFok ==
  /\ In("apply_new") /\ Refusal(Top.order) = None /\ Unfillable(Top.order)
  /\ Emit(<<Accepted(Top.order.id), Rejected(Top.order.id, "FokUnfillable")>>)
  /\ Return
  /\ UNCHANGED <<book, cmd>>

StartMatch ==
  /\ In("apply_new") /\ Refusal(Top.order) = None
  /\ ~IsStop(Top.order) /\ ~Unfillable(Top.order)
  /\ Emit(<<Accepted(Top.order.id)>>)
  /\ book' = ArenaInsert(book, OrderOf(Top.order))
  /\ Become(MatchOrder(VacantSlot(book), 0))
  /\ UNCHANGED cmd

(***************************************************************************)
(* match_order: the order in Top.slot takes from the other side.           *)
(***************************************************************************)

Matching == In("match_order") /\ Top.slot \in DOMAIN book.arena
Taker    == book.arena[Top.slot]
Other    == Opposite(Taker.side)

\* Mutant: a limit order does not trade at its own limit.
CrossesStrictly(price) ==
  \/ Taker.kind \in {"Market", "Ioc", "Fok"}
  \/ IF Taker.side = "Buy" THEN price < Taker.price ELSE price > Taker.price

Crosses(price) ==
  Taker.kind \in {"Market", "Ioc", "Fok"} \/ Within(Taker.side, Taker.price, price)

\* The loop goes on at `price`: the best level crosses and has a head.
TradesAt(price) ==
  /\ Taker.remaining # 0
  /\ IsFirst(Other, book.levels[Other], price)
  /\ Crosses(price)
  /\ LET head == book.levels[Other][price].head
     IN  head \in DOMAIN book.arena /\ Safe(book, book.arena[head].next)

\* It ends: nothing left to fill, no level that crosses (the best one is the
\* first to cross), or a best level without orders.
LoopOver ==
  \/ Taker.remaining = 0
  \/ ~\E p \in DOMAIN book.levels[Other] : Crosses(p)
  \/ \E p \in DOMAIN book.levels[Other] :
       IsFirst(Other, book.levels[Other], p) /\ book.levels[Other][p].head = None

MakerAt(price)  == book.levels[Other][price].head

\* Mutant: the taker's quantity is taken even if the maker holds less.
TradeAllOfTaker(price) == Taker.remaining

TradeQty(price) == Least(Taker.remaining, book.arena[MakerAt(price)].remaining)

\* The head leaves its level and both orders shrink by the traded quantity.
Shrink(arena, slot, qty) == [arena EXCEPT ![slot].remaining = Minus(@, qty)]

Traded(price) ==
  [PopHead(book, Other, price) EXCEPT
     !.arena = Shrink(Shrink(@, Top.slot, TradeQty(price)), MakerAt(price), TradeQty(price)),
     !.last  = price]

TradeEvent(price) ==
  Trade(Taker.id, book.arena[MakerAt(price)].id, price, TradeQty(price))

CountFill(price) == Become([Top EXCEPT !.filled = Plus(@, TradeQty(price))])

FillMaker(price) ==
  LET maker == MakerAt(price)
      id    == book.arena[maker].id
  IN  /\ TradesAt(price)
      /\ Traded(price).arena[maker].remaining = 0
      /\ Emit(<<TradeEvent(price), Filled(id)>>)
      /\ book' = RemoveEmpty(ArenaRemove(IndexRemove(Traded(price), id), maker), Other, price)
      /\ CountFill(price)

\* A maker that is not used up goes back to the head of its level.
CutMaker(price) ==
  LET maker == MakerAt(price)
      left  == Traded(price).arena[maker].remaining
  IN  /\ TradesAt(price)
      /\ left # 0
      /\ Emit(<<TradeEvent(price),
                PartiallyFilled(book.arena[maker].id, TradeQty(price), left)>>)
      /\ book' = ReinsertAtHead(Traded(price), maker, Other, price)
      /\ CountFill(price)

MatchStep ==
  /\ Matching
  /\ \E price \in DOMAIN book.levels[Other] : FillMaker(price) \/ CutMaker(price)
  /\ UNCHANGED cmd

(***************************************************************************)
(* apply_new after the match, then the stops if there ever was a trade.    *)
(***************************************************************************)

\* Mutant: only the stops of one side are looked at.
ThenSellStops == IF book.last # None THEN Become(TriggerStops(book, "Sell", book.last))
                                     ELSE Return

ThenStops == IF book.last # None THEN Become(TriggerStops(book, "Buy", book.last))
                                 ELSE Return

FinishFilled ==
  /\ Matching /\ LoopOver
  /\ Top.filled > 0 /\ Taker.remaining = 0
  /\ Emit(<<Filled(Taker.id)>>)
  /\ book' = IndexRemove(ArenaRemove(book, Top.slot), Taker.id)
  /\ ThenStops
  /\ UNCHANGED cmd

\* Mutant: the fill reports the original quantity as what remains.
PartialFillOfAll ==
  IF Top.filled > 0
    THEN <<PartiallyFilled(Taker.id, Top.filled, Plus(Top.filled, Taker.remaining))>>
    ELSE <<>>

PartialFill == IF Top.filled > 0 THEN <<PartiallyFilled(Taker.id, Top.filled, Taker.remaining)>>
                                 ELSE <<>>

\* What is left of a limit order rests in the book ...
Rest ==
  /\ Matching /\ LoopOver
  /\ ~(Top.filled > 0 /\ Taker.remaining = 0)
  /\ Taker.kind = "Limit"
  /\ Safe(book, LevelAt(book, Taker.side, Taker.price).tail)
  /\ Emit(PartialFill)
  /\ book' = InsertResting(
               IndexInsert(book, Taker.id,
                           [slot |-> Top.slot, side |-> Taker.side, price |-> Taker.price]),
               Top.slot)
  /\ ThenStops
  /\ UNCHANGED cmd

\* ... and of any other order is cancelled.
CancelRest ==
  /\ Matching /\ LoopOver
  /\ ~(Top.filled > 0 /\ Taker.remaining = 0)
  /\ Taker.kind # "Limit"
  /\ Emit(PartialFill \o <<Cancelled(Taker.id)>>)
  /\ book' = ArenaRemove(book, Top.slot)
  /\ ThenStops
  /\ UNCHANGED cmd

(***************************************************************************)
(* trigger_stops: the collected stops of a side fire one by one, the       *)
(* trigger reached first in the order of the tree first.                   *)
(***************************************************************************)

Triggering == In("trigger_stops")

NextTrigger(p) == IsFirst(Opposite(Top.side), Top.todo, p)

\* Mutant: the same stop is visited again and again.
NotPopped(p) == Top

Popped(p) ==
  [Top EXCEPT !.todo = IF Len(@[p]) = 1 THEN Drop(@, p) ELSE Put(@, p, Tail(@[p]))]

\* A slot that is vacant by now is passed over.
SkipStop(p) ==
  /\ Head(Top.todo[p]) \notin DOMAIN book.arena
  /\ Become(Popped(p))
  /\ UNCHANGED <<book, out>>

\* Any other is taken to hold the stop: it leaves the book and is submitted
\* as a market or limit order under the same id.
FireStop(p) ==
  LET slot == Head(Top.todo[p])
      stop == book.arena[slot]
  IN  /\ slot \in DOMAIN book.arena
      /\ Len(stack) < MaxDepth
      /\ book' = ArenaRemove(IndexRemove(book, stop.id), slot)
      /\ CallFrom(Popped(p),
                  ApplyNew([id |-> stop.id, side |-> stop.side,
                            kind |-> IF stop.kind = "StopMarket" THEN "Market" ELSE "Limit",
                            price |-> stop.price, stop_price |-> 0, qty |-> stop.remaining]))
      /\ UNCHANGED out

VisitStop ==
  /\ Triggering
  /\ \E p \in DOMAIN Top.todo : NextTrigger(p) /\ (SkipStop(p) \/ FireStop(p))
  /\ UNCHANGED cmd

\* The triggers that were reached leave the tree; sells follow buys.
EndStops ==
  /\ Triggering /\ DOMAIN Top.todo = {}
  /\ book' = [book EXCEPT !.stops[Top.side] =
                 Keep(@, {p \in DOMAIN @ : ~Reached(Top.side, Top.last, p)})]
  /\ IF Top.side = "Buy" THEN Become(TriggerStops(book, "Sell", Top.last)) ELSE Return
  /\ UNCHANGED <<out, cmd>>

(***************************************************************************)
(* The shard hands the events on and takes its next command.               *)
(***************************************************************************)

Deliver ==
  /\ stack = <<>> /\ cmd # None
  /\ out' = <<>> /\ cmd' = None
  /\ UNCHANGED <<book, stack>>

Init ==
  /\ book = EmptyBook
  /\ stack = <<>>
  /\ out = <<>>
  /\ cmd = None

Receive == \E c \in Commands : New(c) \/ Cancel(c) \/ Replace(c)

Apply == \/ RejectNew \/ HoldStop \/ KillFok \/ StartMatch
         \/ MatchStep \/ FinishFilled \/ Rest \/ CancelRest
         \/ VisitStop \/ EndStops

Next == Receive \/ Apply \/ Deliver

Spec == Init /\ [][Next]_vars

(***************************************************************************)
(* Properties.                                                             *)
(***************************************************************************)

FrameOK(frame) ==
  \/ /\ frame.call = "apply_new"
     /\ frame = ApplyNew(frame.order) /\ frame.order \in NewOrder
  \/ /\ frame.call = "match_order"
     /\ frame = MatchOrder(frame.slot, frame.filled)
     /\ frame.slot \in Slot /\ frame.filled \in Qty
  \/ /\ frame.call = "trigger_stops"
     /\ frame = [call |-> "trigger_stops", side |-> frame.side, last |-> frame.last,
                 todo |-> frame.todo]
     /\ frame.side \in Side /\ frame.last \in Price
     /\ IsMap(frame.todo, Price, Seq(Slot) \ {<<>>})

StackOK(calls) ==
  /\ Len(calls) \in Nat
  /\ calls = [i \in 1 .. Len(calls) |-> calls[i]]
  /\ \A i \in 1 .. Len(calls) : FrameOK(calls[i])

\* The variables have their types.
TypeOK ==
  /\ BookTypeOK(book)
  /\ StackOK(stack)
  /\ cmd \in Commands \cup {None}

\* check_no_cross, at every step and not only between commands: all bids are
\* below all asks, whatever is cancelled, replaced or triggered.
NoCross ==
  \A bid \in DOMAIN book.levels["Buy"], ask \in DOMAIN book.levels["Sell"] : bid < ask

\* A level that has lost its last order is removed before the matcher looks
\* again: match_order's `None => break` for a headless level never happens.
LevelsNonEmpty ==
  \A side \in Side : \A p \in DOMAIN book.levels[side] : book.levels[side][p].head # None

\* Every id leads to its own order: no cancel or replace can panic on the
\* slab or hit a stranger's order in a reused slot.
IndexSound ==
  \A id \in DOMAIN book.ids :
    /\ book.ids[id].slot \in DOMAIN book.arena
    /\ book.arena[book.ids[id].slot].id = id

Indexed(slot) ==
  LET id == book.arena[slot].id
  IN  id \in DOMAIN book.ids /\ book.ids[id].slot = slot

Resting(side, price) ==
  {s \in DOMAIN book.arena :
     /\ Indexed(s)
     /\ book.arena[s].kind = "Limit"
     /\ book.arena[s].side = side /\ book.arena[s].price = price}

\* The chain of a level: its ends are open, neighbours agree on each other,
\* and every link stays among the orders that rest there.
Chained(level, slots) ==
  LET o(s) == book.arena[s]
  IN  /\ level.head \in slots /\ level.tail \in slots
      /\ \A s \in slots :
           /\ o(s).prev = None <=> s = level.head
           /\ o(s).next = None <=> s = level.tail
           /\ s # level.tail => o(s).next \in slots /\ o(o(s).next).prev = s
           /\ s # level.head => o(s).prev \in slots /\ o(o(s).prev).next = s

\* Through fills, cancels from the middle and replaces, every resting order is
\* in the intrusive list of its level, and nothing else is.
ListsAgree ==
  \A side \in Side :
    /\ \A s \in DOMAIN book.arena :
         Indexed(s) /\ book.arena[s].kind = "Limit"
           => book.arena[s].price \in DOMAIN book.levels[book.arena[s].side]
    /\ \A p \in DOMAIN book.levels[side] :
         Chained(book.levels[side][p], Resting(side, p))

\* The total of a level, which a fill-or-kill order relies on, is what its
\* orders have left: reinserted makers and cancelled orders are counted once.
TotalsAgree ==
  \A side \in Side : \A p \in DOMAIN book.levels[side] :
    book.levels[side][p].total =
      MapThenSumSet(LAMBDA s : book.arena[s].remaining, Resting(side, p))

\* The intrusive lists, the level totals, the id index and the arena agree.
BookIntegrity == ListsAgree /\ TotalsAgree

\* No access to the slab panics: whichever cancel or replace comes next, and
\* whatever the match loop reaches for, every index and link leads to a live order.
NoPanic ==
  /\ stack = <<>> =>
       \A c \in Commands :
         (c.op \in {"Cancel", "Replace"} /\ c.id \in DOMAIN book.ids) => CanUnlink(c.id)
  /\ In("match_order") =>
       /\ Matching
       /\ \A p \in DOMAIN book.levels[Other] :
            IsFirst(Other, book.levels[Other], p) =>
              /\ MakerAt(p) \in DOMAIN book.arena
              /\ Safe(book, book.arena[MakerAt(p)].next)
       /\ Taker.kind = "Limit" => Safe(book, LevelAt(book, Taker.side, Taker.price).tail)

Held == {s \in DOMAIN book.arena : IsStop(book.arena[s])}

\* A command that went through the matcher leaves no stop behind that the last
\* trade has reached, however the trades of the stops it fired moved the price.
StopsDrained ==
  (/\ stack = <<>> /\ cmd # None /\ book.last # None
   /\ cmd.op \in {"New", "Replace"} /\ Events("Rejected") = {}
   /\ cmd.op = "New" => ~IsStop(cmd.order))
  => \A s \in Held : ~Reached(book.arena[s].side, book.last, book.arena[s].stop_price)

\* Every open order is submitted at most once more by one command: the calls
\* that apply nests are bounded by the orders it can fire.
BoundedCalls == Len(stack) <= Cardinality(OrderId) + 1

\* trigger_stops submits only stop orders, and only those the trade reached.
FiresOnlyReached ==
  Triggering =>
    \A p \in DOMAIN Top.todo :
      (NextTrigger(p) /\ Head(Top.todo[p]) \in DOMAIN book.arena) =>
        LET stop == book.arena[Head(Top.todo[p])]
        IN  IsStop(stop) /\ Reached(stop.side, Top.last, stop.stop_price)

\* A fill-or-kill order is killed only if the orders that rest within its limit
\* really are too few.
FokKilledRightly ==
  (In("apply_new") /\ Refusal(Top.order) = None /\ Unfillable(Top.order)) =>
    LET within == {p \in DOMAIN book.levels[Opposite(Top.order.side)] :
                     Within(Top.order.side, Top.order.price, p)}
        orders == UNION {Resting(Opposite(Top.order.side), p) : p \in within}
    IN  MapThenSumSet(LAMBDA s : book.arena[s].remaining, orders) < Top.order.qty

\* apply returns.
ApplyReturns == stack # <<>> ~> stack = <<>>

=============================================================================
