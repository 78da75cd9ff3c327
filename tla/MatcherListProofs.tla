--------------------------- MODULE MatcherListProofs ---------------------------
(***************************************************************************)
(* What holds of the matcher as long as stops are stop-market orders that  *)
(* are neither cancelled nor replaced: the lists of the levels stay        *)
(* whole, the book never crosses, only stops that were reached fire, all   *)
(* that were reached do before the command is done, calls nest no deeper   *)
(* than there are ids, and no access to the slab panics. For every set of  *)
(* ids (nesting: every finite one), every word width, every stack depth    *)
(* and all such commands.                                                  *)
(***************************************************************************)
EXTENDS MatcherProofs, SelectionProofs, FiniteSetTheorems

(***************************************************************************)
(* The commands the theorems are about.                                    *)
(***************************************************************************)

StopIdentifiers == {c.order.id : c \in {d \in Commands : d.op = "New" /\ IsStop(d.order)}}

\* After a stop has been cancelled or replaced, or has come to rest as a limit
\* order, its slot is still in the tree: the code's own defects, see the runs.
Tame ==
  /\ \A c \in Commands : c.op = "New" => c.order.kind # "StopLimit"
  /\ \A c \in Commands : c.op \in {"Cancel", "Replace"} => c.id \notin StopIdentifiers

(***************************************************************************)
(* The lists. Their orders are those of limit orders that are not being    *)
(* matched, sorted by when they came.                                      *)
(***************************************************************************)

\* The slot of the order being matched.
Takers(calls) ==
  {calls[i].slot : i \in {j \in 1 .. Len(calls) : calls[j].call = "match_order"}}

Rests(arena, taken, s) == s \in DOMAIN arena \ taken /\ arena[s].kind = "Limit"

RestsAt(arena, taken, side, price) ==
  {s \in DOMAIN arena : /\ Rests(arena, taken, s)
                        /\ arena[s].side = side /\ arena[s].price = price}

\* A doubly linked list of the orders in `slots`, the earliest first.
Linked(arena, level, slots, age) ==
  /\ level.head \in slots /\ level.tail \in slots
  /\ \A s \in slots :
       /\ arena[s].prev = None <=> s = level.head
       /\ arena[s].next = None <=> s = level.tail
       /\ s # level.tail => /\ arena[s].next \in slots
                            /\ arena[arena[s].next].prev = s
       /\ s # level.head => /\ arena[s].prev \in slots
                            /\ arena[arena[s].prev].next = s
                            /\ age[arena[s].prev] < age[s]

ListAt(arena, levels, taken, age, side, price) ==
  IF price \in DOMAIN levels[side]
    THEN Linked(arena, levels[side][price], RestsAt(arena, taken, side, price), age)
    ELSE RestsAt(arena, taken, side, price) = {}

ListsSound(b, taken) ==
  \E age \in [Slot -> Nat] : \A side \in Side, price \in Price :
    ListAt(b.arena, b.levels, taken, age, side, price)

\* The index knows each order but the one being matched.
OrdersSound(b, taken) ==
  \A s \in DOMAIN b.arena :
    LET order == b.arena[s]
    IN  /\ order.kind # "StopLimit"
        /\ s \in taken => ~IsStop(order)
        /\ s \notin taken => /\ order.kind \in {"Limit", "StopMarket"}
                           /\ order.id \in DOMAIN b.ids /\ b.ids[order.id].slot = s
        /\ (s \notin taken /\ order.kind = "Limit") =>
             b.ids[order.id] = [slot |-> s, side |-> order.side, price |-> order.price]
        /\ (s \notin taken /\ order.kind = "StopMarket") => order.id \in StopIdentifiers

\* A slot in a tree or in what trigger_stops has collected holds a stop of that
\* side and trigger.
HoldsStop(b, side, trigger, s) ==
  b.arena[s].kind = "StopMarket" /\ b.arena[s].side = side /\ b.arena[s].stop_price = trigger

\* A tree may also hold a slot whose stop has fired, for as long as the call
\* that fired it is in progress.
Fired(calls, side, trigger) ==
  \E i \in 1 .. Len(calls) :
    /\ calls[i].call = "trigger_stops" /\ calls[i].side = side
    /\ Reached(side, calls[i].last, trigger)

TreesSound(b, calls, taken) ==
  \A side \in Side : \A p \in DOMAIN b.stops[side] : \A i \in 1 .. Len(b.stops[side][p]) :
    LET s == b.stops[side][p][i]
    IN  IF s \in DOMAIN b.arena \ taken THEN HoldsStop(b, side, p, s) ELSE Fired(calls, side, p)

Collected(b, taken, frame) ==
  \A p \in DOMAIN frame.todo :
    /\ Reached(frame.side, frame.last, p)
    /\ \A i \in 1 .. Len(frame.todo[p]) :
         frame.todo[p][i] \in DOMAIN b.arena \ taken =>
           HoldsStop(b, frame.side, p, frame.todo[p][i])

CollectedSound(b, calls, taken) ==
  \A j \in 1 .. Len(calls) :
    calls[j].call = "trigger_stops" => Collected(b, taken, calls[j])

\* Of a new order: only what clients sent, and the stops that fired.
FrameSound(b, frame, depth) ==
  /\ frame.call = "apply_new" =>
       /\ frame.order.kind # "StopLimit"
       /\ IsStop(frame.order) => frame.order.id \in StopIdentifiers
       /\ depth > 1 => frame.order.kind = "Market"
  /\ frame.call = "match_order" =>
       /\ frame.slot \in DOMAIN b.arena
       /\ depth > 1 => b.arena[frame.slot].kind = "Market"
       /\ frame.filled + b.arena[frame.slot].remaining \in 1 .. QtyMod - 1

CallSound(b, calls) == \A j \in 1 .. Len(calls) : FrameSound(b, calls[j], j)

Whole(b, calls) ==
  /\ OrdersSound(b, Takers(calls))
  /\ ListsSound(b, Takers(calls))
  /\ TreesSound(b, calls, Takers(calls))
  /\ CollectedSound(b, calls, Takers(calls))
  /\ CallSound(b, calls)
  /\ Uncrossed(b.levels)

(***************************************************************************)
(* One list.                                                               *)
(***************************************************************************)

USE NoneAssumption, QtyModAssumption

LEMMA NoneIsNoSlot == None \notin Slot
BY DEF Slot

\* Only links count.
LEMMA LinkedSame ==
  ASSUME NEW a, NEW level, NEW slots, NEW age, Linked(a, level, slots, age),
         NEW a2, NEW level2, level2.head = level.head, level2.tail = level.tail,
         \A s \in slots : a2[s].prev = a[s].prev /\ a2[s].next = a[s].next
  PROVE  Linked(a2, level2, slots, age)
BY DEF Linked

\* A head without a successor is alone: there are no rings beside the list.
LEMMA LoneHead ==
  ASSUME NEW a, NEW level, NEW slots, slots \subseteq Slot, NEW age \in [Slot -> Nat],
         Linked(a, level, slots, age), a[level.head].next = None
  PROVE  slots = {level.head}
<1> DEFINE others == slots \ {level.head}
           ages   == {age[s] : s \in others}
<1> SUFFICES ASSUME others # {} PROVE FALSE
  BY DEF Linked
<1>1. ages \subseteq Nat /\ ages # {}
  BY DEF Slot
<1> HIDE DEF ages
<1>2. PICK n \in ages : \A m \in ages : n <= m
  BY <1>1, LeastElement
<1>3. PICK s \in others : age[s] = n
  BY DEF ages
<1> DEFINE before == a[s].prev
<1>4. before \in slots /\ a[before].next = s /\ age[before] < age[s]
  BY DEF Linked
<1>5. before # level.head
  BY <1>4 DEF Slot
<1>6. age[before] \in ages
  BY <1>4, <1>5 DEF ages
<1>7. age[before] \in Nat /\ age[s] \in Nat
  BY <1>4
<1> QED BY <1>2, <1>3, <1>4, <1>6, <1>7

\* The links and ends of a list from which `slot` has been cut out.
CutsOut(a, level, slots, slot, a2, level2) ==
  /\ \A s \in slots \ {slot} :
       /\ a2[s].next = IF s = a[slot].prev THEN a[slot].next ELSE a[s].next
       /\ a2[s].prev = IF s = a[slot].next THEN a[slot].prev ELSE a[s].prev
  /\ level2.head = IF level.head = slot THEN a[slot].next ELSE level.head
  /\ level2.tail = IF level.tail = slot THEN a[slot].prev ELSE level.tail

\* Taking an order out of its list, wherever it is.
LEMMA Unlink ==
  ASSUME NEW a, NEW level, NEW slots, slots \subseteq Slot, NEW age \in [Slot -> Nat],
         Linked(a, level, slots, age), NEW slot \in slots,
         NEW a2, NEW level2, CutsOut(a, level, slots, slot, a2, level2)
  PROVE  /\ level2.head = None => slots = {slot}
         /\ level2.head # None => Linked(a2, level2, slots \ {slot}, age)
<1> DEFINE before == a[slot].prev
           after  == a[slot].next
<1>00. /\ \A s \in slots \ {slot} :
            /\ a2[s].next = IF s = before THEN after ELSE a[s].next
            /\ a2[s].prev = IF s = after THEN before ELSE a[s].prev
       /\ level2.head = IF level.head = slot THEN after ELSE level.head
       /\ level2.tail = IF level.tail = slot THEN before ELSE level.tail
       /\ before = a[slot].prev /\ after = a[slot].next
  BY DEF CutsOut
<1> HIDE DEF before, after
<1>0. None \notin slots
  BY NoneIsNoSlot
<1>1. ASSUME level2.head = None
      PROVE  slots = {slot}
  <2>1. level.head = slot /\ a[level.head].next = None
    BY <1>00, <1>0, <1>1 DEF Linked
  <2> QED BY <1>00, <2>1, LoneHead
<1>2. ASSUME level2.head # None
      PROVE  Linked(a2, level2, slots \ {slot}, age)
  <2>1. /\ slot # level.head => before \in slots \ {slot} /\ a[before].next = slot
                                /\ age[before] < age[slot]
        /\ slot # level.tail => after \in slots \ {slot} /\ a[after].prev = slot
                                /\ age[slot] < age[after]
        /\ before = None <=> slot = level.head
        /\ after = None <=> slot = level.tail
    <3>1. /\ slot # level.head => before \in slots /\ a[before].next = slot
                                /\ age[before] < age[slot]
          /\ before = None <=> slot = level.head
          /\ after = None <=> slot = level.tail
          /\ slot # level.tail => after \in slots /\ a[after].prev = slot
      BY <1>00 DEF Linked
    <3>2. ASSUME slot # level.tail
          PROVE  after # level.head /\ age[slot] < age[after]
      <4>1. after \in slots /\ a[after].prev = slot
        BY <1>00, <3>1, <3>2
      <4>2. after # level.head
        BY <1>00, <4>1, <1>0 DEF Linked
      <4> QED BY <1>00, <4>1, <4>2 DEF Linked
    <3>3. age[slot] \in Nat
      BY <1>00
    <3>4. /\ slot # level.head => before # slot
          /\ slot # level.tail => after # slot
      BY <1>00, <3>1, <3>2, <3>3
    <3> QED BY <1>00, <3>1, <3>2, <3>4
  <2>2. level2.head \in slots \ {slot} /\ level2.tail \in slots \ {slot}
    <3>1. ~(slot = level.head /\ slot = level.tail)
      BY <1>00, <1>2, <2>1
    <3> QED BY <1>00, <2>1, <3>1 DEF Linked
  <2>3. ASSUME NEW s \in slots \ {slot}
        PROVE  /\ a2[s].prev = None <=> s = level2.head
               /\ a2[s].next = None <=> s = level2.tail
    BY <1>00, <1>0, <2>1 DEF Linked
  <2>4. ASSUME NEW s \in slots \ {slot}, s # level2.tail
        PROVE  a2[s].next \in slots \ {slot} /\ a2[a2[s].next].prev = s
    <3>1. CASE s = before
      <4>1. a2[s].next = after
        BY <1>00, <3>1
      <4>2. slot # level.tail /\ slot # level.head
        BY <1>00, <1>0, <2>1, <2>4, <3>1
      <4> QED BY <1>00, <2>1, <3>1, <4>1, <4>2
    <3>2. CASE s # before
      <4>1. a2[s].next = a[s].next /\ s # level.tail
        BY <1>00, <2>1, <2>4, <3>2 DEF Linked
      <4>2. a[s].next \in slots /\ a[a[s].next].prev = s
        BY <1>00, <4>1 DEF Linked
      <4>3. a[s].next # slot
        BY <1>00, <3>2, <4>2
      <4>4. a[s].next # after
        BY <1>00, <1>0, <2>1, <4>2
      <4> QED BY <1>00, <4>1, <4>2, <4>3, <4>4
    <3> QED BY <1>00, <3>1, <3>2
  <2>5. ASSUME NEW s \in slots \ {slot}, s # level2.head
        PROVE  /\ a2[s].prev \in slots \ {slot} /\ a2[a2[s].prev].next = s
               /\ age[a2[s].prev] < age[s]
    <3>1. CASE s = after
      <4>1. a2[s].prev = before
        BY <1>00, <3>1
      <4>2. slot # level.tail /\ slot # level.head
        BY <1>00, <1>0, <2>1, <2>5, <3>1
      <4>3. age[before] \in Nat /\ age[slot] \in Nat /\ age[after] \in Nat
        BY <1>00, <2>1, <4>2
      <4> QED BY <1>00, <2>1, <3>1, <4>1, <4>2, <4>3
    <3>2. CASE s # after
      <4>1. a2[s].prev = a[s].prev /\ s # level.head
        BY <1>00, <2>1, <2>5, <3>2 DEF Linked
      <4>2. a[s].prev \in slots /\ a[a[s].prev].next = s /\ age[a[s].prev] < age[s]
        BY <1>00, <4>1 DEF Linked
      <4>3. a[s].prev # slot
        BY <1>00, <3>2, <4>2
      <4>4. a[s].prev # before
        BY <1>00, <1>0, <2>1, <4>2
      <4> QED BY <1>00, <4>1, <4>2, <4>3, <4>4
    <3> QED BY <1>00, <3>1, <3>2
  <2> QED BY <1>00, <2>2, <2>3, <2>4, <2>5 DEF Linked
<1> QED BY <1>00, <1>1, <1>2

\* The links and ends of a list that `slot` has joined at the back.
QueuesUp(a, level, slots, slot, a2, level2) ==
  /\ \A s \in slots \cup {slot} :
       /\ a2[s].next = IF s = slot THEN None
                       ELSE IF s = level.tail THEN slot ELSE a[s].next
       /\ a2[s].prev = IF s = slot THEN level.tail ELSE a[s].prev
  /\ level2.head = level.head /\ level2.tail = slot

\* Joining the back of a list, as the youngest.
LEMMA Enqueue ==
  ASSUME NEW a, NEW level, NEW slots, slots \subseteq Slot, NEW age \in [Slot -> Nat],
         Linked(a, level, slots, age), NEW slot \in Slot \ slots,
         NEW a2, NEW level2, QueuesUp(a, level, slots, slot, a2, level2)
  PROVE  Linked(a2, level2, slots \cup {slot}, [age EXCEPT ![slot] = age[level.tail] + 1])
<1> DEFINE age2 == [age EXCEPT ![slot] = age[level.tail] + 1]
<1>0. None \notin slots /\ slot # None
  BY NoneIsNoSlot
<1>1. \A s \in slots : age2[s] = age[s] /\ age[s] \in Nat
  OBVIOUS
<1>2. level.tail \in slots /\ age2[slot] = age[level.tail] + 1
  BY DEF Linked
<1> HIDE DEF age2
<1>3. level2.head \in slots \cup {slot} /\ level2.tail \in slots \cup {slot}
  BY DEF Linked, QueuesUp
<1>4. ASSUME NEW s \in slots \cup {slot}
      PROVE  /\ a2[s].prev = None <=> s = level2.head
             /\ a2[s].next = None <=> s = level2.tail
  BY <1>0, <1>2 DEF Linked, QueuesUp
<1>5. ASSUME NEW s \in slots \cup {slot}, s # level2.tail
      PROVE  a2[s].next \in slots \cup {slot} /\ a2[a2[s].next].prev = s
  BY <1>0, <1>2, <1>5 DEF Linked, QueuesUp
<1>6. ASSUME NEW s \in slots \cup {slot}, s # level2.head
      PROVE  /\ a2[s].prev \in slots \cup {slot} /\ a2[a2[s].prev].next = s
             /\ age2[a2[s].prev] < age2[s]
  <2>1. CASE s = slot
    BY <1>1, <1>2, <2>1 DEF QueuesUp, Linked
  <2>2. CASE s # slot
    <3>1. a2[s].prev = a[s].prev /\ s # level.head /\ s \in slots
      BY <1>6, <2>2 DEF QueuesUp
    <3>2. a[s].prev \in slots /\ a[a[s].prev].next = s /\ age[a[s].prev] < age[s]
      BY <3>1 DEF Linked
    <3>3. a[s].prev # level.tail
      BY <1>0, <3>1, <3>2 DEF Linked
    <3> QED BY <1>1, <3>1, <3>2, <3>3 DEF QueuesUp
  <2> QED BY <2>1, <2>2
<1>7. Linked(a2, level2, slots \cup {slot}, age2)
  BY <1>3, <1>4, <1>5, <1>6 DEF Linked
<1> QED BY <1>7 DEF age2

LEMMA FirstInList ==
  ASSUME NEW a, NEW level, NEW age, NEW slot \in Slot,
         level.head = slot, level.tail = slot, a[slot].prev = None, a[slot].next = None
  PROVE  Linked(a, level, {slot}, age)
BY DEF Linked, Slot

(***************************************************************************)
(* The lists of all levels.                                                *)
(***************************************************************************)

LEMMA ListSame ==
  ASSUME NEW a, NEW levels, NEW taken, NEW age, NEW side, NEW price,
         ListAt(a, levels, taken, age, side, price),
         NEW a2, NEW levels2, NEW taken2, NEW age2,
         price \in DOMAIN levels2[side] <=> price \in DOMAIN levels[side],
         price \in DOMAIN levels[side] =>
           /\ levels2[side][price].head = levels[side][price].head
           /\ levels2[side][price].tail = levels[side][price].tail,
         RestsAt(a2, taken2, side, price) = RestsAt(a, taken, side, price),
         \A s \in RestsAt(a, taken, side, price) :
           a2[s].prev = a[s].prev /\ a2[s].next = a[s].next /\ age2[s] = age[s]
  PROVE  ListAt(a2, levels2, taken2, age2, side, price)
<1> DEFINE slots == RestsAt(a, taken, side, price)
<1>1. CASE price \notin DOMAIN levels[side]
  BY <1>1 DEF ListAt
<1>2. CASE price \in DOMAIN levels[side]
  <2>1. Linked(a, levels[side][price], slots, age)
    BY <1>2 DEF ListAt
  <2> HIDE DEF slots
  <2>2. Linked(a2, levels2[side][price], slots, age2)
    BY <1>2, <2>1 DEF Linked, slots
  <2> QED BY <1>2, <2>2 DEF ListAt, slots
<1> QED BY <1>1, <1>2

\* A step that neither moves nor adds nor removes a resting order.
SameEnds(b, c) ==
  /\ DOMAIN b.levels = Side /\ DOMAIN c.levels = Side
  /\ \A side \in Side : /\ DOMAIN c.levels[side] = DOMAIN b.levels[side]
                        /\ \A p \in DOMAIN b.levels[side] :
                             /\ c.levels[side][p].head = b.levels[side][p].head
                             /\ c.levels[side][p].tail = b.levels[side][p].tail

SameResting(b, taken, c, taken2) ==
  /\ \A s : Rests(c.arena, taken2, s) <=> Rests(b.arena, taken, s)
  /\ \A s : Rests(b.arena, taken, s) =>
       /\ c.arena[s].side = b.arena[s].side /\ c.arena[s].price = b.arena[s].price
       /\ c.arena[s].prev = b.arena[s].prev /\ c.arena[s].next = b.arena[s].next

LEMMA ListsUntouched ==
  ASSUME NEW b, NEW taken, ListsSound(b, taken), NEW c, NEW taken2,
         SameEnds(b, c), SameResting(b, taken, c, taken2)
  PROVE  ListsSound(c, taken2)
<1>1. PICK age \in [Slot -> Nat] :
        \A side \in Side, price \in Price : ListAt(b.arena, b.levels, taken, age, side, price)
  BY DEF ListsSound
<1>2. ASSUME NEW side \in Side, NEW price \in Price
      PROVE  ListAt(c.arena, c.levels, taken2, age, side, price)
  <2>1. ListAt(b.arena, b.levels, taken, age, side, price)
    BY <1>1
  <2>2. RestsAt(c.arena, taken2, side, price) = RestsAt(b.arena, taken, side, price)
    BY DEF RestsAt, Rests, SameResting
  <2>3. \A s \in RestsAt(b.arena, taken, side, price) :
          c.arena[s].prev = b.arena[s].prev /\ c.arena[s].next = b.arena[s].next
    BY DEF RestsAt, SameResting
  <2>4. /\ price \in DOMAIN c.levels[side] <=> price \in DOMAIN b.levels[side]
        /\ price \in DOMAIN b.levels[side] =>
             /\ c.levels[side][price].head = b.levels[side][price].head
             /\ c.levels[side][price].tail = b.levels[side][price].tail
    BY DEF SameEnds
  <2> QED BY <2>1, <2>2, <2>3, <2>4, ListSame
<1> QED BY <1>2 DEF ListsSound

\* The levels of c are those of b but for one, which is `level` or gone.
LevelsBut(b, c, side, price, level) ==
  c.levels = [b.levels EXCEPT ![side] = IF level.head = None THEN Drop(@, price)
                                                             ELSE Put(@, price, level)]

LEMMA LevelsButLemma ==
  ASSUME NEW b, BookTypeOK(b), NEW c, NEW side \in Side, NEW price \in Price, NEW level,
         LevelsBut(b, c, side, price, level)
  PROVE  /\ price \in DOMAIN c.levels[side] <=> level.head # None
         /\ level.head # None => c.levels[side][price] = level
         /\ \A d \in Side, p \in Price : (d # side \/ p # price) =>
              /\ p \in DOMAIN c.levels[d] <=> p \in DOMAIN b.levels[d]
              /\ p \in DOMAIN b.levels[d] => c.levels[d][p] = b.levels[d][p]
<1>1. DOMAIN b.levels = Side
  BY DEF BookTypeOK
<1>2. CASE level.head = None
  <2>1. c.levels = [b.levels EXCEPT ![side] = Drop(b.levels[side], price)]
    BY <1>2 DEF LevelsBut
  <2>2. c.levels[side] = Drop(b.levels[side], price)
    BY <1>1, <2>1
  <2>3. \A d \in Side : d # side => c.levels[d] = b.levels[d]
    BY <1>1, <2>1
  <2> QED BY <1>2, <2>2, <2>3 DEF Drop
<1>3. CASE level.head # None
  <2>1. c.levels = [b.levels EXCEPT ![side] = Put(b.levels[side], price, level)]
    BY <1>3 DEF LevelsBut
  <2>2. c.levels[side] = Put(b.levels[side], price, level)
    BY <1>1, <2>1
  <2>3. \A d \in Side : d # side => c.levels[d] = b.levels[d]
    BY <1>1, <2>1
  <2> QED BY <1>3, <2>2, <2>3 DEF Put
<1> QED BY <1>2, <1>3

AllLists(b, taken, age) ==
  \A side \in Side, price \in Price : ListAt(b.arena, b.levels, taken, age, side, price)

\* The orders at all prices but one are as they were.
OthersStay(b, taken, age, c, taken2, age2, side, price) ==
  \A d \in Side, p \in Price : (d # side \/ p # price) =>
    /\ RestsAt(c.arena, taken2, d, p) = RestsAt(b.arena, taken, d, p)
    /\ \A s \in RestsAt(b.arena, taken, d, p) :
         /\ c.arena[s].prev = b.arena[s].prev /\ c.arena[s].next = b.arena[s].next
         /\ age2[s] = age[s]

\* One level changes, and it is in order afterwards.
LEMMA OneListChanges ==
  ASSUME NEW b, BookTypeOK(b), NEW taken, NEW age,
         AllLists(b, taken, age),
         NEW c, NEW taken2, NEW age2 \in [Slot -> Nat],
         NEW side \in Side, NEW price \in Price, NEW level,
         LevelsBut(b, c, side, price, level),
         OthersStay(b, taken, age, c, taken2, age2, side, price),
         level.head = None => RestsAt(c.arena, taken2, side, price) = {},
         level.head # None => Linked(c.arena, level, RestsAt(c.arena, taken2, side, price), age2)
  PROVE  ListsSound(c, taken2)
<1>1. ASSUME NEW d \in Side, NEW p \in Price
      PROVE  ListAt(c.arena, c.levels, taken2, age2, d, p)
  <2>1. CASE d = side /\ p = price
    BY <2>1, LevelsButLemma DEF ListAt
  <2>2. CASE d # side \/ p # price
    <3>1. ListAt(b.arena, b.levels, taken, age, d, p)
      BY DEF AllLists
    <3>2. /\ p \in DOMAIN c.levels[d] <=> p \in DOMAIN b.levels[d]
          /\ p \in DOMAIN b.levels[d] => c.levels[d][p] = b.levels[d][p]
      BY <2>2, LevelsButLemma
    <3>3. /\ RestsAt(c.arena, taken2, d, p) = RestsAt(b.arena, taken, d, p)
          /\ \A s \in RestsAt(b.arena, taken, d, p) :
                /\ c.arena[s].prev = b.arena[s].prev /\ c.arena[s].next = b.arena[s].next
                /\ age2[s] = age[s]
      BY <2>2 DEF OthersStay
    <3> QED BY <3>1, <3>2, <3>3, ListSame
  <2> QED BY <2>1, <2>2
<1> QED BY <1>1 DEF ListsSound

\* Links of an arena after `slot` has been cut out of its list.
Stitched(a, c, slot) ==
  /\ DOMAIN c.arena = DOMAIN a \ {slot}
  /\ \A s \in DOMAIN c.arena :
       /\ c.arena[s].kind = a[s].kind /\ c.arena[s].side = a[s].side
       /\ c.arena[s].price = a[s].price
       /\ c.arena[s].next = IF s = a[slot].prev THEN a[slot].next ELSE a[s].next
       /\ c.arena[s].prev = IF s = a[slot].next THEN a[slot].prev ELSE a[s].prev

\* A level's ends after the order in `slot` has been cut out.
CutLevel(old, level, slot, order) ==
  /\ level.head = IF old.head = slot THEN order.next ELSE old.head
  /\ level.tail = IF old.tail = slot THEN order.prev ELSE old.tail

\* The orders at a price are those that were there, without the one cut out.
LEMMA RestsAtStitched ==
  ASSUME NEW a, NEW c, NEW taken, NEW slot, Stitched(a, c, slot)
  PROVE  \A d, p : RestsAt(c.arena, taken, d, p) = RestsAt(a, taken, d, p) \ {slot}
<1>1. /\ DOMAIN c.arena = DOMAIN a \ {slot}
      /\ \A s \in DOMAIN c.arena :
           /\ c.arena[s].kind = a[s].kind /\ c.arena[s].side = a[s].side
           /\ c.arena[s].price = a[s].price
  BY DEF Stitched
<1> QED BY <1>1 DEF RestsAt, Rests

PlacedAt(order, side, price) == order.side = side /\ order.price = price

\* An order leaves its list and the book.
LEMMA ListLosesOne ==
  ASSUME NEW b, BookTypeOK(b), NEW taken, ListsSound(b, taken),
         NEW slot, Rests(b.arena, taken, slot),
         NEW c, Stitched(b.arena, c, slot),
         NEW side, NEW price, PlacedAt(b.arena[slot], side, price),
         NEW level, CutLevel(b.levels[side][price], level, slot, b.arena[slot]),
         LevelsBut(b, c, side, price, level)
  PROVE  ListsSound(c, taken)
<1>1. PICK age \in [Slot -> Nat] : AllLists(b, taken, age)
  BY Zenon DEF ListsSound, AllLists
<1>2. /\ slot \in DOMAIN b.arena /\ side \in Side /\ price \in Price
      /\ DOMAIN b.arena \subseteq Slot
  BY DEF PlacedAt, Rests, BookTypeOK, IsMap, Order
<1> DEFINE slots == RestsAt(b.arena, taken, side, price)
           old == b.levels[side][price]
           after == b.arena[slot].next
           before == b.arena[slot].prev
<1>3. slot \in slots /\ slots \subseteq Slot
  BY Zenon, <1>2 DEF PlacedAt, RestsAt
<1>4. Linked(b.arena, old, slots, age)
  <2>1. ListAt(b.arena, b.levels, taken, age, side, price)
    BY Zenon, <1>1, <1>2 DEF AllLists
  <2> QED BY Zenon, <2>1, <1>3 DEF ListAt
<1>5. /\ after # None => after \in slots
      /\ before # None => before \in slots
  BY Zenon, <1>3, <1>4 DEF Linked
<1>6. \A d, p : RestsAt(c.arena, taken, d, p) = RestsAt(b.arena, taken, d, p) \ {slot}
  BY RestsAtStitched
<1>7. ASSUME NEW d \in Side, NEW p \in Price, d # side \/ p # price
      PROVE  /\ RestsAt(c.arena, taken, d, p) = RestsAt(b.arena, taken, d, p)
             /\ \A s \in RestsAt(b.arena, taken, d, p) :
                  /\ c.arena[s].prev = b.arena[s].prev /\ c.arena[s].next = b.arena[s].next
  <2>1. slot \notin RestsAt(b.arena, taken, d, p)
    BY Zenon, <1>7 DEF PlacedAt, RestsAt
  <2>2. RestsAt(c.arena, taken, d, p) = RestsAt(b.arena, taken, d, p)
    BY <1>6, <2>1
  <2>3. ASSUME NEW s \in RestsAt(b.arena, taken, d, p)
        PROVE  c.arena[s].prev = b.arena[s].prev /\ c.arena[s].next = b.arena[s].next
    <3>1. s \in DOMAIN c.arena /\ s \in DOMAIN b.arena
      BY Zenon, <2>2 DEF RestsAt, Rests
    <3>2. s # None
      BY Zenon, <1>2, <3>1, NoneIsNoSlot
    <3>3. s \notin slots
      BY Zenon, <1>7 DEF RestsAt
    <3>4. s # before /\ s # after
      <4> HIDE DEF slots, before, after
      <4> QED BY <1>5, <3>2, <3>3
    <3> QED BY Zenon, <3>1, <3>4 DEF Stitched
  <2> QED BY Zenon, <2>2, <2>3
<1>8. RestsAt(c.arena, taken, side, price) = slots \ {slot}
  BY Zenon, <1>6
<1>9. OthersStay(b, taken, age, c, taken, age, side, price)
  BY Zenon, <1>7 DEF OthersStay
<1>10. CutsOut(b.arena, old, slots, slot, c.arena, level)
  <2>1. slots \ {slot} \subseteq DOMAIN c.arena
    BY Zenon, <1>8 DEF RestsAt, Rests
  <2> QED BY Zenon, <2>1 DEF Stitched, CutsOut, CutLevel
<1> HIDE DEF slots, old
<1>11. /\ level.head = None => slots = {slot}
       /\ level.head # None => Linked(c.arena, level, slots \ {slot}, age)
  BY Zenon, <1>1, <1>3, <1>4, <1>10, Unlink
<1>12. /\ level.head = None => RestsAt(c.arena, taken, side, price) = {}
       /\ level.head # None => Linked(c.arena, level, RestsAt(c.arena, taken, side, price), age)
  BY Zenon, <1>8, <1>11
<1> QED BY Zenon, <1>1, <1>2, <1>9, <1>12, OneListChanges

\* The links of an arena after `slot` has joined the back of the list that ends
\* in `tail`.
Appended(a, c, slot, tail) ==
  \A s \in DOMAIN a :
    /\ s \in DOMAIN c.arena
    /\ c.arena[s].kind = a[s].kind /\ c.arena[s].side = a[s].side /\ c.arena[s].price = a[s].price
    /\ c.arena[s].next = IF s = slot THEN None ELSE IF s = tail THEN slot ELSE a[s].next
    /\ c.arena[s].prev = IF s = slot THEN tail ELSE a[s].prev

\* An order comes to rest.
LEMMA ListGainsOne ==
  ASSUME NEW b, BookTypeOK(b), NEW taken, ListsSound(b, taken),
         NEW slot \in DOMAIN b.arena, ~Rests(b.arena, taken, slot),
         NEW c, NEW taken2, DOMAIN c.arena = DOMAIN b.arena,
         \A s : Rests(c.arena, taken2, s) <=> Rests(b.arena, taken, s) \/ s = slot,
         NEW side, side = b.arena[slot].side, NEW price, price = b.arena[slot].price,
         NEW old, old = LevelAt(b, side, price),
         Appended(b.arena, c, slot, old.tail),
         NEW level,
         level.head = IF old.tail = None THEN slot ELSE old.head, level.tail = slot,
         LevelsBut(b, c, side, price, level)
  PROVE  ListsSound(c, taken2)
<1>1. PICK age \in [Slot -> Nat] : AllLists(b, taken, age)
  BY DEF ListsSound, AllLists
<1>2. /\ slot \in Slot /\ side \in Side /\ price \in Price
      /\ DOMAIN b.arena \subseteq Slot
  BY DEF BookTypeOK, IsMap, Order
<1> DEFINE slots == RestsAt(b.arena, taken, side, price)
<1>3. slots \subseteq Slot /\ slots \subseteq DOMAIN b.arena /\ slot \notin slots
  BY <1>2 DEF RestsAt
<1>4. ASSUME NEW d \in Side, NEW p \in Price, NEW s
      PROVE  s \in RestsAt(c.arena, taken2, d, p)
               <=> s \in RestsAt(b.arena, taken, d, p) \/ (s = slot /\ d = side /\ p = price)
  BY DEF RestsAt, Rests, Appended
<1>5. RestsAt(c.arena, taken2, side, price) = slots \cup {slot}
  BY <1>2, <1>4
<1>6. ListAt(b.arena, b.levels, taken, age, side, price)
  BY <1>1, <1>2 DEF AllLists
<1>7. old.tail # None => old.tail \in slots
  <2>1. CASE price \notin DOMAIN b.levels[side]
    BY <2>1 DEF LevelAt, EmptyLevel
  <2>2. CASE price \in DOMAIN b.levels[side]
    BY Zenon, <2>2, <1>6 DEF LevelAt, ListAt, Linked
  <2> QED BY <2>1, <2>2
<1>8. ASSUME NEW age2, \A s \in Slot : s # slot => age2[s] = age[s]
      PROVE  OthersStay(b, taken, age, c, taken2, age2, side, price)
  <2>1. ASSUME NEW d \in Side, NEW p \in Price, d # side \/ p # price
        PROVE  RestsAt(c.arena, taken2, d, p) = RestsAt(b.arena, taken, d, p)
    BY <1>4, <2>1
  <2>2. ASSUME NEW d \in Side, NEW p \in Price, d # side \/ p # price,
               NEW s \in RestsAt(b.arena, taken, d, p)
        PROVE  /\ c.arena[s].prev = b.arena[s].prev /\ c.arena[s].next = b.arena[s].next
               /\ age2[s] = age[s]
    <3>1. s \in DOMAIN b.arena /\ s \in Slot /\ s # slot /\ s # None
      BY <1>2, NoneIsNoSlot DEF RestsAt
    <3>2. s \notin slots
      BY <2>2 DEF RestsAt
    <3> QED BY <1>7, <1>8, <3>1, <3>2 DEF Appended
  <2> QED BY <2>1, <2>2 DEF OthersStay
<1>9. level.head # None
  <2>1. CASE old.tail = None
    BY <2>1, <1>2, NoneIsNoSlot
  <2>2. CASE old.tail # None
    <3>1. price \in DOMAIN b.levels[side]
      BY Zenon, <2>2 DEF LevelAt, EmptyLevel
    <3>2. old.head \in slots
      BY Zenon, <1>6, <3>1 DEF ListAt, Linked, LevelAt
    <3> QED BY <2>2, <3>2, <1>3, NoneIsNoSlot
  <2> QED BY <2>1, <2>2
<1>10. CASE price \notin DOMAIN b.levels[side]
  <2>1. slots = {} /\ old.tail = None
    BY <1>6, <1>10 DEF ListAt, LevelAt, EmptyLevel
  <2>2. c.arena[slot].prev = None /\ c.arena[slot].next = None
    BY <2>1 DEF Appended
  <2>3. level.head = slot
    BY <2>1
  <2>4. Linked(c.arena, level, {slot}, age)
    BY <1>2, <2>2, <2>3, FirstInList
  <2>5. Linked(c.arena, level, RestsAt(c.arena, taken2, side, price), age)
    BY <1>5, <2>1, <2>4
  <2>6. OthersStay(b, taken, age, c, taken2, age, side, price)
    BY <1>8
  <2> QED BY <1>1, <1>2, <1>9, <2>5, <2>6, OneListChanges
<1>11. CASE price \in DOMAIN b.levels[side]
  <2> DEFINE age2 == [age EXCEPT ![slot] = age[old.tail] + 1]
  <2>1. Linked(b.arena, old, slots, age)
    BY Zenon, <1>6, <1>11 DEF ListAt, LevelAt
  <2>2. old.tail # None /\ old.tail \in Slot /\ age[old.tail] \in Nat
    <3>1. old.tail \in slots
      BY Zenon, <2>1 DEF Linked
    <3> QED BY Zenon, <1>3, <3>1, NoneIsNoSlot
  <2>3. age2 \in [Slot -> Nat] /\ \A s \in Slot : s # slot => age2[s] = age[s]
    <3> DEFINE n == age[old.tail] + 1
    <3>1. n \in Nat
      <4>1. \A k \in Nat : k + 1 \in Nat
        OBVIOUS
      <4> QED BY Zenon, <2>2, <4>1
    <3> HIDE DEF n
    <3>2. [age EXCEPT ![slot] = n] \in [Slot -> Nat]
      BY <1>2, <3>1
    <3> QED BY <3>2 DEF n
  <2>4. OthersStay(b, taken, age, c, taken2, age2, side, price)
    <3> HIDE DEF age2
    <3> QED BY <1>8, <2>3
  <2>5. QueuesUp(b.arena, old, slots, slot, c.arena, level)
    <3>1. level.head = old.head /\ level.tail = slot
      BY Zenon, <2>2
    <3>2. slots \cup {slot} \subseteq DOMAIN b.arena
      BY Zenon, <1>3
    <3> HIDE DEF slots
    <3> QED BY Zenon, <3>1, <3>2 DEF Appended, QueuesUp
  <2> HIDE DEF slots
  <2>7. Linked(c.arena, level, slots \cup {slot}, age2)
    BY <1>1, <1>2, <1>3, <2>1, <2>5, Enqueue
  <2> HIDE DEF age2
  <2>8. Linked(c.arena, level, RestsAt(c.arena, taken2, side, price), age2)
    BY <1>5, <2>7
  <2> QED BY <1>1, <1>2, <1>9, <2>3, <2>4, <2>8, OneListChanges
<1> QED BY <1>10, <1>11

(***************************************************************************)
(* What the operations of the book do to the links.                        *)
(***************************************************************************)

\* Two orders alike but for their links.
SameTerms(o, n) ==
  /\ n.id = o.id /\ n.side = o.side /\ n.kind = o.kind /\ n.price = o.price
  /\ n.stop_price = o.stop_price /\ n.remaining = o.remaining

\* Orders may have gone; those that are left have their terms.
FewerOrders(b, c) ==
  /\ DOMAIN c.arena \subseteq DOMAIN b.arena
  /\ \A s \in DOMAIN c.arena : SameTerms(b.arena[s], c.arena[s])

LEMMA SetLinks ==
  ASSUME NEW a, IsMap(a, Slot, Order), NEW ref, NEW link
  PROVE  /\ DOMAIN SetNext(a, ref, link) = DOMAIN a
         /\ DOMAIN SetPrev(a, ref, link) = DOMAIN a
         /\ \A s \in DOMAIN a :
              /\ SameTerms(a[s], SetNext(a, ref, link)[s])
              /\ SetNext(a, ref, link)[s].next = IF s = ref THEN link ELSE a[s].next
              /\ SetNext(a, ref, link)[s].prev = a[s].prev
              /\ SameTerms(a[s], SetPrev(a, ref, link)[s])
              /\ SetPrev(a, ref, link)[s].prev = IF s = ref THEN link ELSE a[s].prev
              /\ SetPrev(a, ref, link)[s].next = a[s].next
<1>1. DOMAIN a \subseteq Slot /\ \A s \in DOMAIN a : a[s] \in Order
  BY DEF IsMap
<1>2. None \notin DOMAIN a
  BY <1>1, NoneIsNoSlot
<1>3. CASE ref = None
  BY <1>2, <1>3 DEF SetNext, SetPrev, SameTerms
<1>4. CASE ref # None
  <2>1. \A o \in Order :
          /\ SameTerms(o, [o EXCEPT !.next = link]) /\ [o EXCEPT !.next = link].next = link
          /\ [o EXCEPT !.next = link].prev = o.prev
          /\ SameTerms(o, [o EXCEPT !.prev = link]) /\ [o EXCEPT !.prev = link].prev = link
          /\ [o EXCEPT !.prev = link].next = o.next
    BY DEF Order, SameTerms
  <2>2. /\ SetNext(a, ref, link) = [a EXCEPT ![ref] = [a[ref] EXCEPT !.next = link]]
        /\ SetPrev(a, ref, link) = [a EXCEPT ![ref] = [a[ref] EXCEPT !.prev = link]]
    BY <1>4 DEF SetNext, SetPrev
  <2>3. \A s \in DOMAIN a : SameTerms(a[s], a[s])
    BY DEF SameTerms
  <2> QED BY <1>1, <2>1, <2>2, <2>3
<1> QED BY <1>3, <1>4

LEMMA TermsTransitive ==
  ASSUME NEW o, NEW n, NEW m, SameTerms(o, n), SameTerms(n, m)
  PROVE  SameTerms(o, m)
BY DEF SameTerms

\* A level put back and removed if it is empty.
LEMMA PutOrGone ==
  ASSUME NEW b, BookTypeOK(b), NEW x, BookTypeOK(x), NEW side \in Side, NEW price \in Price,
         NEW level, x.levels = [b.levels EXCEPT ![side] = Put(@, price, level)]
  PROVE  /\ LevelsBut(b, RemoveEmpty(x, side, price), side, price, level)
         /\ RemoveEmpty(x, side, price).arena = x.arena
         /\ SameOrders(x, RemoveEmpty(x, side, price))
         /\ BookTypeOK(RemoveEmpty(x, side, price))
<1> DEFINE new == RemoveEmpty(x, side, price)
<1>1. /\ new.arena = x.arena /\ SameOrders(x, new) /\ BookTypeOK(new)
  BY ZenonT(30), RemoveEmptyType
<1>2. x.levels[side] = Put(b.levels[side], price, level)
  BY DEF BookTypeOK
<1>3. price \in DOMAIN x.levels[side] /\ x.levels[side][price] = level
  BY <1>2 DEF Put
<1>4. LevelAt(x, side, price) = level
  BY <1>3 DEF LevelAt
<1>5. CASE level.head # None
  <2>1. new = x
    BY <1>4, <1>5 DEF RemoveEmpty
  <2> QED BY <1>1, <1>5, <2>1 DEF LevelsBut
<1>6. CASE level.head = None
  <2>1. new.levels = [x.levels EXCEPT ![side] = Drop(@, price)]
    <3>1. new = DropLevel(x, side, price)
      BY <1>4, <1>6 DEF RemoveEmpty
    <3> QED BY <3>1, DropLevelType
  <2>2. Drop(x.levels[side], price) = Drop(b.levels[side], price)
    BY <1>2 DEF Drop, Put
  <2>3. new.levels = [b.levels EXCEPT ![side] = Drop(@, price)]
    <3> DEFINE m == Drop(b.levels[side], price)
               n == Put(b.levels[side], price, level)
    <3>1. DOMAIN b.levels = Side
      BY DEF BookTypeOK
    <3>2. x.levels = [b.levels EXCEPT ![side] = n] /\ new.levels = [x.levels EXCEPT ![side] = m]
      BY <2>1, <2>2
    <3>3. new.levels = [b.levels EXCEPT ![side] = m]
      <4> HIDE DEF m, n, new
      <4> QED BY <3>1, <3>2
    <3> QED BY <3>3
  <2> QED BY <1>1, <1>6, <2>3 DEF LevelsBut
<1> QED BY <1>1, <1>5, <1>6

\* An arena in which `slot` is bypassed, and the level that it was in.
Bypassed(a, a2, slot) ==
  /\ DOMAIN a2 = DOMAIN a
  /\ \A s \in DOMAIN a :
       /\ SameTerms(a[s], a2[s])
       /\ a2[s].next = IF s = a[slot].prev THEN a[slot].next ELSE a[s].next
       /\ a2[s].prev = IF s = a[slot].next THEN a[slot].prev ELSE a[s].prev

LEMMA RemoveSlotLinks ==
  ASSUME NEW b, BookTypeOK(b), NEW slot \in DOMAIN b.arena,
         NEW side \in Side, NEW price \in DOMAIN b.levels[side], NEW qty \in Qty
  PROVE  LET new == RemoveSlot(b, slot, side, price, qty)
         IN  /\ BookTypeOK(new) /\ SameOrders(b, new)
             /\ Bypassed(b.arena, new.arena, slot)
             /\ \E level : /\ CutLevel(b.levels[side][price], level, slot, b.arena[slot])
                           /\ LevelsBut(b, new, side, price, level)
<1> DEFINE order    == b.arena[slot]
           half     == SetNext(b.arena, order.prev, order.next)
           stitched == SetPrev(half, order.next, order.prev)
           level    == b.levels[side][price]
           shrunk   == [head  |-> IF level.head = slot THEN order.next ELSE level.head,
                        tail  |-> IF level.tail = slot THEN order.prev ELSE level.tail,
                        total |-> SaturatingSub(level.total, qty)]
           unlinked == [b EXCEPT !.arena = stitched]
           set      == SetLevel(unlinked, side, price, shrunk)
           new      == RemoveSlot(b, slot, side, price, qty)
<1>1. order \in Order /\ IsMap(b.arena, Slot, Order) /\ price \in Price /\ level \in Level
  BY DEF BookTypeOK, IsMap
<1>2. order.prev \in Optional(Slot) /\ order.next \in Optional(Slot)
  BY <1>1 DEF Order
<1>3. shrunk \in Level
  BY <1>1, <1>2, WordLemma DEF Level
<1>4. IsMap(half, Slot, Order) /\ SameButLinks(b.arena, half)
  BY <1>1, <1>2, LinkType
<1>5. IsMap(stitched, Slot, Order) /\ SameButLinks(b.arena, stitched)
  <2> HIDE DEF half
  <2>1. IsMap(stitched, Slot, Order) /\ SameButLinks(half, stitched)
    BY <1>2, <1>4, LinkType
  <2> QED BY <1>4, <2>1, SameTransitive
<1>6. Bypassed(b.arena, stitched, slot)
  <2>1. /\ DOMAIN half = DOMAIN b.arena
        /\ \A s \in DOMAIN b.arena :
             /\ SameTerms(b.arena[s], half[s])
             /\ half[s].next = IF s = order.prev THEN order.next ELSE b.arena[s].next
             /\ half[s].prev = b.arena[s].prev
    BY <1>1, SetLinks
  <2> HIDE DEF half
  <2>2. /\ DOMAIN stitched = DOMAIN half
        /\ \A s \in DOMAIN half :
             /\ SameTerms(half[s], stitched[s])
             /\ stitched[s].prev = IF s = order.next THEN order.prev ELSE half[s].prev
             /\ stitched[s].next = half[s].next
    BY <1>4, SetLinks
  <2> HIDE DEF stitched
  <2> QED BY <2>1, <2>2, TermsTransitive DEF Bypassed
<1>7. new = RemoveEmpty(set, side, price)
  BY DEF RemoveSlot, LevelAt
<1>8. CutLevel(level, shrunk, slot, order)
  BY DEF CutLevel
<1> HIDE DEF stitched, shrunk, new
<1>9. /\ BookTypeOK(unlinked) /\ unlinked.levels = b.levels /\ unlinked.arena = stitched
      /\ SameOrders(b, unlinked)
  BY <1>5, SetArenaType
<1> HIDE DEF unlinked
<1>10. /\ BookTypeOK(set) /\ set.arena = unlinked.arena /\ SameOrders(unlinked, set)
       /\ set.levels = [b.levels EXCEPT ![side] = Put(@, price, shrunk)]
  BY <1>1, <1>3, <1>9, SetLevelType
<1> HIDE DEF set
<1>11. /\ LevelsBut(b, new, side, price, shrunk) /\ new.arena = set.arena
       /\ SameOrders(set, new) /\ BookTypeOK(new)
  BY <1>1, <1>7, <1>10, PutOrGone
<1>12. BookTypeOK(new) /\ SameOrders(b, new) /\ new.arena = stitched
  BY <1>9, <1>10, <1>11 DEF SameOrders
<1>13. \E lev : CutLevel(level, lev, slot, order) /\ LevelsBut(b, new, side, price, lev)
  BY <1>8, <1>11
<1> QED BY <1>6, <1>12, <1>13 DEF new

LEMMA BypassedStitched ==
  ASSUME NEW a, NEW a2, NEW slot, Bypassed(a, a2, slot), NEW c, c.arena = Drop(a2, slot)
  PROVE  Stitched(a, c, slot)
<1>1. /\ DOMAIN c.arena = DOMAIN a \ {slot}
      /\ \A s \in DOMAIN c.arena : c.arena[s] = a2[s]
  BY DEF Drop, Bypassed
<1>2. ASSUME NEW s \in DOMAIN c.arena
      PROVE  /\ s # slot /\ s \in DOMAIN a /\ SameTerms(a[s], c.arena[s])
             /\ c.arena[s].next = IF s = a[slot].prev THEN a[slot].next ELSE a[s].next
             /\ c.arena[s].prev = IF s = a[slot].next THEN a[slot].prev ELSE a[s].prev
  <2>1. s # slot /\ s \in DOMAIN a /\ c.arena[s] = a2[s]
    BY <1>1
  <2> QED BY Zenon, <2>1 DEF Bypassed
<1> QED BY Zenon, <1>1, <1>2 DEF Stitched, SameTerms

\* An order that is cancelled where it rests.
LEMMA CancelLists ==
  ASSUME NEW b, BookTypeOK(b), NEW taken, ListsSound(b, taken),
         NEW slot, Rests(b.arena, taken, slot), NEW qty \in Qty,
         NEW side, side = b.arena[slot].side, NEW price, price = b.arena[slot].price
  PROVE  ListsSound(ArenaRemove(RemoveSlot(b, slot, side, price, qty), slot), taken)
<1> DEFINE cut == RemoveSlot(b, slot, side, price, qty)
           new == ArenaRemove(cut, slot)
<1>1. slot \in DOMAIN b.arena /\ slot \in Slot /\ side \in Side /\ price \in Price
  BY DEF Rests, BookTypeOK, IsMap, Order
<1>2. price \in DOMAIN b.levels[side]
  <2>1. PICK age \in [Slot -> Nat] : ListAt(b.arena, b.levels, taken, age, side, price)
    BY <1>1 DEF ListsSound
  <2>2. slot \in RestsAt(b.arena, taken, side, price)
    BY <1>1 DEF RestsAt
  <2> QED BY <2>1, <2>2 DEF ListAt
<1>3. /\ BookTypeOK(cut) /\ Bypassed(b.arena, cut.arena, slot)
      /\ \E level : /\ CutLevel(b.levels[side][price], level, slot, b.arena[slot])
                    /\ LevelsBut(b, cut, side, price, level)
  BY <1>1, <1>2, RemoveSlotLinks
<1>4. PICK level : /\ CutLevel(b.levels[side][price], level, slot, b.arena[slot])
                   /\ LevelsBut(b, cut, side, price, level)
  BY <1>3
<1> HIDE DEF cut
<1>5. new.levels = cut.levels /\ new.arena = Drop(cut.arena, slot)
  BY <1>1, <1>3, ArenaRemoveType
<1> HIDE DEF new
<1>6. LevelsBut(b, new, side, price, level)
  BY <1>4, <1>5 DEF LevelsBut
<1>7. Stitched(b.arena, new, slot)
  BY Zenon, <1>3, <1>5, BypassedStitched
<1>8. ListsSound(new, taken)
  BY Zenon, <1>4, <1>6, <1>7, ListLosesOne DEF PlacedAt
<1> QED BY <1>8 DEF new, cut

(***************************************************************************)
(* The call stack, frame by frame.                                         *)
(***************************************************************************)

LEMMA StackIn ==
  ASSUME NEW calls, StackSound(calls), calls # <<>>
  PROVE  /\ calls \in Seq({calls[i] : i \in 1 .. Len(calls)})
         /\ Len(calls) \in Nat \ {0} /\ Len(calls) \in 1 .. Len(calls)
<1> DEFINE S == {calls[i] : i \in 1 .. Len(calls)}
<1>1. \A i \in 1 .. Len(calls) : calls[i] \in S
  OBVIOUS
<1> HIDE DEF S
<1>2. calls \in Seq(S)
  BY <1>1, StackIsSeq DEF StackSound
<1>3. Len(calls) \in Nat \ {0}
  BY <1>2, EmptySeq
<1> QED BY <1>2, <1>3 DEF S

LEMMA BecomeShape ==
  ASSUME NEW calls, StackSound(calls), calls # <<>>, NEW frame,
         NEW new, new = [calls EXCEPT ![Len(calls)] = frame]
  PROVE  /\ new # <<>> /\ Len(new) = Len(calls)
         /\ \A i \in 1 .. Len(calls) : new[i] = IF i = Len(calls) THEN frame ELSE calls[i]
<1> DEFINE S == {calls[i] : i \in 1 .. Len(calls)} \cup {frame}
<1>1. frame \in S /\ \A i \in 1 .. Len(calls) : calls[i] \in S
  OBVIOUS
<1> HIDE DEF S
<1>2. calls \in Seq(S) /\ Len(calls) \in 1 .. Len(calls)
  BY <1>1, StackIsSeq, StackIn DEF StackSound
<1>3. /\ new \in Seq(S) /\ Len(new) = Len(calls)
      /\ \A i \in 1 .. Len(calls) : new[i] = IF i = Len(calls) THEN frame ELSE calls[i]
  BY <1>1, <1>2, ExceptSeq
<1>4. new # <<>>
  BY <1>2, <1>3, EmptySeq
<1> QED BY <1>3, <1>4

LEMMA PushShape ==
  ASSUME NEW calls, StackSound(calls), calls # <<>>, NEW frame,
         NEW new, new = Append(calls, frame)
  PROVE  /\ new # <<>> /\ Len(new) = Len(calls) + 1
         /\ \A i \in 1 .. Len(calls) : new[i] = calls[i]
         /\ new[Len(calls) + 1] = frame
<1> DEFINE S == {calls[i] : i \in 1 .. Len(calls)} \cup {frame}
<1>1. frame \in S /\ \A i \in 1 .. Len(calls) : calls[i] \in S
  OBVIOUS
<1> HIDE DEF S
<1>2. calls \in Seq(S) /\ Len(calls) \in Nat
  BY <1>1, StackIsSeq, StackIn DEF StackSound
<1>3. /\ new \in Seq(S) /\ Len(new) = Len(calls) + 1
      /\ \A i \in 1 .. Len(calls) : new[i] = calls[i]
      /\ new[Len(calls) + 1] = frame
  BY <1>1, <1>2, AppendProperties
<1>4. new # <<>>
  BY <1>2, <1>3, EmptySeq
<1> QED BY <1>3, <1>4

LEMMA ReturnShape ==
  ASSUME NEW calls, StackSound(calls), calls # <<>>,
         NEW new, new = SubSeq(calls, 1, Len(calls) - 1)
  PROVE  /\ Len(new) = Len(calls) - 1
         /\ \A i \in 1 .. Len(calls) - 1 : new[i] = calls[i]
<1> DEFINE S   == {calls[i] : i \in 1 .. Len(calls)}
<1>1. \A i \in 1 .. Len(calls) : calls[i] \in S
  OBVIOUS
<1> HIDE DEF S
<1>2. calls \in Seq(S) /\ Len(calls) \in Nat \ {0}
  BY <1>1, StackIsSeq, StackIn DEF StackSound
<1> DEFINE last == Len(calls) - 1
<1>3. last \in Int /\ \A i \in 1 .. last : calls[i] \in S
  BY <1>1, <1>2
<1>0. new = SubSeq(calls, 1, last)
  OBVIOUS
<1> HIDE DEF last
<1>4. Len(new) = IF 1 <= last THEN last - 1 + 1 ELSE 0
  BY <1>0, <1>3, SubSeqProperties
<1>5. \A i \in 1 .. last - 1 + 1 : new[i] = calls[1 + i - 1]
  BY <1>0, <1>3, SubSeqProperties
<1>6. Len(new) = Len(calls) - 1
  <2> DEFINE n == Len(calls)
             m == Len(new)
  <2>1. n \in Nat \ {0} /\ last = n - 1 /\ m = IF 1 <= last THEN last - 1 + 1 ELSE 0
    BY <1>2, <1>4 DEF last
  <2> HIDE DEF n, m
  <2>2. m = n - 1
    BY <2>1
  <2> QED BY <2>2 DEF n, m
<1>7. \A i \in 1 .. Len(calls) - 1 : new[i] = calls[i]
  BY <1>2, <1>5 DEF last
<1> QED BY <1>6, <1>7

\* Only the innermost call can be matching.
LEMMA TakersAre ==
  ASSUME NEW calls, StackSound(calls)
  PROVE  /\ calls = <<>> => Takers(calls) = {}
         /\ calls # <<>> =>
              Takers(calls) = IF calls[Len(calls)].call = "match_order"
                                THEN {calls[Len(calls)].slot} ELSE {}
<1>1. CASE calls = <<>>
  BY <1>1 DEF Takers
<1>2. CASE calls # <<>>
  <2> DEFINE n == Len(calls)
  <2>1. n \in Nat \ {0} /\ n \in 1 .. n
    BY <1>2, StackIn
  <2>2. \A i \in 1 .. n - 1 : calls[i].call # "match_order"
    BY DEF StackSound, Nested
  <2>3. \A i \in 1 .. n : calls[i].call = "match_order" => i = n
    BY <2>1, <2>2
  <2> HIDE DEF n
  <2>4. ASSUME NEW s
        PROVE  s \in {calls[i].slot : i \in {j \in 1 .. n : calls[j].call = "match_order"}}
                 <=> calls[n].call = "match_order" /\ s = calls[n].slot
    BY <2>1, <2>3
  <2> QED BY <1>2, <2>4 DEF Takers, n
<1> QED BY <1>1, <1>2

(***************************************************************************)
(* What a step leaves alone of the stops.                                  *)
(***************************************************************************)

\* No order appears that is not being matched, and none changes its terms ...
NoneComes(b, taken, c, taken2) ==
  \A s \in DOMAIN c.arena \ taken2 :
    /\ s \in DOMAIN b.arena \ taken
    /\ c.arena[s].kind = b.arena[s].kind /\ c.arena[s].side = b.arena[s].side
    /\ c.arena[s].stop_price = b.arena[s].stop_price

\* ... and no stop goes away.
NoStopGoes(b, taken, c, taken2) ==
  \A s \in DOMAIN b.arena \ taken :
    b.arena[s].kind = "StopMarket" => s \in DOMAIN c.arena \ taken2

StillFired(calls, new) ==
  \A side \in Side, p \in Price : Fired(calls, side, p) => Fired(new, side, p)

LEMMA TreesStay ==
  ASSUME NEW b, BookTypeOK(b), NEW calls, NEW taken, TreesSound(b, calls, taken),
         NEW c, NEW new, NEW taken2, c.stops = b.stops,
         NoneComes(b, taken, c, taken2), NoStopGoes(b, taken, c, taken2),
         StillFired(calls, new)
  PROVE  TreesSound(c, new, taken2)
<1> SUFFICES ASSUME NEW side \in Side, NEW p \in DOMAIN b.stops[side],
                    NEW i \in 1 .. Len(b.stops[side][p])
             PROVE  LET s == b.stops[side][p][i]
                    IN  IF s \in DOMAIN c.arena \ taken2 THEN HoldsStop(c, side, p, s)
                                                         ELSE Fired(new, side, p)
  BY DEF TreesSound
<1> DEFINE s == b.stops[side][p][i]
<1>1. p \in Price
  BY DEF BookTypeOK, IsMap
<1>2. IF s \in DOMAIN b.arena \ taken THEN HoldsStop(b, side, p, s) ELSE Fired(calls, side, p)
  BY DEF TreesSound
<1> HIDE DEF s
<1>3. IF s \in DOMAIN c.arena \ taken2 THEN HoldsStop(c, side, p, s) ELSE Fired(new, side, p)
  BY <1>1, <1>2 DEF NoneComes, NoStopGoes, StillFired, HoldsStop
<1> QED BY <1>3 DEF s

LEMMA CollectedStays ==
  ASSUME NEW b, NEW taken, NEW c, NEW taken2, NoneComes(b, taken, c, taken2),
         NEW frame, Collected(b, taken, frame)
  PROVE  Collected(c, taken2, frame)
BY DEF Collected, NoneComes, HoldsStop

\* Every frame of trigger_stops is an old one, or in order.
FramesKept(calls, new, c, taken2) ==
  \A j \in 1 .. Len(new) :
    new[j].call = "trigger_stops" =>
      (j \in 1 .. Len(calls) /\ new[j] = calls[j]) \/ Collected(c, taken2, new[j])

LEMMA CollectedAll ==
  ASSUME NEW b, NEW calls, NEW taken, CollectedSound(b, calls, taken),
         NEW c, NEW new, NEW taken2, NoneComes(b, taken, c, taken2),
         FramesKept(calls, new, c, taken2)
  PROVE  CollectedSound(c, new, taken2)
BY CollectedStays DEF CollectedSound, FramesKept

\* As long as no call of trigger_stops is in progress every slot of a tree holds
\* its stop.
LEMMA AllLive ==
  ASSUME NEW b, NEW calls, NEW taken, TreesSound(b, calls, taken),
         \A i \in 1 .. Len(calls) : calls[i].call # "trigger_stops",
         NEW side \in Side, NEW p \in DOMAIN b.stops[side],
         NEW i \in 1 .. Len(b.stops[side][p])
  PROVE  /\ b.stops[side][p][i] \in DOMAIN b.arena \ taken
         /\ HoldsStop(b, side, p, b.stops[side][p][i])
<1>1. ~Fired(calls, side, p)
  BY DEF Fired
<1> QED BY <1>1 DEF TreesSound

\* What trigger_stops collects of sound trees is sound.
LEMMA TriggerCollects ==
  ASSUME NEW b, BookTypeOK(b), NEW calls, NEW taken, TreesSound(b, calls, taken),
         NEW c, NEW taken2, NoneComes(b, taken, c, taken2),
         NEW side \in Side, NEW last
  PROVE  Collected(c, taken2, TriggerStops(b, side, last))
<1> DEFINE hit   == {p \in DOMAIN b.stops[side] : Reached(side, last, p)}
           frame == TriggerStops(b, side, last)
<1>1. /\ frame.side = side /\ frame.last = last
      /\ frame.todo = Keep(b.stops[side], hit)
  BY DEF TriggerStops
<1>2. /\ DOMAIN frame.todo = hit
      /\ \A p \in hit : frame.todo[p] = b.stops[side][p] /\ p \in DOMAIN b.stops[side]
  BY <1>1 DEF Keep
<1>3. \A p \in hit : Reached(side, last, p)
  OBVIOUS
<1> HIDE DEF hit, frame
<1>4. Collected(b, taken, frame)
  BY <1>1, <1>2, <1>3 DEF Collected, TreesSound
<1> QED BY <1>4, CollectedStays DEF frame

LEMMA SwapCall ==
  ASSUME NEW calls, StackSound(calls), calls # <<>>, NEW frame,
         calls[Len(calls)].call # "trigger_stops",
         NEW new, new = [calls EXCEPT ![Len(calls)] = frame],
         NEW c, NEW taken, frame.call = "trigger_stops" => Collected(c, taken, frame)
  PROVE  StillFired(calls, new) /\ FramesKept(calls, new, c, taken)
<1>1. /\ Len(new) = Len(calls)
      /\ \A i \in 1 .. Len(calls) : new[i] = IF i = Len(calls) THEN frame ELSE calls[i]
  BY BecomeShape
<1>2. StillFired(calls, new)
  BY <1>1 DEF StillFired, Fired
<1>3. FramesKept(calls, new, c, taken)
  BY <1>1 DEF FramesKept
<1> QED BY <1>2, <1>3

LEMMA ReturnCall ==
  ASSUME NEW calls, StackSound(calls), calls # <<>>,
         calls[Len(calls)].call # "trigger_stops",
         NEW new, new = SubSeq(calls, 1, Len(calls) - 1), NEW c, NEW taken
  PROVE  StillFired(calls, new) /\ FramesKept(calls, new, c, taken)
<1> DEFINE n == Len(calls)
<1>1. Len(new) = n - 1 /\ n \in Nat \ {0} /\ \A i \in 1 .. n - 1 : new[i] = calls[i]
  BY ReturnShape, StackIn
<1>2. calls[n].call # "trigger_stops"
  OBVIOUS
<1> HIDE DEF n
<1>3. \A i \in 1 .. n : i # n => i \in 1 .. n - 1
  BY <1>1
<1>4. \A i \in 1 .. n - 1 : i \in 1 .. n
  BY <1>1
<1>5. StillFired(calls, new)
  <2> SUFFICES ASSUME NEW side \in Side, NEW p \in Price, Fired(calls, side, p)
               PROVE  Fired(new, side, p)
    BY DEF StillFired
  <2>1. PICK i \in 1 .. n : /\ calls[i].call = "trigger_stops" /\ calls[i].side = side
                            /\ Reached(side, calls[i].last, p)
    BY DEF Fired, n
  <2>2. i \in 1 .. n - 1
    BY <1>2, <1>3, <2>1
  <2>3. i \in 1 .. Len(new) /\ new[i] = calls[i]
    BY <1>1, <2>2
  <2> QED BY <2>1, <2>3 DEF Fired
<1>6. FramesKept(calls, new, c, taken)
  <2>1. ASSUME NEW j \in 1 .. Len(new)
        PROVE  j \in 1 .. n /\ new[j] = calls[j]
    BY <1>1, <1>4
  <2> QED BY <2>1 DEF FramesKept, n
<1> QED BY <1>5, <1>6

\* While no order is being matched, no demand is made on the innermost call
\* unless it is one of apply_new.
LEMMA CallsIdle ==
  ASSUME NEW b, NEW calls, StackSound(calls),
         calls # <<>> => calls[Len(calls)].call = "trigger_stops"
  PROVE  CallSound(b, calls) /\ Takers(calls) = {}
<1>1. Takers(calls) = {}
  BY TakersAre
<1>2. \A j \in 1 .. Len(calls) : calls[j].call = "trigger_stops"
  <2>1. CASE calls = <<>>
    BY <2>1
  <2>2. CASE calls # <<>>
    <3> DEFINE n == Len(calls)
    <3>1. n \in Nat \ {0} /\ \A j \in 1 .. n - 1 : calls[j].call = "trigger_stops"
      BY <2>2, StackIn DEF StackSound, Nested
    <3>2. calls[n].call = "trigger_stops"
      BY <2>2
    <3> HIDE DEF n
    <3>3. \A j \in 1 .. n : calls[j].call = "trigger_stops"
      BY <3>1, <3>2
    <3> QED BY <3>3 DEF n
  <2> QED BY <2>1, <2>2
<1>3. CallSound(b, calls)
  BY <1>2 DEF CallSound, FrameSound
<1> QED BY <1>1, <1>3

\* What Whole says of the stops and the calls.
StopsSound(b, calls) ==
  /\ TreesSound(b, calls, Takers(calls))
  /\ CollectedSound(b, calls, Takers(calls))
  /\ CallSound(b, calls)

LEMMA SameIsStill ==
  ASSUME NEW b, NEW taken, NEW c, c.arena = b.arena
  PROVE  NoneComes(b, taken, c, taken) /\ NoStopGoes(b, taken, c, taken)
BY DEF NoneComes, NoStopGoes

\* apply_new or match_order has ended.
LEMMA EndOfCall ==
  ASSUME NEW b, BookTypeOK(b), NEW calls, StackSound(calls), calls # <<>>,
         calls[Len(calls)].call # "trigger_stops",
         TreesSound(b, calls, {}), CollectedSound(b, calls, {}),
         NEW new, StackSound(new), new # <<>> => new[Len(new)].call = "trigger_stops",
         NEW last,
         \/ new = SubSeq(calls, 1, Len(calls) - 1)
         \/ new = [calls EXCEPT ![Len(calls)] = TriggerStops(b, "Buy", last)]
  PROVE  StopsSound(b, new) /\ Takers(new) = {}
<1>1. CallSound(b, new) /\ Takers(new) = {}
  BY CallsIdle
<1>2. NoneComes(b, {}, b, {}) /\ NoStopGoes(b, {}, b, {})
  BY SameIsStill
<1>3. Collected(b, {}, TriggerStops(b, "Buy", last))
  BY <1>2, TriggerCollects DEF Side
<1>4. StillFired(calls, new) /\ FramesKept(calls, new, b, {})
  <2>1. CASE new = SubSeq(calls, 1, Len(calls) - 1)
    BY <2>1, ReturnCall
  <2>2. CASE new = [calls EXCEPT ![Len(calls)] = TriggerStops(b, "Buy", last)]
    BY <2>2, <1>3, SwapCall
  <2> QED BY <2>1, <2>2
<1>5. TreesSound(b, new, {})
  BY <1>2, <1>4, TreesStay
<1>6. CollectedSound(b, new, {})
  BY <1>2, <1>4, CollectedAll
<1> QED BY <1>1, <1>5, <1>6 DEF StopsSound

LEMMA TopCallSound ==
  ASSUME NEW b, NEW calls, StackSound(calls), calls # <<>>,
         FrameSound(b, calls[Len(calls)], Len(calls))
  PROVE  CallSound(b, calls)
<1> DEFINE n == Len(calls)
<1>1. n \in Nat \ {0} /\ \A j \in 1 .. n - 1 : calls[j].call = "trigger_stops"
  BY StackIn DEF StackSound, Nested
<1>2. FrameSound(b, calls[n], n)
  OBVIOUS
<1> HIDE DEF n
<1>3. \A j \in 1 .. n : j # n => calls[j].call = "trigger_stops"
  BY <1>1
<1>4. \A j \in 1 .. n : FrameSound(b, calls[j], j)
  <2> TAKE j \in 1 .. n
  <2>1. CASE j = n
    BY <2>1, <1>2
  <2>2. CASE j # n
    BY <2>2, <1>3 DEF FrameSound
  <2> QED BY <2>1, <2>2
<1> QED BY <1>4 DEF CallSound, n

(***************************************************************************)
(* Every action keeps the lists, the trees and the calls whole.            *)
(***************************************************************************)

\* What is known while a call is in progress.
LEMMA InCall ==
  ASSUME Inv, Whole(book, stack), NEW call, In(call)
  PROVE  /\ stack # <<>> /\ stack[Len(stack)] = Top /\ Top.call = call
         /\ StackSound(stack) /\ Len(stack) \in Nat \ {0}
         /\ Takers(stack) = IF call = "match_order" THEN {Top.slot} ELSE {}
         /\ FrameSound(book, Top, Len(stack))
         /\ call = "trigger_stops" => Collected(book, Takers(stack), Top)
<1>1. stack # <<>> /\ stack[Len(stack)] = Top /\ Top.call = call /\ StackSound(stack)
  BY DEF In, Top, Inv
<1>2. Len(stack) \in Nat \ {0} /\ Len(stack) \in 1 .. Len(stack)
  BY <1>1, StackIn
<1>3. Takers(stack) = IF call = "match_order" THEN {Top.slot} ELSE {}
  BY <1>1, TakersAre
<1>4. FrameSound(book, Top, Len(stack))
  BY <1>1, <1>2 DEF Whole, CallSound
<1>5. call = "trigger_stops" => Collected(book, Takers(stack), Top)
  BY <1>1, <1>2 DEF Whole, CollectedSound
<1> QED BY <1>1, <1>2, <1>3, <1>4, <1>5

LEMMA InitWhole == Init => Whole(book, stack)
<1> SUFFICES ASSUME Init PROVE Whole(book, stack)
  OBVIOUS
<1>1. stack = <<>> /\ book.arena = <<>> /\ Len(stack) = 0
      /\ \A side \in Side : book.levels[side] = <<>> /\ book.stops[side] = <<>>
  BY DEF Init, EmptyBook
<1>2. DOMAIN book.arena = {} /\ \A side \in Side : DOMAIN book.levels[side] = {}
                                                  /\ DOMAIN book.stops[side] = {}
  BY <1>1
<1>3. \A i \in 1 .. Len(stack) : FALSE
  BY <1>1
<1>4. OrdersSound(book, Takers(stack)) /\ TreesSound(book, stack, Takers(stack))
      /\ Uncrossed(book.levels)
  BY <1>2 DEF OrdersSound, TreesSound, Uncrossed, Side
<1>5. CollectedSound(book, stack, Takers(stack)) /\ CallSound(book, stack)
  BY <1>3 DEF CollectedSound, CallSound
<1>6. ListsSound(book, Takers(stack))
  <2> DEFINE age == [s \in Slot |-> 0]
  <2>1. age \in [Slot -> Nat]
    OBVIOUS
  <2> HIDE DEF age
  <2>2. \A side \in Side, price \in Price :
          ListAt(book.arena, book.levels, Takers(stack), age, side, price)
    BY <1>2 DEF ListAt, RestsAt, Rests
  <2> QED BY <2>1, <2>2 DEF ListsSound
<1> QED BY <1>4, <1>5, <1>6 DEF Whole

\* The call of apply_new returns and has changed nothing.
LEMMA NothingDoneWhole ==
  ASSUME Inv, Whole(book, stack), In("apply_new"), Return, book' = book
  PROVE  Whole(book', stack')
<1>1. /\ stack # <<>> /\ stack[Len(stack)].call = "apply_new" /\ Takers(stack) = {}
      /\ StackSound(stack)
  BY InCall
<1>2. stack' = SubSeq(stack, 1, Len(stack) - 1)
  BY DEF Return
<1>3. StackSound(stack') /\ (stack' # <<>> => stack'[Len(stack')].call = "trigger_stops")
  BY <1>1, <1>2, ReturnSound
<1>4. TreesSound(book, stack, {}) /\ CollectedSound(book, stack, {}) /\ BookTypeOK(book)
  BY <1>1 DEF Whole, Inv, BookSound
<1>5. StopsSound(book, stack') /\ Takers(stack') = {}
  BY <1>1, <1>2, <1>3, <1>4, EndOfCall
<1> QED BY <1>1, <1>5 DEF Whole, StopsSound

LEMMA FirstCallSound ==
  ASSUME NEW b, NEW no, no.kind # "StopLimit", IsStop(no) => no.id \in StopIdentifiers,
         TreesSound(b, <<>>, {})
  PROVE  LET new == <<ApplyNew(no)>>
         IN  StopsSound(b, new) /\ Takers(new) = {}
<1> DEFINE new == <<ApplyNew(no)>>
<1>1. Len(new) = 1 /\ new[1] = ApplyNew(no)
  OBVIOUS
<1>2. /\ ApplyNew(no).call = "apply_new" /\ ApplyNew(no).order = no
      /\ ApplyNew(no).call # "match_order" /\ ApplyNew(no).call # "trigger_stops"
  BY DEF ApplyNew
<1> HIDE DEF new
<1>3. \A j \in 1 .. Len(new) : j = 1 /\ new[j] = ApplyNew(no)
  BY <1>1
<1>4. Takers(new) = {}
  BY <1>2, <1>3 DEF Takers
<1>5. FrameSound(b, ApplyNew(no), 1)
  BY <1>2 DEF FrameSound
<1>6. CallSound(b, new) /\ CollectedSound(b, new, {})
  BY <1>2, <1>3, <1>5 DEF CallSound, CollectedSound
<1>7. TreesSound(b, new, {})
  <2>1. \A side, p : ~Fired(<<>>, side, p)
    BY DEF Fired
  <2> QED BY <2>1 DEF TreesSound
<1> QED BY <1>4, <1>6, <1>7 DEF StopsSound, new

LEMMA NewWhole ==
  ASSUME Inv, Whole(book, stack), Tame, NEW c \in Commands, New(c)
  PROVE  Whole(book', stack')
<1>1. stack = <<>> /\ stack' = <<ApplyNew(c.order)>> /\ book' = book
  BY DEF New, Idle
<1>2. Takers(stack) = {} /\ TreesSound(book, <<>>, {})
  BY <1>1, TakersAre DEF Inv, Whole
<1>3. c.order.kind # "StopLimit" /\ (IsStop(c.order) => c.order.id \in StopIdentifiers)
  BY DEF Tame, New, StopIdentifiers
<1>4. StopsSound(book, stack') /\ Takers(stack') = {}
  BY <1>1, <1>2, <1>3, FirstCallSound
<1> QED BY <1>1, <1>2, <1>4 DEF Whole, StopsSound

\* An order joins the arena without joining the index or a level.
LEMMA ArenaGains ==
  ASSUME NEW b, BookSound(b), NEW order \in Order
  PROVE  LET c    == ArenaInsert(b, order)
             slot == VacantSlot(b)
         IN  /\ slot \notin DOMAIN b.arena /\ slot \in Slot
             /\ DOMAIN c.arena = DOMAIN b.arena \cup {slot} /\ c.arena[slot] = order
             /\ \A s \in DOMAIN b.arena : c.arena[s] = b.arena[s]
             /\ c.ids = b.ids /\ c.levels = b.levels /\ c.stops = b.stops
             /\ BookTypeOK(c)
<1> DEFINE c    == ArenaInsert(b, order)
           slot == VacantSlot(b)
<1>1. /\ BookTypeOK(c) /\ slot \in Slot /\ c.levels = b.levels /\ c.ids = b.ids
      /\ c.arena = Put(b.arena, slot, order)
  BY ArenaInsertType DEF BookSound
<1>2. slot \notin DOMAIN b.arena
  BY FreshSlot DEF BookSound, SlotsSound
<1>3. c.stops = b.stops
  BY DEF ArenaInsert, BookSound, BookTypeOK, IsBook
<1> HIDE DEF c, slot
<1>4. /\ DOMAIN c.arena = DOMAIN b.arena \cup {slot} /\ c.arena[slot] = order
      /\ \A s \in DOMAIN b.arena : c.arena[s] = b.arena[s]
  BY <1>1, <1>2 DEF Put
<1> QED BY <1>1, <1>2, <1>3, <1>4 DEF c, slot

LEMMA StartMatchWhole ==
  ASSUME Inv, Whole(book, stack), StartMatch
  PROVE  Whole(book', stack')
<1> DEFINE no    == Top.order
           order == OrderOf(no)
           slot  == VacantSlot(book)
           frame == MatchOrder(slot, 0)
<1>1. /\ In("apply_new") /\ Refusal(no) = None /\ ~IsStop(no)
      /\ book' = ArenaInsert(book, order)
      /\ stack' = [stack EXCEPT ![Len(stack)] = frame]
  BY DEF StartMatch, Become
<1>2. no \in NewOrder /\ order \in Order
  BY <1>1, AcceptedType
<1>3. /\ stack # <<>> /\ stack[Len(stack)] = Top /\ Top.call = "apply_new"
      /\ StackSound(stack) /\ Len(stack) \in Nat \ {0} /\ Takers(stack) = {}
      /\ FrameSound(book, Top, Len(stack))
  BY <1>1, InCall
<1>4. /\ order.kind = no.kind /\ order.remaining = no.qty /\ no.qty \in 1 .. QtyMod - 1
      /\ no.kind # "StopLimit" /\ ~IsStop(order)
      /\ Len(stack) > 1 => no.kind = "Market"
  <2>1. no.qty # 0
    BY <1>1, ReasonAssumption DEF Refusal
  <2>2. order.kind = no.kind /\ order.remaining = no.qty /\ no.qty \in Qty
    BY <1>2 DEF NewOrder, OrderOf
  <2>3. no.qty \in 1 .. QtyMod - 1
    BY <2>1, <2>2 DEF Qty
  <2>4. no.kind # "StopLimit" /\ (Len(stack) > 1 => no.kind = "Market")
    BY <1>3 DEF FrameSound
  <2> QED BY <1>1, <2>2, <2>3, <2>4 DEF IsStop
<1> HIDE DEF no, order
<1>5. /\ slot \notin DOMAIN book.arena /\ slot \in Slot
      /\ DOMAIN book'.arena = DOMAIN book.arena \cup {slot} /\ book'.arena[slot] = order
      /\ \A s \in DOMAIN book.arena : book'.arena[s] = book.arena[s]
      /\ book'.ids = book.ids /\ book'.levels = book.levels /\ book'.stops = book.stops
  BY <1>1, <1>2, ArenaGains DEF Inv
<1>6. frame.call = "match_order" /\ frame.slot = slot /\ frame.filled = 0
  BY DEF MatchOrder
<1>7. FrameOK(frame)
  BY <1>5 DEF FrameOK, MatchOrder, Qty
<1> HIDE DEF frame, slot
<1>8. /\ StackSound(stack') /\ stack' # <<>> /\ stack'[Len(stack')] = frame
      /\ Len(stack') = Len(stack)
  BY <1>1, <1>3, <1>7, BecomeSound, BecomeShape
<1>9. Takers(stack') = {slot}
  BY <1>6, <1>8, TakersAre
<1>10. FrameSound(book', frame, Len(stack'))
  BY <1>3, <1>4, <1>5, <1>6, <1>8 DEF FrameSound
<1>11. CallSound(book', stack')
  BY <1>8, <1>10, TopCallSound
<1>12. BookTypeOK(book)
  BY DEF Inv, BookSound
<1>13. NoneComes(book, {}, book', {slot}) /\ NoStopGoes(book, {}, book', {slot})
  BY <1>5 DEF NoneComes, NoStopGoes
<1>14. StillFired(stack, stack') /\ FramesKept(stack, stack', book', {slot})
  BY <1>1, <1>3, <1>6, SwapCall
<1>15. TreesSound(book', stack', {slot})
  BY <1>3, <1>5, <1>12, <1>13, <1>14, TreesStay DEF Whole
<1>16. CollectedSound(book', stack', {slot})
  BY <1>3, <1>13, <1>14, CollectedAll DEF Whole
<1>17. OrdersSound(book', {slot})
  <2>1. OrdersSound(book, {})
    BY <1>3 DEF Whole
  <2> QED BY <2>1, <1>4, <1>5 DEF OrdersSound
<1>18. ListsSound(book', {slot})
  <2>1. ListsSound(book, {}) /\ DOMAIN book.levels = Side
    BY <1>3 DEF Whole, Inv, BookSound, BookTypeOK
  <2>2. SameResting(book, {}, book', {slot})
    BY <1>5 DEF SameResting, Rests
  <2>3. SameEnds(book, book')
    BY <1>5, <2>1 DEF SameEnds
  <2> QED BY <2>1, <2>2, <2>3, ListsUntouched
<1> QED BY <1>5, <1>9, <1>11, <1>15, <1>16, <1>17, <1>18 DEF Whole

\* A stop joins the queue at its trigger; everything else in the trees stays.
LEMMA StopJoins ==
  ASSUME NEW b, BookTypeOK(b), NEW side \in Side, NEW trigger, NEW slot \in Slot,
         NEW c, c = HoldStopAt(b, side, trigger, slot),
         NEW d \in Side, NEW p \in DOMAIN c.stops[d], NEW i \in 1 .. Len(c.stops[d][p])
  PROVE  \/ /\ p \in DOMAIN b.stops[d] /\ i \in 1 .. Len(b.stops[d][p])
            /\ c.stops[d][p][i] = b.stops[d][p][i]
         \/ d = side /\ p = trigger /\ c.stops[d][p][i] = slot
<1> DEFINE held == IF trigger \in DOMAIN b.stops[side] THEN b.stops[side][trigger] ELSE <<>>
           list == Append(held, slot)
<1>1. c.stops = [b.stops EXCEPT ![side] = Put(b.stops[side], trigger, list)]
  <2> DEFINE tree  == Put(b.stops[side], trigger, list)
             lists == [b.stops EXCEPT ![side] = tree]
  <2>1. c = [b EXCEPT !.stops = lists]
    BY DEF HoldStopAt
  <2> HIDE DEF lists
  <2>2. c.stops = lists
    BY <2>1 DEF BookTypeOK, IsBook
  <2>3. c.stops = [b.stops EXCEPT ![side] = tree]
    <3> HIDE DEF tree
    <3> QED BY <2>2 DEF lists
  <2> QED BY <2>3
<1>2. DOMAIN b.stops = Side /\ held \in Seq(Slot)
  <2>1. DOMAIN b.stops = Side /\ IsMap(b.stops[side], Price, Seq(Slot) \ {<<>>})
    BY DEF BookTypeOK
  <2>2. trigger \in DOMAIN b.stops[side] => b.stops[side][trigger] \in Seq(Slot)
    BY <2>1 DEF IsMap
  <2>3. <<>> \in Seq(Slot)
    OBVIOUS
  <2> QED BY <2>1, <2>2, <2>3
<1>3. \A j \in 1 .. Len(list) :
        (j \in 1 .. Len(held) /\ list[j] = held[j]) \/ list[j] = slot
  <2>1. /\ Len(list) = Len(held) + 1 /\ Len(held) \in Nat
        /\ \A j \in 1 .. Len(held) : list[j] = held[j]
        /\ list[Len(held) + 1] = slot
    <3> HIDE DEF held
    <3> QED BY <1>2, AppendProperties
  <2> HIDE DEF list
  <2> QED BY <2>1
<1> HIDE DEF list
<1>4. CASE d # side
  BY <1>1, <1>2, <1>4
<1>5. CASE d = side /\ p # trigger
  <2>1. c.stops[d] = Put(b.stops[d], trigger, list)
    BY <1>1, <1>2, <1>5
  <2> QED BY <1>5, <2>1 DEF Put
<1>6. CASE d = side /\ p = trigger
  <2>1. c.stops[d] = Put(b.stops[d], trigger, list)
    BY <1>1, <1>2, <1>6
  <2>2. c.stops[d][p] = list
    BY <1>6, <2>1 DEF Put
  <2>3. (i \in 1 .. Len(held) /\ list[i] = held[i]) \/ list[i] = slot
    BY <1>3, <2>2
  <2>4. ASSUME i \in 1 .. Len(held)
        PROVE  p \in DOMAIN b.stops[d] /\ b.stops[d][p] = held
    BY <1>6, <2>4
  <2> QED BY <1>6, <2>2, <2>3, <2>4
<1> QED BY <1>4, <1>5, <1>6

LEMMA HoldStopWhole ==
  ASSUME Inv, Whole(book, stack), HoldStop
  PROVE  Whole(book', stack')
<1> DEFINE no    == Top.order
           order == OrderOf(no)
           slot  == VacantSlot(book)
           loc   == [slot |-> slot, side |-> no.side, price |-> no.stop_price]
           put   == ArenaInsert(book, order)
           known == IndexInsert(put, no.id, loc)
<1>1. /\ In("apply_new") /\ Refusal(no) = None /\ IsStop(no)
      /\ book' = HoldStopAt(known, no.side, no.stop_price, slot)
      /\ stack' = SubSeq(stack, 1, Len(stack) - 1)
  BY DEF HoldStop, Return
<1>2. no \in NewOrder /\ order \in Order /\ no.id \notin DOMAIN book.ids
  BY <1>1, AcceptedType
<1>3. /\ stack # <<>> /\ stack[Len(stack)] = Top /\ Top.call = "apply_new"
      /\ StackSound(stack) /\ Len(stack) \in Nat \ {0} /\ Takers(stack) = {}
      /\ FrameSound(book, Top, Len(stack))
  BY <1>1, InCall
<1>4. /\ order.kind = "StopMarket" /\ order.side = no.side /\ order.id = no.id
      /\ order.stop_price = no.stop_price
      /\ no.id \in StopIdentifiers /\ Len(stack) = 1
      /\ no.id \in OrderId /\ no.side \in Side /\ no.stop_price \in Price
  <2>0. IsStop(no)
    BY <1>1
  <2>1. no.kind # "StopLimit" /\ no.id \in StopIdentifiers /\ (Len(stack) > 1 => no.kind = "Market")
    BY <1>3, <2>0 DEF FrameSound
  <2>2. no.kind = "StopMarket"
    BY <2>0, <2>1 DEF IsStop
  <2>3. Len(stack) = 1
    <3> DEFINE n == Len(stack)
    <3>1. n \in Nat \ {0} /\ ~(n > 1)
      BY <1>3, <2>1, <2>2
    <3> HIDE DEF n
    <3>2. n = 1
      BY <3>1
    <3> QED BY <3>2 DEF n
  <2> QED BY <1>2, <2>1, <2>2, <2>3 DEF OrderOf, NewOrder
<1> HIDE DEF no, order
<1>5. /\ slot \notin DOMAIN book.arena /\ slot \in Slot
      /\ DOMAIN put.arena = DOMAIN book.arena \cup {slot} /\ put.arena[slot] = order
      /\ \A s \in DOMAIN book.arena : put.arena[s] = book.arena[s]
      /\ put.ids = book.ids /\ put.levels = book.levels /\ put.stops = book.stops
      /\ BookTypeOK(put)
  BY <1>2, ArenaGains DEF Inv
<1>6. loc \in Location /\ loc.slot = slot
  BY <1>4, <1>5 DEF Location
<1> HIDE DEF put, slot, loc
<1>7. /\ BookTypeOK(known) /\ known.levels = book.levels /\ known.arena = put.arena
      /\ known.ids = Put(book.ids, no.id, loc) /\ known.stops = book.stops
  <2>1. known.stops = put.stops
    BY <1>5 DEF IndexInsert, BookTypeOK, IsBook
  <2> QED BY <1>4, <1>5, <1>6, <2>1, IndexType
<1> HIDE DEF known
<1>8. /\ BookTypeOK(book') /\ book'.levels = book.levels /\ book'.arena = put.arena
      /\ book'.ids = known.ids
  BY <1>1, <1>4, <1>5, <1>7, HoldStopType
<1>9. OrdersSound(book', {})
  <2>1. OrdersSound(book, {})
    BY <1>3 DEF Whole
  <2>2. \A id \in DOMAIN book.ids : id \in DOMAIN book'.ids /\ book'.ids[id] = book.ids[id]
    BY <1>2, <1>7, <1>8 DEF Put
  <2>3. no.id \in DOMAIN book'.ids /\ book'.ids[no.id].slot = slot
    BY <1>6, <1>7, <1>8 DEF Put
  <2>4. ASSUME NEW s \in DOMAIN book.arena
        PROVE  book'.arena[s] = book.arena[s] /\ book.arena[s].id \in DOMAIN book.ids
    BY Zenon, <1>5, <1>8, <2>1 DEF OrdersSound
  <2>5. DOMAIN book'.arena = DOMAIN book.arena \cup {slot} /\ book'.arena[slot] = order
    BY <1>5, <1>8
  <2> QED BY <1>4, <2>1, <2>2, <2>3, <2>4, <2>5 DEF OrdersSound
<1>10. ListsSound(book', {})
  <2>1. ListsSound(book, {}) /\ DOMAIN book.levels = Side
    BY <1>3 DEF Whole, Inv, BookSound, BookTypeOK
  <2>2. SameResting(book, {}, book', {})
    BY <1>4, <1>5, <1>8 DEF SameResting, Rests
  <2>3. SameEnds(book, book')
    BY <1>4, <1>5, <1>8, <2>1 DEF SameEnds
  <2> QED BY <2>1, <2>2, <2>3, ListsUntouched
<1>11. \A i \in 1 .. Len(stack) : stack[i].call = "apply_new"
  BY <1>3, <1>4
<1>12. TreesSound(book', stack, {})
  <2> SUFFICES ASSUME NEW d \in Side, NEW p \in DOMAIN book'.stops[d],
                      NEW i \in 1 .. Len(book'.stops[d][p])
               PROVE  /\ book'.stops[d][p][i] \in DOMAIN book'.arena
                      /\ HoldsStop(book', d, p, book'.stops[d][p][i])
    BY DEF TreesSound
  <2>1. \/ /\ p \in DOMAIN known.stops[d] /\ i \in 1 .. Len(known.stops[d][p])
           /\ book'.stops[d][p][i] = known.stops[d][p][i]
        \/ d = no.side /\ p = no.stop_price /\ book'.stops[d][p][i] = slot
    BY <1>1, <1>4, <1>5, <1>7, StopJoins
  <2>2. CASE d = no.side /\ p = no.stop_price /\ book'.stops[d][p][i] = slot
    BY <2>2, <1>4, <1>5, <1>8 DEF HoldsStop
  <2>3. CASE /\ p \in DOMAIN known.stops[d] /\ i \in 1 .. Len(known.stops[d][p])
             /\ book'.stops[d][p][i] = known.stops[d][p][i]
    <3>1. TreesSound(book, stack, {})
      BY <1>3 DEF Whole
    <3>2. /\ book.stops[d][p][i] \in DOMAIN book.arena
          /\ HoldsStop(book, d, p, book.stops[d][p][i])
      BY <1>7, <1>11, <2>3, <3>1, AllLive
    <3> QED BY <1>5, <1>7, <1>8, <2>3, <3>2 DEF HoldsStop
  <2> QED BY <2>1, <2>2, <2>3
<1>13. CollectedSound(book', stack, {})
  BY <1>11 DEF CollectedSound
<1>14. StackSound(stack') /\ (stack' # <<>> => stack'[Len(stack')].call = "trigger_stops")
  BY <1>1, <1>3, ReturnSound
<1>15. StopsSound(book', stack') /\ Takers(stack') = {}
  BY <1>1, <1>3, <1>8, <1>12, <1>13, <1>14, EndOfCall
<1> QED BY <1>3, <1>8, <1>9, <1>10, <1>15 DEF Whole, StopsSound

LEMMA UncrossedWithout ==
  ASSUME NEW b, BookTypeOK(b), NEW side \in Side, NEW price \in Price, NEW level, NEW c,
         LevelsBut(b, c, side, price, level), price \in DOMAIN b.levels[side],
         Uncrossed(b.levels)
  PROVE  Uncrossed(c.levels)
<1>1. CASE level.head = None
  <2>1. c.levels = [b.levels EXCEPT ![side] = Drop(@, price)]
    BY <1>1 DEF LevelsBut
  <2> QED BY <2>1, DropLevelLemma
<1>2. CASE level.head # None
  <2>1. c.levels = [b.levels EXCEPT ![side] = Put(@, price, level)]
    BY <1>2 DEF LevelsBut
  <2> QED BY <2>1, PutLevelLemma
<1> QED BY <1>1, <1>2

\* Cancelling, when no call is in progress, an order that is not a stop.
LEMMA WithoutWhole ==
  ASSUME Inv, Whole(book, stack), stack = <<>>,
         NEW id \in DOMAIN book.ids, id \notin StopIdentifiers
  PROVE  LET new == Without(id)
         IN  /\ OrdersSound(new, {}) /\ ListsSound(new, {}) /\ TreesSound(new, <<>>, {})
             /\ Uncrossed(new.levels)
             /\ book.arena[book.ids[id].slot].kind = "Limit"
             /\ FewerOrders(book, new) /\ new.stops = book.stops /\ new.last = book.last
<1> DEFINE loc  == book.ids[id]
           slot == loc.slot
           old  == book.arena[slot]
           qty  == old.remaining
           gone == IndexRemove(book, id)
           cut  == RemoveSlot(gone, slot, loc.side, loc.price, qty)
           new  == Without(id)
<1>1. Takers(stack) = {} /\ BookTypeOK(book) /\ SlotsSound(book)
  BY TakersAre DEF Inv, BookSound
<1>2. slot \in DOMAIN book.arena /\ old.id = id /\ id \in OrderId
  BY <1>1 DEF SlotsSound, IdsSound, BookTypeOK, IsMap
<1>3. OrdersSound(book, {}) /\ ListsSound(book, {}) /\ TreesSound(book, <<>>, {})
      /\ Uncrossed(book.levels)
  BY <1>1 DEF Whole
<1>4. /\ old.kind = "Limit" /\ loc = [slot |-> slot, side |-> old.side, price |-> old.price]
  <2>1. \A s \in DOMAIN book.arena :
          LET o == book.arena[s]
          IN  /\ o.kind \in {"Limit", "StopMarket"}
              /\ (o.kind = "StopMarket") => o.id \in StopIdentifiers
              /\ (o.kind = "Limit") =>
                   /\ o.id \in DOMAIN book.ids
                   /\ book.ids[o.id] = [slot |-> s, side |-> o.side, price |-> o.price]
    BY <1>3 DEF OrdersSound
  <2> HIDE DEF slot
  <2> QED BY Zenon, <1>2, <2>1
<1>5. /\ slot \in Slot /\ old.side \in Side /\ old.price \in Price /\ qty \in Qty
      /\ loc.side = old.side /\ loc.price = old.price
  BY <1>1, <1>2, <1>4 DEF BookTypeOK, IsMap, Order
<1>6. /\ BookTypeOK(gone) /\ gone.levels = book.levels /\ gone.arena = book.arena
      /\ gone.ids = Drop(book.ids, id) /\ gone.stops = book.stops /\ gone.last = book.last
  <2>1. gone.stops = book.stops /\ gone.last = book.last
    BY <1>1 DEF IndexRemove, BookTypeOK, IsBook
  <2> QED BY <1>1, <1>2, <2>1, IndexType
<1>7. new = ArenaRemove(cut, slot)
  BY DEF Without
<1> HIDE DEF gone, loc, qty
<1>8. Rests(gone.arena, {}, slot)
  BY <1>2, <1>4, <1>6 DEF Rests
<1>9. ListsSound(gone, {})
  BY <1>3, <1>6 DEF ListsSound
<1>10. ListsSound(new, {})
  BY <1>5, <1>6, <1>7, <1>8, <1>9, CancelLists
<1>11. old.price \in DOMAIN book.levels[old.side]
  <2>1. PICK age \in [Slot -> Nat] :
          ListAt(book.arena, book.levels, {}, age, old.side, old.price)
    BY <1>3, <1>5 DEF ListsSound
  <2>2. slot \in RestsAt(book.arena, {}, old.side, old.price)
    BY <1>2, <1>4 DEF RestsAt, Rests
  <2> QED BY <2>1, <2>2 DEF ListAt
<1>12. /\ BookTypeOK(cut) /\ SameOrders(gone, cut) /\ Bypassed(gone.arena, cut.arena, slot)
       /\ \E level : LevelsBut(gone, cut, old.side, old.price, level)
  BY <1>2, <1>5, <1>6, <1>11, RemoveSlotLinks
<1> HIDE DEF cut
<1>13. new.levels = cut.levels /\ new.arena = Drop(cut.arena, slot) /\ new.ids = cut.ids
       /\ new.stops = cut.stops /\ new.last = cut.last
  <2>1. new.stops = cut.stops /\ new.last = cut.last
    BY <1>7, <1>12 DEF ArenaRemove, BookTypeOK, IsBook
  <2> QED BY <1>5, <1>7, <1>12, <2>1, ArenaRemoveType
<1> HIDE DEF new
<1>14. Uncrossed(new.levels)
  <2>1. Uncrossed(gone.levels) /\ old.price \in DOMAIN gone.levels[old.side]
    BY <1>3, <1>6, <1>11
  <2> QED BY <1>5, <1>6, <1>12, <1>13, <2>1, UncrossedWithout
<1>15. /\ DOMAIN new.arena = DOMAIN book.arena \ {slot}
       /\ \A s \in DOMAIN book.arena \ {slot} : SameTerms(book.arena[s], new.arena[s])
  BY <1>6, <1>12, <1>13 DEF Drop, Bypassed
<1>16. new.ids = Drop(book.ids, id) /\ new.stops = book.stops /\ new.last = book.last
  BY <1>6, <1>12, <1>13 DEF SameOrders
<1>17. OrdersSound(new, {})
  <2>0. book.ids[id].slot = slot
    BY DEF loc
  <2>1. ASSUME NEW s \in DOMAIN new.arena
        PROVE  /\ s \in DOMAIN book.arena /\ s # slot
               /\ SameTerms(book.arena[s], new.arena[s])
               /\ book.arena[s].id \in DOMAIN new.ids
               /\ new.ids[book.arena[s].id] = book.ids[book.arena[s].id]
    <3>1. s \in DOMAIN book.arena /\ s # slot /\ SameTerms(book.arena[s], new.arena[s])
      BY <1>15
    <3>2. book.arena[s].id \in DOMAIN book.ids /\ book.ids[book.arena[s].id].slot = s
      BY <1>3, <3>1 DEF OrdersSound
    <3>3. book.arena[s].id # id
      BY <2>0, <3>1, <3>2
    <3> QED BY <1>16, <3>1, <3>2, <3>3 DEF Drop
  <2> HIDE DEF old, slot
  <2> QED BY <1>3, <2>1 DEF OrdersSound, SameTerms, IsStop
<1>18. NoneComes(book, {}, new, {}) /\ NoStopGoes(book, {}, new, {})
  BY <1>4, <1>15 DEF NoneComes, NoStopGoes, SameTerms
<1>19. StillFired(<<>>, <<>>)
  BY DEF StillFired
<1>20. TreesSound(new, <<>>, {})
  BY <1>1, <1>3, <1>16, <1>18, <1>19, TreesStay
<1>21. FewerOrders(book, new)
  BY <1>15 DEF FewerOrders
<1> QED BY <1>4, <1>10, <1>14, <1>16, <1>17, <1>20, <1>21 DEF new, old, slot, loc

LEMMA CancelWhole ==
  ASSUME Inv, Whole(book, stack), Tame, NEW c \in Commands, Cancel(c)
  PROVE  Whole(book', stack')
<1>1. stack = <<>> /\ stack' = stack
  BY DEF Cancel, Idle, Refuse
<1>2. CASE Refuse(c, "UnknownId")
  BY <1>1, <1>2 DEF Refuse
<1>3. CASE c.id \in DOMAIN book.ids /\ book' = Without(c.id)
  <2>1. c.id \notin StopIdentifiers
    BY DEF Tame, Cancel
  <2>2. /\ OrdersSound(book', {}) /\ ListsSound(book', {}) /\ TreesSound(book', <<>>, {})
        /\ Uncrossed(book'.levels)
    BY <1>1, <1>3, <2>1, WithoutWhole
  <2>3. Takers(stack) = {}
    BY <1>1, TakersAre DEF Inv
  <2>4. \A i \in 1 .. Len(stack) : FALSE
    BY <1>1
  <2>5. CollectedSound(book', stack, {}) /\ CallSound(book', stack)
    BY <2>4 DEF CollectedSound, CallSound
  <2> QED BY <1>1, <2>2, <2>3, <2>5 DEF Whole
<1> QED BY <1>2, <1>3 DEF Cancel

LEMMA ReplaceWhole ==
  ASSUME Inv, Whole(book, stack), Tame, NEW c \in Commands, Replace(c)
  PROVE  Whole(book', stack')
<1> DEFINE old == book.arena[book.ids[c.id].slot]
           no  == [id |-> c.id, side |-> old.side, kind |-> old.kind,
                   price |-> c.new_price, stop_price |-> 0, qty |-> c.new_qty]
<1>1. stack = <<>>
  BY DEF Replace, Idle
<1>2. ASSUME NEW reason, Refuse(c, reason)
      PROVE  Whole(book', stack')
  BY <1>2 DEF Refuse
<1>3. CASE c.id \in DOMAIN book.ids /\ book' = Without(c.id) /\ stack' = <<ApplyNew(no)>>
  <2>1. c.id \notin StopIdentifiers
    BY DEF Tame, Replace
  <2>2. /\ OrdersSound(book', {}) /\ ListsSound(book', {}) /\ TreesSound(book', <<>>, {})
        /\ Uncrossed(book'.levels) /\ old.kind = "Limit"
    BY <1>1, <1>3, <2>1, WithoutWhole
  <2>3. no.kind # "StopLimit" /\ ~IsStop(no)
    BY <2>2 DEF IsStop
  <2> HIDE DEF no, old
  <2>4. StopsSound(book', <<ApplyNew(no)>>) /\ Takers(<<ApplyNew(no)>>) = {}
    BY <2>2, <2>3, FirstCallSound
  <2> QED BY <1>3, <2>2, <2>4 DEF Whole, StopsSound
<1> QED BY <1>2, <1>3 DEF Replace

\* The stops are looked at, or there never was a trade.
LEMMA AfterMatch ==
  ASSUME Inv, Whole(book, stack), Matching, ThenStops,
         BookTypeOK(book'), book'.stops = book.stops,
         TreesSound(book', stack, {}), CollectedSound(book', stack, {}),
         OrdersSound(book', {}), ListsSound(book', {}), Uncrossed(book'.levels)
  PROVE  Whole(book', stack')
<1>1. /\ stack # <<>> /\ stack[Len(stack)] = Top /\ Top.call = "match_order"
      /\ StackSound(stack)
  BY InCall DEF Matching
<1>2. /\ StackSound(stack') /\ (stack' # <<>> => stack'[Len(stack')].call = "trigger_stops")
      /\ \E last : \/ stack' = SubSeq(stack, 1, Len(stack) - 1)
                   \/ stack' = [stack EXCEPT ![Len(stack)] = TriggerStops(book', "Buy", last)]
  <2>1. CASE book.last # None
    <3> DEFINE frame == TriggerStops(book, "Buy", book.last)
    <3>1. FrameOK(frame) /\ frame.call = "trigger_stops"
      BY <2>1, TriggerFrame DEF Inv, BookSound, BookTypeOK, Optional, Side, TriggerStops
    <3>2. frame = TriggerStops(book', "Buy", book.last)
      BY DEF TriggerStops
    <3>3. stack' = [stack EXCEPT ![Len(stack)] = frame]
      BY <2>1 DEF ThenStops, Become
    <3> HIDE DEF frame
    <3>4. /\ StackSound([stack EXCEPT ![Len(stack)] = frame])
          /\ [stack EXCEPT ![Len(stack)] = frame][Len([stack EXCEPT ![Len(stack)] = frame])] = frame
      BY <1>1, <3>1, BecomeSound
    <3> QED BY <3>1, <3>2, <3>3, <3>4
  <2>2. CASE book.last = None
    <3>1. stack' = SubSeq(stack, 1, Len(stack) - 1)
      BY <2>2 DEF ThenStops, Return
    <3> QED BY <1>1, <3>1, ReturnSound
  <2> QED BY <2>1, <2>2
<1>3. StopsSound(book', stack') /\ Takers(stack') = {}
  BY <1>1, <1>2, EndOfCall
<1> QED BY <1>3 DEF Whole, StopsSound

\* The order that was being matched leaves the arena.
LEMMA TakerLeaves ==
  ASSUME Inv, Whole(book, stack), Matching, ThenStops,
         BookTypeOK(book'), book'.stops = book.stops, book'.levels = book.levels,
         book'.arena = Drop(book.arena, Top.slot),
         \A id \in DOMAIN book.ids : id \in DOMAIN book'.ids /\ book'.ids[id] = book.ids[id]
  PROVE  Whole(book', stack')
<1> DEFINE slot == Top.slot
<1>1. /\ stack # <<>> /\ stack[Len(stack)] = Top /\ Top.call = "match_order"
      /\ StackSound(stack) /\ Takers(stack) = {slot}
  BY InCall DEF Matching
<1>2. BookTypeOK(book)
  BY DEF Inv, BookSound
<1> HIDE DEF slot
<1>3. /\ DOMAIN book'.arena = DOMAIN book.arena \ {slot}
      /\ \A s \in DOMAIN book.arena \ {slot} : book'.arena[s] = book.arena[s]
  BY DEF Drop, slot
<1>4. OrdersSound(book', {})
  <2>1. OrdersSound(book, {slot})
    BY <1>1 DEF Whole
  <2>2. ASSUME NEW s \in DOMAIN book'.arena
        PROVE  /\ s \in DOMAIN book.arena /\ s \notin {slot} /\ book'.arena[s] = book.arena[s]
               /\ book.arena[s].id \in DOMAIN book.ids
    BY <1>3, <2>1 DEF OrdersSound
  <2> QED BY <2>1, <2>2 DEF OrdersSound
<1>5. ListsSound(book', {})
  <2>1. ListsSound(book, {slot}) /\ DOMAIN book.levels = Side
    BY <1>1, <1>2 DEF Whole, BookTypeOK
  <2>2. SameResting(book, {slot}, book', {})
    BY <1>3 DEF SameResting, Rests
  <2>3. SameEnds(book, book')
    BY <1>3, <2>1 DEF SameEnds
  <2> QED BY <2>1, <2>2, <2>3, ListsUntouched
<1>6. NoneComes(book, {slot}, book', {}) /\ NoStopGoes(book, {slot}, book', {})
  BY <1>3 DEF NoneComes, NoStopGoes
<1>7. StillFired(stack, stack) /\ FramesKept(stack, stack, book', {})
  BY DEF StillFired, FramesKept
<1>8. TreesSound(book', stack, {}) /\ CollectedSound(book', stack, {})
  <2>1. TreesSound(book, stack, {slot}) /\ CollectedSound(book, stack, {slot})
    BY <1>1 DEF Whole
  <2>2. TreesSound(book', stack, {})
    BY <1>2, <1>6, <1>7, <2>1, TreesStay
  <2>3. CollectedSound(book', stack, {})
    BY <1>6, <1>7, <2>1, CollectedAll
  <2> QED BY <2>2, <2>3
<1>9. Uncrossed(book'.levels)
  BY DEF Whole
<1> QED BY <1>4, <1>5, <1>8, <1>9, AfterMatch

LEMMA FinishFilledWhole ==
  ASSUME Inv, Whole(book, stack), FinishFilled
  PROVE  Whole(book', stack')
<1> DEFINE mid == ArenaRemove(book, Top.slot)
<1>1. Matching /\ ThenStops /\ book' = IndexRemove(mid, Taker.id)
  BY DEF FinishFilled
<1>2. /\ Taker.id \in OrderId /\ Top.slot \in Slot /\ BookTypeOK(book)
      /\ Taker.id \notin DOMAIN book.ids
  BY <1>1, InvType, TakerType DEF Order, Inv, BookSound, TakerApart
<1>3. /\ BookTypeOK(mid) /\ mid.levels = book.levels /\ mid.ids = book.ids
      /\ mid.arena = Drop(book.arena, Top.slot) /\ mid.stops = book.stops
  <2>1. mid.stops = book.stops
    BY <1>2 DEF ArenaRemove, BookTypeOK, IsBook
  <2> QED BY <1>2, <2>1, ArenaRemoveType
<1> HIDE DEF mid
<1>4. /\ BookTypeOK(book') /\ book'.levels = mid.levels /\ book'.ids = Drop(mid.ids, Taker.id)
      /\ book'.arena = mid.arena /\ book'.stops = mid.stops
  <2>1. book'.stops = mid.stops
    BY <1>1, <1>3 DEF IndexRemove, BookTypeOK, IsBook
  <2> QED BY <1>1, <1>2, <1>3, <2>1, IndexType
<1>5. \A id \in DOMAIN book.ids : id \in DOMAIN book'.ids /\ book'.ids[id] = book.ids[id]
  BY <1>2, <1>3, <1>4 DEF Drop
<1> QED BY <1>1, <1>3, <1>4, <1>5, TakerLeaves

LEMMA CancelRestWhole ==
  ASSUME Inv, Whole(book, stack), CancelRest
  PROVE  Whole(book', stack')
<1>1. Matching /\ ThenStops /\ book' = ArenaRemove(book, Top.slot)
  BY DEF CancelRest
<1>2. Top.slot \in Slot /\ BookTypeOK(book)
  BY <1>1, InvType, TakerType DEF Inv, BookSound
<1>3. /\ BookTypeOK(book') /\ book'.levels = book.levels /\ book'.ids = book.ids
      /\ book'.arena = Drop(book.arena, Top.slot) /\ book'.stops = book.stops
  <2>1. book'.stops = book.stops
    BY <1>1, <1>2 DEF ArenaRemove, BookTypeOK, IsBook
  <2> QED BY <1>1, <1>2, <2>1, ArenaRemoveType
<1> QED BY <1>1, <1>3, TakerLeaves

(***************************************************************************)
(* A trade.                                                                *)
(***************************************************************************)

\* Two orders alike but for their links and what remains of them.
SameButSize(o, n) ==
  /\ n.id = o.id /\ n.side = o.side /\ n.kind = o.kind /\ n.price = o.price
  /\ n.stop_price = o.stop_price

LEMMA ShrinkLinks ==
  ASSUME NEW a, IsMap(a, Slot, Order), NEW ref \in DOMAIN a, NEW qty \in Qty
  PROVE  LET new == Shrink(a, ref, qty)
         IN  /\ IsMap(new, Slot, Order) /\ DOMAIN new = DOMAIN a
             /\ \A s \in DOMAIN a :
                  /\ SameButSize(a[s], new[s])
                  /\ new[s].next = a[s].next /\ new[s].prev = a[s].prev
                  /\ new[s].remaining = IF s = ref THEN Minus(a[s].remaining, qty)
                                                   ELSE a[s].remaining
<1> DEFINE less == [a[ref] EXCEPT !.remaining = Minus(@, qty)]
<1>1. a[ref] \in Order
  BY DEF IsMap
<1>2. Minus(a[ref].remaining, qty) \in Qty
  BY <1>1, WordLemma DEF Order
<1>3. /\ SameButSize(a[ref], less) /\ less.next = a[ref].next /\ less.prev = a[ref].prev
      /\ less.remaining = Minus(a[ref].remaining, qty)
  BY <1>1 DEF Order, SameButSize
<1>4. Shrink(a, ref, qty) = [a EXCEPT ![ref] = less]
  BY DEF Shrink
<1>5. IsMap(Shrink(a, ref, qty), Slot, Order)
  BY ShrinkType
<1> HIDE DEF less
<1> QED BY <1>3, <1>4, <1>5 DEF SameButSize

\* The level and the links after its head has been popped.
HeadGone(level, order, left) ==
  /\ left.head = order.next
  /\ left.tail = IF order.next = None THEN None ELSE level.tail

LEMMA PopHeadLinks ==
  ASSUME NEW b, BookTypeOK(b), NEW side \in Side, NEW price \in DOMAIN b.levels[side],
         NEW head, head = b.levels[side][price].head, head \in DOMAIN b.arena
  PROVE  LET new == PopHead(b, side, price)
         IN  /\ new.arena = SetPrev(b.arena, b.arena[head].next, None)
             /\ new.stops = b.stops
             /\ \E left : /\ HeadGone(b.levels[side][price], b.arena[head], left)
                          /\ new.levels = [b.levels EXCEPT ![side] = Put(@, price, left)]
<1> DEFINE new   == PopHead(b, side, price)
           level == b.levels[side][price]
           order == b.arena[head]
           left  == [head  |-> order.next,
                     tail  |-> IF order.next = None THEN None ELSE level.tail,
                     total |-> SaturatingSub(level.total, order.remaining)]
           set   == SetLevel(b, side, price, left)
           arena == SetPrev(b.arena, order.next, None)
<1>1. order \in Order /\ level \in Level /\ price \in Price
  BY DEF BookTypeOK, IsMap
<1>2. left \in Level
  BY <1>1, WordLemma DEF Level, Order, Optional
<1>3. HeadGone(level, order, left)
  BY DEF HeadGone
<1>4. new = [set EXCEPT !.arena = SetPrev(@, order.next, None)]
  BY DEF PopHead
<1> HIDE DEF left
<1>5. /\ BookTypeOK(set) /\ set.arena = b.arena /\ SameOrders(b, set)
      /\ set.levels = [b.levels EXCEPT ![side] = Put(@, price, left)]
  BY <1>1, <1>2, SetLevelType
<1> HIDE DEF set
<1>6. new = [set EXCEPT !.arena = arena]
  BY <1>4, <1>5
<1> HIDE DEF arena, new
<1>7. new.arena = arena /\ new.stops = set.stops /\ new.levels = set.levels
  BY <1>5, <1>6 DEF BookTypeOK, IsBook
<1> QED BY <1>3, <1>5, <1>7 DEF SameOrders, arena, new

\* The maker is the head of the level: it rests there and is not the taker.
RestingMaker(maker, side, price) ==
  /\ price \in Price /\ side \in Side /\ price \in DOMAIN book.levels[side]
  /\ maker \in DOMAIN book.arena /\ maker \in Slot /\ maker # Top.slot
  /\ maker = book.levels[side][price].head
  /\ Rests(book.arena, {Top.slot}, maker)
  /\ book.arena[maker].side = side /\ book.arena[maker].price = price
  /\ book.arena[maker].prev = None
  /\ book.arena[maker].next = None <=> maker = book.levels[side][price].tail
  /\ book.levels[side][price].tail # None
  /\ book.arena[maker].next # None =>
       /\ book.arena[maker].next \in DOMAIN book.arena
       /\ book.arena[book.arena[maker].next].prev = maker
  /\ ListsSound(book, {Top.slot}) /\ Takers(stack) = {Top.slot}

LEMMA MakerRests ==
  ASSUME Inv, Whole(book, stack), Matching, NEW price, TradesAt(price)
  PROVE  RestingMaker(MakerAt(price), Other, price)
<1> DEFINE maker == MakerAt(price)
           side  == Other
           slot  == Top.slot
           level == book.levels[side][price]
           slots == RestsAt(book.arena, {slot}, side, price)
<1>1. Takers(stack) = {slot}
  BY InCall DEF Matching
<1>2. /\ maker \in DOMAIN book.arena /\ maker \in Slot /\ price \in Price
      /\ price \in DOMAIN book.levels[side] /\ side \in Side /\ maker = level.head
  BY InvType, TakerType, TradedType DEF MakerAt
<1> HIDE DEF maker, side
<1>3. ListsSound(book, {slot})
  BY <1>1 DEF Whole
<1>4. PICK age \in [Slot -> Nat] :
        ListAt(book.arena, book.levels, {slot}, age, side, price)
  BY <1>2, <1>3 DEF ListsSound
<1>5. Linked(book.arena, level, slots, age)
  BY <1>2, <1>4 DEF ListAt
<1>6. maker \in slots
  BY <1>2, <1>5 DEF Linked
<1>7. slots \subseteq DOMAIN book.arena
  BY DEF RestsAt, Rests
<1> HIDE DEF level
<1>8. level.tail # None
  <2>1. level.tail \in slots
    BY <1>5 DEF Linked
  <2>2. None \notin DOMAIN book.arena
    BY NoneIsNoSlot DEF Inv, BookSound, BookTypeOK, IsMap
  <2> QED BY <1>7, <2>1, <2>2
<1>9. /\ book.arena[maker].prev = None
      /\ book.arena[maker].next = None <=> maker = level.tail
      /\ book.arena[maker].next # None =>
            /\ book.arena[maker].next \in slots
            /\ book.arena[book.arena[maker].next].prev = maker
  <2> HIDE DEF slots
  <2> QED BY <1>2, <1>5, <1>6 DEF Linked
<1> QED BY Zenon, <1>1, <1>2, <1>3, <1>6, <1>7, <1>8, <1>9 DEF RestsAt, Rests, RestingMaker, level, maker, side

\* The arena once the maker has been popped and both orders have shrunk.
TradeDone(a, a2, taker, maker, qty) ==
  /\ DOMAIN a2 = DOMAIN a
  /\ \A s \in DOMAIN a :
       /\ SameButSize(a[s], a2[s])
       /\ a2[s].next = a[s].next
       /\ a2[s].prev = IF s = a[maker].next THEN None ELSE a[s].prev
       /\ a2[s].remaining = IF s = taker \/ s = maker THEN Minus(a[s].remaining, qty)
                                                      ELSE a[s].remaining

LEMMA TradedLinks ==
  ASSUME Inv, Whole(book, stack), Matching, NEW price, TradesAt(price),
         NEW maker, maker = MakerAt(price), NEW side, side = Other,
         NEW new, new = Traded(price)
  PROVE  /\ TradeDone(book.arena, new.arena, Top.slot, maker, TradeQty(price))
         /\ new.stops = book.stops /\ new.last = price
         /\ \E left : /\ HeadGone(book.levels[side][price], book.arena[maker], left)
                      /\ new.levels = [book.levels EXCEPT ![side] = Put(@, price, left)]
<1> DEFINE slot   == Top.slot
           qty    == TradeQty(price)
           popped == PopHead(book, side, price)
           once   == Shrink(popped.arena, slot, qty)
           twice  == Shrink(once, maker, qty)
<1>1. /\ maker \in DOMAIN book.arena /\ maker # slot
      /\ maker = book.levels[side][price].head /\ side \in Side
      /\ price \in DOMAIN book.levels[side] /\ price \in Price
  BY MakerRests DEF RestingMaker
<1>2. qty \in Qty /\ BookTypeOK(book) /\ slot \in DOMAIN book.arena
      /\ IsMap(book.arena, Slot, Order)
  BY InvType, TradedType DEF Inv, BookSound, Matching, BookTypeOK
<1>3. new = [popped EXCEPT !.arena = twice, !.last = price]
  BY DEF Traded
<1> HIDE DEF slot, qty
<1>4. /\ popped.arena = SetPrev(book.arena, book.arena[maker].next, None)
      /\ popped.stops = book.stops /\ BookTypeOK(popped)
      /\ \E left : /\ HeadGone(book.levels[side][price], book.arena[maker], left)
                   /\ popped.levels = [book.levels EXCEPT ![side] = Put(@, price, left)]
  BY <1>1, <1>2, PopHeadLinks, PopHeadType
<1> HIDE DEF popped
<1>5. /\ DOMAIN popped.arena = DOMAIN book.arena /\ IsMap(popped.arena, Slot, Order)
      /\ \A s \in DOMAIN book.arena :
           /\ SameTerms(book.arena[s], popped.arena[s])
           /\ popped.arena[s].prev = IF s = book.arena[maker].next THEN None
                                                                    ELSE book.arena[s].prev
           /\ popped.arena[s].next = book.arena[s].next
  BY <1>2, <1>4, SetLinks DEF BookTypeOK
<1>6. /\ IsMap(once, Slot, Order) /\ DOMAIN once = DOMAIN popped.arena
      /\ \A s \in DOMAIN popped.arena :
           /\ SameButSize(popped.arena[s], once[s])
           /\ once[s].next = popped.arena[s].next /\ once[s].prev = popped.arena[s].prev
           /\ once[s].remaining = IF s = slot THEN Minus(popped.arena[s].remaining, qty)
                                              ELSE popped.arena[s].remaining
  <2>1. slot \in DOMAIN popped.arena
    BY <1>2, <1>5
  <2> QED BY <1>2, <1>5, <2>1, ShrinkLinks
<1> HIDE DEF once
<1>7. /\ DOMAIN twice = DOMAIN once
      /\ \A s \in DOMAIN once :
           /\ SameButSize(once[s], twice[s])
           /\ twice[s].next = once[s].next /\ twice[s].prev = once[s].prev
           /\ twice[s].remaining = IF s = maker THEN Minus(once[s].remaining, qty)
                                                ELSE once[s].remaining
  <2>1. maker \in DOMAIN once
    BY <1>1, <1>5, <1>6
  <2> QED BY <1>2, <1>6, <2>1, ShrinkLinks
<1> HIDE DEF twice
<1>8. /\ new.arena = twice /\ new.stops = popped.stops /\ new.levels = popped.levels
      /\ new.last = price
  BY <1>3, <1>4 DEF BookTypeOK, IsBook
<1>9. TradeDone(book.arena, twice, slot, maker, qty)
  <2>1. DOMAIN twice = DOMAIN book.arena
    BY <1>5, <1>6, <1>7
  <2>2. ASSUME NEW s \in DOMAIN book.arena
        PROVE  /\ SameButSize(book.arena[s], twice[s])
               /\ twice[s].next = book.arena[s].next
               /\ twice[s].prev = IF s = book.arena[maker].next THEN None
                                                                ELSE book.arena[s].prev
               /\ twice[s].remaining = IF s = slot \/ s = maker
                                         THEN Minus(book.arena[s].remaining, qty)
                                         ELSE book.arena[s].remaining
    <3>1. s \in DOMAIN popped.arena /\ s \in DOMAIN once
      BY <1>5, <1>6
    <3>2. SameButSize(book.arena[s], twice[s])
      BY <1>5, <1>6, <1>7, <3>1 DEF SameTerms, SameButSize
    <3>3. /\ twice[s].next = book.arena[s].next
          /\ twice[s].prev = IF s = book.arena[maker].next THEN None
                                                           ELSE book.arena[s].prev
      BY <1>5, <1>6, <1>7, <3>1
    <3>4. twice[s].remaining = IF s = slot \/ s = maker THEN Minus(book.arena[s].remaining, qty)
                                                        ELSE book.arena[s].remaining
      BY <1>1, <1>5, <1>6, <1>7, <3>1 DEF SameTerms
    <3> QED BY Zenon, <3>2, <3>3, <3>4
  <2> QED BY <2>1, <2>2 DEF TradeDone
<1> QED BY <1>4, <1>8, <1>9 DEF slot, qty

\* What an order has filled and what it has left never wrap.
LEMMA FillArithmetic ==
  ASSUME NEW f \in Qty, NEW r \in Qty, NEW q \in Qty, q <= r, f + r \in 1 .. QtyMod - 1
  PROVE  Plus(f, q) = f + q /\ Minus(r, q) = r - q
         /\ Plus(f, q) + Minus(r, q) \in 1 .. QtyMod - 1
<1>1. f + q \in 0 .. QtyMod - 1 /\ r - q \in 0 .. QtyMod - 1
  BY DEF Qty
<1>2. (f + q) % QtyMod = f + q /\ (r - q) % QtyMod = r - q
  BY <1>1
<1>3. f + q + (r - q) = f + r
  BY DEF Qty
<1> QED BY <1>2, <1>3 DEF Plus, Minus

\* The calls after a trade.
LEMMA TradeCalls ==
  ASSUME Inv, Whole(book, stack), Matching, NEW price, TradesAt(price), CountFill(price),
         Top.slot \in DOMAIN book'.arena,
         book'.arena[Top.slot].kind = Taker.kind,
         book'.arena[Top.slot].remaining = Minus(Taker.remaining, TradeQty(price))
  PROVE  /\ Takers(stack') = {Top.slot} /\ CallSound(book', stack')
         /\ StillFired(stack, stack') /\ FramesKept(stack, stack', book', {Top.slot})
<1> DEFINE slot  == Top.slot
           f     == Top.filled
           r     == Taker.remaining
           qty   == TradeQty(price)
           frame == MatchOrder(slot, Plus(f, qty))
<1>1. /\ stack # <<>> /\ stack[Len(stack)] = Top /\ Top.call = "match_order"
      /\ StackSound(stack) /\ Len(stack) \in Nat \ {0}
      /\ FrameSound(book, Top, Len(stack))
  BY InCall DEF Matching
<1>2. Top = MatchOrder(slot, f) /\ slot \in Slot /\ f \in Qty /\ r \in Qty
  BY InvType, TakerType DEF Order
<1>3. qty \in Qty /\ qty <= r
  <2>1. qty \in Qty /\ MakerAt(price) \in DOMAIN book.arena
    BY InvType, TradedType
  <2>2. book.arena[MakerAt(price)].remaining \in Qty
    BY <2>1 DEF Inv, BookSound, BookTypeOK, IsMap, Order
  <2>3. qty = Least(r, book.arena[MakerAt(price)].remaining)
    BY DEF TradeQty
  <2> HIDE DEF qty, r
  <2>4. qty <= r
    BY <1>2, <2>2, <2>3 DEF Least, Qty
  <2> QED BY <2>1, <2>4 DEF qty
<1>4. stack' = [stack EXCEPT ![Len(stack)] = frame]
  <2>1. [Top EXCEPT !.filled = Plus(@, qty)] = frame
    BY <1>2 DEF MatchOrder
  <2> QED BY <2>1 DEF CountFill, Become
<1>5. FrameOK(frame) /\ frame.call = "match_order" /\ frame.slot = slot
      /\ frame.filled = Plus(f, qty)
  BY <1>2, <1>3, WordLemma DEF FrameOK, MatchOrder
<1>6. f + r \in 1 .. QtyMod - 1 /\ (Len(stack) > 1 => Taker.kind = "Market")
  BY <1>1, <1>2 DEF FrameSound, MatchOrder, Taker
<1>7. Plus(f, qty) + Minus(r, qty) \in 1 .. QtyMod - 1
  <2> HIDE DEF f, r, qty
  <2> QED BY <1>2, <1>3, <1>6, FillArithmetic
<1>8. FrameSound(book', frame, Len(stack))
  <2>1. frame.filled + book'.arena[frame.slot].remaining \in 1 .. QtyMod - 1
    BY <1>5, <1>7
  <2> HIDE DEF frame
  <2> QED BY <1>5, <1>6, <2>1 DEF FrameSound
<1> HIDE DEF frame
<1>9. /\ StackSound([stack EXCEPT ![Len(stack)] = frame])
      /\ [stack EXCEPT ![Len(stack)] = frame][Len([stack EXCEPT ![Len(stack)] = frame])] = frame
  BY <1>1, <1>5, BecomeSound
<1>10. stack' # <<>> /\ Len(stack') = Len(stack)
  BY <1>1, <1>4, BecomeShape
<1>11. Takers(stack') = {slot} /\ CallSound(book', stack')
  BY <1>4, <1>5, <1>8, <1>9, <1>10, TakersAre, TopCallSound
<1>12. StillFired(stack, stack') /\ FramesKept(stack, stack', book', {slot})
  BY <1>1, <1>4, <1>5, SwapCall
<1> QED BY <1>11, <1>12

LEMMA FillMakerWhole ==
  ASSUME Inv, Whole(book, stack), Matching, NEW price, FillMaker(price)
  PROVE  Whole(book', stack')
<1> DEFINE slot  == Top.slot
           maker == MakerAt(price)
           side  == Other
           qty   == TradeQty(price)
           new   == Traded(price)
           id    == book.arena[maker].id
           known == IndexRemove(new, id)
           gone  == ArenaRemove(known, maker)
           old   == book.levels[side][price]
<1>1. TradesAt(price) /\ CountFill(price) /\ book' = RemoveEmpty(gone, side, price)
  BY DEF FillMaker
<1>2. /\ price \in Price /\ side \in Side /\ price \in DOMAIN book.levels[side]
      /\ maker \in DOMAIN book.arena /\ maker \in Slot /\ maker # slot
      /\ maker = old.head /\ Rests(book.arena, {slot}, maker)
      /\ book.arena[maker].side = side /\ book.arena[maker].price = price
      /\ book.arena[maker].prev = None
      /\ book.arena[maker].next = None <=> maker = old.tail
      /\ ListsSound(book, {slot}) /\ Takers(stack) = {slot}
  BY <1>1, MakerRests DEF RestingMaker
<1>3. /\ TradeDone(book.arena, new.arena, slot, maker, qty) /\ new.stops = book.stops
      /\ \E left : /\ HeadGone(old, book.arena[maker], left)
                   /\ new.levels = [book.levels EXCEPT ![side] = Put(@, price, left)]
  BY <1>1, TradedLinks
<1>4. BookTypeOK(new) /\ new.ids = book.ids /\ BookTypeOK(book) /\ slot \in DOMAIN book.arena
  BY <1>1, InvType, TradedType DEF Inv, BookSound, Matching
<1>5. PICK left : /\ HeadGone(old, book.arena[maker], left)
                  /\ new.levels = [book.levels EXCEPT ![side] = Put(@, price, left)]
  BY <1>3
<1>6. id \in OrderId
  BY <1>2, <1>4 DEF BookTypeOK, IsMap, Order
<1>0. Taker = book.arena[slot]
  BY DEF Taker
<1> HIDE DEF new, slot, maker, side, qty, id
<1>7. /\ BookTypeOK(known) /\ known.levels = new.levels /\ known.arena = new.arena
      /\ known.ids = Drop(new.ids, id) /\ known.stops = new.stops
  <2>1. known.stops = new.stops
    BY <1>4 DEF IndexRemove, BookTypeOK, IsBook
  <2> QED BY <1>4, <1>6, <2>1, IndexType
<1> HIDE DEF known
<1>8. /\ BookTypeOK(gone) /\ gone.levels = new.levels /\ gone.ids = Drop(book.ids, id)
      /\ gone.arena = Drop(new.arena, maker) /\ gone.stops = book.stops
  <2>1. gone.stops = known.stops
    BY <1>7 DEF ArenaRemove, BookTypeOK, IsBook
  <2>2. /\ BookTypeOK(gone) /\ gone.levels = known.levels /\ gone.ids = known.ids
        /\ gone.arena = Drop(known.arena, maker)
    BY Zenon, <1>2, <1>7, ArenaRemoveType
  <2> HIDE DEF gone
  <2> QED BY Zenon, <1>3, <1>4, <1>7, <2>1, <2>2
<1> HIDE DEF gone
<1>9. gone.levels = [book.levels EXCEPT ![side] = Put(@, price, left)]
  BY <1>5, <1>8
<1>10. /\ LevelsBut(book, book', side, price, left)
       /\ book'.arena = gone.arena /\ SameOrders(gone, book')
  <2>1. BookTypeOK(book) /\ BookTypeOK(gone) /\ side \in Side /\ price \in Price
    BY Zenon, <1>2, <1>4, <1>8
  <2>2. book' = RemoveEmpty(gone, side, price)
    BY <1>1
  <2> HIDE DEF old
  <2> QED BY <1>9, <2>1, <2>2, PutOrGone
<1>11. /\ DOMAIN book'.arena = DOMAIN book.arena \ {maker}
       /\ \A s \in DOMAIN book'.arena : s # maker /\ s \in DOMAIN book.arena
                                        /\ book'.arena[s] = new.arena[s]
       /\ book'.ids = Drop(book.ids, id) /\ book'.stops = book.stops
  BY <1>3, <1>8, <1>10 DEF Drop, TradeDone, SameOrders
<1>12. ListsSound(book', {slot})
  <2>1. Stitched(book.arena, book', maker)
    <3>1. None \notin DOMAIN book.arena
      BY <1>4, NoneIsNoSlot DEF BookTypeOK, IsMap
    <3>2. ASSUME NEW s \in DOMAIN book'.arena
          PROVE  /\ s # maker /\ s \in DOMAIN book.arena /\ s # None
                 /\ SameButSize(book.arena[s], book'.arena[s])
                 /\ book'.arena[s].next = book.arena[s].next
                 /\ book'.arena[s].prev = IF s = book.arena[maker].next THEN None
                                                                       ELSE book.arena[s].prev
      <4>1. s # maker /\ s \in DOMAIN book.arena /\ book'.arena[s] = new.arena[s]
        BY <1>11
      <4> QED BY <1>3, <3>1, <4>1 DEF TradeDone
    <3> QED BY <1>2, <1>11, <3>2 DEF Stitched, SameButSize
  <2>2. CutLevel(old, left, maker, book.arena[maker])
    <3> HIDE DEF old
    <3> QED BY <1>2, <1>5 DEF HeadGone, CutLevel
  <2>3. /\ ListsSound(book, {slot}) /\ BookTypeOK(book) /\ Rests(book.arena, {slot}, maker)
        /\ PlacedAt(book.arena[maker], side, price)
        /\ old = book.levels[side][price] /\ LevelsBut(book, book', side, price, left)
    BY Zenon, <1>2, <1>4, <1>10 DEF PlacedAt
  <2> HIDE DEF old
  <2> QED BY Zenon, <2>1, <2>2, <2>3, ListLosesOne
<1>13. Uncrossed(book'.levels)
  BY <1>2, <1>4, <1>10, UncrossedWithout DEF Whole
<1>14. book.ids[id].slot = maker
  BY Zenon, <1>2 DEF Whole, OrdersSound, Rests, id
<1>15. OrdersSound(book', {slot})
  <2>1. OrdersSound(book, {slot})
    BY <1>2 DEF Whole
  <2>2. ASSUME NEW s \in DOMAIN book'.arena
        PROVE  /\ s \in DOMAIN book.arena /\ SameButSize(book.arena[s], book'.arena[s])
               /\ s \notin {slot} =>
                    /\ book.arena[s].id \in DOMAIN book'.ids
                    /\ book'.ids[book.arena[s].id] = book.ids[book.arena[s].id]
    <3>1. s \in DOMAIN book.arena /\ s # maker /\ SameButSize(book.arena[s], book'.arena[s])
      BY <1>3, <1>11 DEF TradeDone
    <3>2. ASSUME s \notin {slot}
          PROVE  /\ book.arena[s].id \in DOMAIN book'.ids
                 /\ book'.ids[book.arena[s].id] = book.ids[book.arena[s].id]
      <4>1. book.arena[s].id \in DOMAIN book.ids /\ book.ids[book.arena[s].id].slot = s
        BY <2>1, <3>1, <3>2 DEF OrdersSound
      <4>2. book.arena[s].id # id
        BY <1>14, <3>1, <4>1
      <4> QED BY <1>11, <4>1, <4>2 DEF Drop
    <3> QED BY <3>1, <3>2
  <2> QED BY <2>1, <2>2 DEF OrdersSound, SameButSize, IsStop
<1>16. NoneComes(book, {slot}, book', {slot}) /\ NoStopGoes(book, {slot}, book', {slot})
  <2>1. ASSUME NEW s \in DOMAIN book'.arena
        PROVE  s \in DOMAIN book.arena /\ SameButSize(book.arena[s], book'.arena[s])
    BY <1>3, <1>11 DEF TradeDone
  <2>2. \A s \in DOMAIN book.arena : book.arena[s].kind = "StopMarket" => s \in DOMAIN book'.arena
    BY <1>2, <1>11 DEF Rests
  <2> QED BY <2>1, <2>2 DEF NoneComes, NoStopGoes, SameButSize
<1>17. /\ slot \in DOMAIN book'.arena /\ book'.arena[slot].kind = Taker.kind
       /\ book'.arena[slot].remaining = Minus(Taker.remaining, qty)
  <2>1. slot \in DOMAIN book'.arena /\ book'.arena[slot] = new.arena[slot]
    BY <1>2, <1>4, <1>11
  <2>2. /\ SameButSize(book.arena[slot], new.arena[slot])
        /\ new.arena[slot].remaining = Minus(book.arena[slot].remaining, qty)
    BY <1>3, <1>4 DEF TradeDone
  <2> QED BY <1>0, <2>1, <2>2 DEF SameButSize
<1>18. /\ Takers(stack') = {slot} /\ CallSound(book', stack')
       /\ StillFired(stack, stack') /\ FramesKept(stack, stack', book', {slot})
  BY <1>1, <1>17, TradeCalls DEF slot, qty
<1>19. TreesSound(book', stack', {slot})
  BY <1>2, <1>4, <1>11, <1>16, <1>18, TreesStay DEF Whole
<1>20. CollectedSound(book', stack', {slot})
  BY <1>2, <1>16, <1>18, CollectedAll DEF Whole
<1> QED BY <1>12, <1>13, <1>15, <1>18, <1>19, <1>20 DEF Whole

\* The links after an order has been put before the head of its level.
Headed(a, a2, slot, head) ==
  /\ DOMAIN a2 = DOMAIN a
  /\ \A s \in DOMAIN a :
       /\ SameTerms(a[s], a2[s])
       /\ a2[s].next = IF s = slot THEN head ELSE a[s].next
       /\ a2[s].prev = IF s = head THEN slot ELSE IF s = slot THEN None ELSE a[s].prev

InFront(b, c, slot, side, price, level) ==
  /\ Headed(b.arena, c.arena, slot, level.head)
  /\ \E full : /\ full.head = slot
               /\ full.tail = IF level.tail = None THEN slot ELSE level.tail
               /\ c.levels = [b.levels EXCEPT ![side] = Put(@, price, full)]

LEMMA ReinsertLinks ==
  ASSUME NEW b, BookTypeOK(b), NEW side \in Side, NEW price \in Price,
         NEW slot \in DOMAIN b.arena, NEW level, level = LevelAt(b, side, price)
  PROVE  InFront(b, ReinsertAtHead(b, slot, side, price), slot, side, price, level)
<1> DEFINE half  == SetPrev(b.arena, slot, None)
           wired == [b.arena EXCEPT ![slot].prev = None, ![slot].next = level.head]
           arena == SetPrev(wired, level.head, slot)
           full  == [head  |-> slot,
                     tail  |-> IF level.tail = None THEN slot ELSE level.tail,
                     total |-> Plus(level.total, b.arena[slot].remaining)]
           set   == SetLevel(b, side, price, full)
           new   == ReinsertAtHead(b, slot, side, price)
<1>1. b.arena[slot] \in Order /\ IsMap(b.arena, Slot, Order) /\ slot \in Slot
  BY DEF BookTypeOK, IsMap
<1>2. level \in Level
  BY LevelAtType
<1>3. full \in Level
  BY <1>1, <1>2, WordLemma DEF Level, Order, Optional
<1>4. /\ IsMap(half, Slot, Order) /\ DOMAIN half = DOMAIN b.arena
      /\ \A s \in DOMAIN b.arena :
           /\ SameTerms(b.arena[s], half[s])
           /\ half[s].prev = IF s = slot THEN None ELSE b.arena[s].prev
           /\ half[s].next = b.arena[s].next
  BY <1>1, SetLinks, LinkType DEF Optional
<1>5. new = [set EXCEPT !.arena = arena]
  BY DEF ReinsertAtHead
<1>6. /\ IsMap(wired, Slot, Order) /\ DOMAIN wired = DOMAIN half
      /\ \A s \in DOMAIN half :
           /\ SameTerms(half[s], wired[s])
           /\ wired[s].next = IF s = slot THEN level.head ELSE half[s].next
           /\ wired[s].prev = half[s].prev
  <2>1. wired = SetNext(half, slot, level.head)
    BY <1>1 DEF SetNext, SetPrev, Slot
  <2>2. level.head \in Optional(Slot)
    BY <1>2 DEF Level
  <2> HIDE DEF half, wired
  <2> QED BY <1>4, <2>1, <2>2, SetLinks, LinkType
<1> HIDE DEF half, wired
<1>7. Headed(b.arena, arena, slot, level.head)
  <2>1. /\ DOMAIN arena = DOMAIN wired
        /\ \A s \in DOMAIN wired :
             /\ SameTerms(wired[s], arena[s])
             /\ arena[s].prev = IF s = level.head THEN slot ELSE wired[s].prev
             /\ arena[s].next = wired[s].next
    BY <1>6, SetLinks
  <2> HIDE DEF arena
  <2>2. ASSUME NEW s \in DOMAIN b.arena
        PROVE  /\ SameTerms(b.arena[s], wired[s])
               /\ wired[s].next = IF s = slot THEN level.head ELSE b.arena[s].next
               /\ wired[s].prev = IF s = slot THEN None ELSE b.arena[s].prev
    BY <1>4, <1>6, TermsTransitive
  <2> QED BY <1>4, <1>6, <2>1, <2>2, TermsTransitive DEF Headed
<1>8. full.head = slot /\ full.tail = IF level.tail = None THEN slot ELSE level.tail
  OBVIOUS
<1> HIDE DEF full
<1>9. BookTypeOK(set) /\ set.levels = [b.levels EXCEPT ![side] = Put(@, price, full)]
  BY <1>3, SetLevelType
<1> HIDE DEF set, arena, new
<1>10. new.arena = arena /\ new.levels = set.levels
  BY <1>5, <1>9 DEF BookTypeOK, IsBook
<1> QED BY <1>7, <1>8, <1>9, <1>10 DEF new, InFront

\* One level is set, the others stay.
PutAt(b, c, side, price, level) ==
  c.levels = [b.levels EXCEPT ![side] = Put(@, price, level)]

LEMMA PutThere ==
  ASSUME NEW b, DOMAIN b.levels = Side, NEW side \in Side, NEW price,
         NEW c, NEW level, PutAt(b, c, side, price, level)
  PROVE  /\ DOMAIN c.levels = Side
         /\ DOMAIN c.levels[side] = DOMAIN b.levels[side] \cup {price}
         /\ c.levels[side][price] = level /\ LevelAt(c, side, price) = level
         /\ \A p \in DOMAIN b.levels[side] : p # price => c.levels[side][p] = b.levels[side][p]
         /\ \A d \in Side : d # side => c.levels[d] = b.levels[d]
<1> DEFINE map == Put(b.levels[side], price, level)
<1>1. c.levels = [b.levels EXCEPT ![side] = map]
  BY DEF PutAt
<1>2. /\ DOMAIN map = DOMAIN b.levels[side] \cup {price} /\ map[price] = level
      /\ \A p \in DOMAIN b.levels[side] : p # price => map[p] = b.levels[side][p]
  BY DEF Put
<1> HIDE DEF map
<1>3. /\ DOMAIN c.levels = Side /\ c.levels[side] = map
      /\ \A d \in Side : d # side => c.levels[d] = b.levels[d]
  BY <1>1
<1> QED BY <1>2, <1>3 DEF LevelAt

\* A level is replaced twice and has its ends again.
LEMMA PutEnds ==
  ASSUME NEW b, DOMAIN b.levels = Side, NEW side \in Side, NEW price \in DOMAIN b.levels[side],
         NEW mid, NEW left, PutAt(b, mid, side, price, left),
         NEW c, NEW full, PutAt(mid, c, side, price, full),
         full.head = b.levels[side][price].head, full.tail = b.levels[side][price].tail
  PROVE  SameEnds(b, c) /\ \A d \in Side : DOMAIN c.levels[d] = DOMAIN b.levels[d]
<1>0. /\ DOMAIN mid.levels = Side
      /\ DOMAIN mid.levels[side] = DOMAIN b.levels[side] \cup {price}
      /\ mid.levels[side][price] = left
      /\ \A p \in DOMAIN b.levels[side] : p # price => mid.levels[side][p] = b.levels[side][p]
      /\ \A d \in Side : d # side => mid.levels[d] = b.levels[d]
  BY PutThere
<1>1. /\ DOMAIN mid.levels = Side
      /\ DOMAIN mid.levels[side] = DOMAIN b.levels[side]
      /\ \A p \in DOMAIN b.levels[side] : p # price => mid.levels[side][p] = b.levels[side][p]
      /\ \A d \in Side : d # side => mid.levels[d] = b.levels[d]
  BY <1>0
<1>2. /\ DOMAIN c.levels = Side
      /\ DOMAIN c.levels[side] = DOMAIN mid.levels[side] \cup {price}
      /\ c.levels[side][price] = full
      /\ \A p \in DOMAIN mid.levels[side] : p # price => c.levels[side][p] = mid.levels[side][p]
      /\ \A d \in Side : d # side => c.levels[d] = mid.levels[d]
  BY <1>1, PutThere
<1>3. ASSUME NEW d \in Side
      PROVE  DOMAIN c.levels[d] = DOMAIN b.levels[d]
  BY <1>1, <1>2
<1>4. ASSUME NEW d \in Side, NEW p \in DOMAIN b.levels[d]
      PROVE  /\ c.levels[d][p].head = b.levels[d][p].head
             /\ c.levels[d][p].tail = b.levels[d][p].tail
  BY <1>1, <1>2
<1> QED BY <1>2, <1>3, <1>4 DEF SameEnds

LEMMA CutMakerWhole ==
  ASSUME Inv, Whole(book, stack), Matching, NEW price, CutMaker(price)
  PROVE  Whole(book', stack')
<1> DEFINE slot  == Top.slot
           maker == MakerAt(price)
           side  == Other
           qty   == TradeQty(price)
           new   == Traded(price)
           old   == book.levels[side][price]
           after == book.arena[maker].next
<1>1. TradesAt(price) /\ CountFill(price) /\ book' = ReinsertAtHead(new, maker, side, price)
  BY DEF CutMaker
<1>2. /\ price \in Price /\ side \in Side /\ price \in DOMAIN book.levels[side]
      /\ maker \in DOMAIN book.arena /\ maker \in Slot /\ maker # slot
      /\ maker = old.head /\ book.arena[maker].prev = None
      /\ after = None <=> maker = old.tail
      /\ old.tail # None
      /\ after # None => after \in DOMAIN book.arena /\ book.arena[after].prev = maker
      /\ ListsSound(book, {slot}) /\ Takers(stack) = {slot}
  BY <1>1, MakerRests DEF RestingMaker
<1>3. /\ TradeDone(book.arena, new.arena, slot, maker, qty) /\ new.stops = book.stops
      /\ \E left : /\ HeadGone(old, book.arena[maker], left)
                   /\ new.levels = [book.levels EXCEPT ![side] = Put(@, price, left)]
  BY <1>1, TradedLinks
<1>4. /\ BookTypeOK(new) /\ new.ids = book.ids /\ BookTypeOK(book)
      /\ slot \in DOMAIN book.arena
  BY <1>1, InvType, TradedType DEF Inv, BookSound, Matching
<1>5. PICK left : /\ HeadGone(old, book.arena[maker], left)
                  /\ new.levels = [book.levels EXCEPT ![side] = Put(@, price, left)]
  BY <1>3
<1>0. Taker = book.arena[slot]
  BY DEF Taker
<1> HIDE DEF new, slot, maker, side, qty
<1>6. DOMAIN book.levels = Side /\ maker \in DOMAIN new.arena
  BY Zenon, <1>2, <1>3, <1>4 DEF BookTypeOK, TradeDone
<1>7. /\ PutAt(book, new, side, price, left) /\ LevelAt(new, side, price) = left
  <2>1. PutAt(book, new, side, price, left)
    BY <1>5 DEF PutAt
  <2>2. side \in Side /\ DOMAIN book.levels = Side
    BY Zenon, <1>2, <1>6
  <2> HIDE DEF old
  <2> QED BY <2>1, <2>2, PutThere
<1> HIDE DEF old, after
<1>8. /\ Headed(new.arena, book'.arena, maker, left.head)
      /\ \E full : /\ full.head = maker
                   /\ full.tail = IF left.tail = None THEN maker ELSE left.tail
                   /\ book'.levels = [new.levels EXCEPT ![side] = Put(@, price, full)]
      /\ SameOrders(new, book')
  <2> DEFINE back == ReinsertAtHead(new, maker, side, price)
  <2>1. SameOrders(new, back)
    BY <1>2, <1>4, <1>6, ReinsertAtHeadType
  <2>2. InFront(new, back, maker, side, price, left)
    BY <1>2, <1>4, <1>6, <1>7, ReinsertLinks
  <2> HIDE DEF back
  <2>3. book' = back
    BY <1>1 DEF back
  <2> QED BY <2>1, <2>2, <2>3 DEF InFront
<1>9. PICK full : /\ full.head = maker
                  /\ full.tail = IF left.tail = None THEN maker ELSE left.tail
                  /\ book'.levels = [new.levels EXCEPT ![side] = Put(@, price, full)]
  BY <1>8
<1>10. left.head = after /\ left.tail = IF after = None THEN None ELSE old.tail
  BY <1>5 DEF HeadGone, after
<1>11. full.head = old.head /\ full.tail = old.tail
  BY <1>2, <1>9, <1>10
<1>12. /\ SameEnds(book, book')
       /\ \A d \in Side : DOMAIN book'.levels[d] = DOMAIN book.levels[d]
  <2>1. PutAt(new, book', side, price, full)
    BY <1>9 DEF PutAt
  <2>2. full.head = book.levels[side][price].head /\ full.tail = book.levels[side][price].tail
    BY <1>11 DEF old
  <2> QED BY <1>2, <1>6, <1>7, <2>1, <2>2, PutEnds
<1>13. DOMAIN book'.arena = DOMAIN book.arena
  BY <1>3, <1>8 DEF TradeDone, Headed
<1>14. ASSUME NEW s \in DOMAIN book.arena
       PROVE  /\ SameButSize(book.arena[s], book'.arena[s])
              /\ book'.arena[s].next = book.arena[s].next
              /\ book'.arena[s].prev = book.arena[s].prev
              /\ s = slot => book'.arena[s].remaining = Minus(book.arena[s].remaining, qty)
  <2>1. /\ SameButSize(book.arena[s], new.arena[s])
        /\ new.arena[s].next = book.arena[s].next
        /\ new.arena[s].prev = IF s = after THEN None ELSE book.arena[s].prev
        /\ s = slot => new.arena[s].remaining = Minus(book.arena[s].remaining, qty)
        /\ s \in DOMAIN new.arena
    BY <1>3 DEF TradeDone, after
  <2>2. /\ SameTerms(new.arena[s], book'.arena[s])
        /\ book'.arena[s].next = IF s = maker THEN after ELSE new.arena[s].next
        /\ book'.arena[s].prev = IF s = after THEN maker
                                 ELSE IF s = maker THEN None ELSE new.arena[s].prev
    BY <1>8, <1>10, <2>1 DEF Headed
  <2>3. s # None
    BY <1>4, NoneIsNoSlot DEF BookTypeOK, IsMap
  <2> QED BY <1>2, <2>1, <2>2, <2>3 DEF SameTerms, SameButSize, after
<1>15. ListsSound(book', {slot})
  <2>1. SameResting(book, {slot}, book', {slot})
    BY <1>13, <1>14 DEF SameResting, Rests, SameButSize
  <2> QED BY <1>2, <1>12, <2>1, ListsUntouched
<1>16. Uncrossed(book'.levels)
  BY <1>12 DEF Whole, Uncrossed, Side
<1>17. book'.ids = book.ids /\ book'.stops = book.stops
  BY <1>3, <1>4, <1>8 DEF SameOrders
<1>18. OrdersSound(book', {slot})
  <2>1. OrdersSound(book, {slot})
    BY <1>2 DEF Whole
  <2> QED BY <2>1, <1>13, <1>14, <1>17 DEF OrdersSound, SameButSize, IsStop
<1>19. NoneComes(book, {slot}, book', {slot}) /\ NoStopGoes(book, {slot}, book', {slot})
  BY <1>13, <1>14 DEF NoneComes, NoStopGoes, SameButSize
<1>20. /\ slot \in DOMAIN book'.arena /\ book'.arena[slot].kind = Taker.kind
       /\ book'.arena[slot].remaining = Minus(Taker.remaining, qty)
  BY <1>0, <1>4, <1>13, <1>14 DEF SameButSize
<1>21. /\ Takers(stack') = {slot} /\ CallSound(book', stack')
       /\ StillFired(stack, stack') /\ FramesKept(stack, stack', book', {slot})
  BY <1>1, <1>20, TradeCalls DEF slot, qty
<1>22. TreesSound(book', stack', {slot})
  BY <1>2, <1>4, <1>17, <1>19, <1>21, TreesStay DEF Whole
<1>23. CollectedSound(book', stack', {slot})
  BY <1>2, <1>19, <1>21, CollectedAll DEF Whole
<1> QED BY <1>15, <1>16, <1>18, <1>21, <1>22, <1>23 DEF Whole

(***************************************************************************)
(* What is left of a limit order comes to rest.                            *)
(***************************************************************************)

\* The order in `slot` is wired behind the last one of the level.
AtBack(b, c, slot, side, price, level) ==
  /\ DOMAIN c.arena = DOMAIN b.arena
  /\ Appended(b.arena, c, slot, level.tail)
  /\ \A s \in DOMAIN b.arena : SameTerms(b.arena[s], c.arena[s])
  /\ \E full : /\ full.head = IF level.tail = None THEN slot ELSE level.head
               /\ full.tail = slot
               /\ PutAt(b, c, side, price, full)

LEMMA RestLinks ==
  ASSUME NEW b, BookTypeOK(b), NEW slot \in DOMAIN b.arena,
         NEW side, NEW price, PlacedAt(b.arena[slot], side, price),
         NEW level, level = LevelAt(b, side, price), level.tail # slot
  PROVE  AtBack(b, InsertResting(b, slot), slot, side, price, level)
<1> DEFINE half  == SetPrev(b.arena, slot, level.tail)
           wired == [b.arena EXCEPT ![slot].prev = level.tail, ![slot].next = None]
           arena == SetNext(wired, level.tail, slot)
           full  == PushBack(level, slot, b.arena[slot].remaining)
           set   == SetLevel(b, side, price, full)
           new   == InsertResting(b, slot)
<1>1. b.arena[slot] \in Order /\ IsMap(b.arena, Slot, Order) /\ slot \in Slot
  BY DEF BookTypeOK, IsMap
<1>2. /\ side \in Side /\ price \in Price /\ b.arena[slot].remaining \in Qty
      /\ level \in Level /\ level.tail \in Optional(Slot)
  <2>1. side \in Side /\ price \in Price /\ b.arena[slot].remaining \in Qty
    BY <1>1 DEF Order, PlacedAt
  <2>2. level \in Level
    BY <2>1, LevelAtType
  <2> QED BY <2>1, <2>2 DEF Level
<1>3. full \in Level
  BY <1>1, <1>2, PushBackType
<1>4. /\ IsMap(half, Slot, Order) /\ DOMAIN half = DOMAIN b.arena
      /\ \A s \in DOMAIN b.arena :
           /\ SameTerms(b.arena[s], half[s])
           /\ half[s].prev = IF s = slot THEN level.tail ELSE b.arena[s].prev
           /\ half[s].next = b.arena[s].next
  <2> HIDE DEF half
  <2>1. /\ IsMap(half, Slot, Order) /\ DOMAIN half = DOMAIN b.arena
        /\ \A s \in DOMAIN b.arena :
             /\ SameTerms(b.arena[s], half[s])
             /\ half[s].prev = IF s = slot THEN level.tail ELSE b.arena[s].prev
             /\ half[s].next = b.arena[s].next
    <3>1. IsMap(half, Slot, Order)
      BY Zenon, <1>1, <1>2, LinkType DEF half
    <3> QED BY <1>1, <3>1, SetLinks DEF half
  <2> QED BY Zenon, <2>1
<1>5. new = [set EXCEPT !.arena = arena]
  BY DEF InsertResting, PlacedAt
<1>6. /\ IsMap(wired, Slot, Order) /\ DOMAIN wired = DOMAIN half
      /\ \A s \in DOMAIN half :
           /\ SameTerms(half[s], wired[s])
           /\ wired[s].next = IF s = slot THEN None ELSE half[s].next
           /\ wired[s].prev = half[s].prev
  <2>1. wired = SetNext(half, slot, None)
    BY <1>1 DEF SetNext, SetPrev, Slot
  <2>2. None \in Optional(Slot)
    BY DEF Optional
  <2> HIDE DEF half, wired
  <2> QED BY <1>4, <2>1, <2>2, SetLinks, LinkType
<1> HIDE DEF half, wired
<1>7. /\ DOMAIN arena = DOMAIN wired
      /\ \A s \in DOMAIN wired :
           /\ SameTerms(wired[s], arena[s])
           /\ arena[s].next = IF s = level.tail THEN slot ELSE wired[s].next
           /\ arena[s].prev = wired[s].prev
  BY <1>6, SetLinks
<1>8. /\ full.head = IF level.tail = None THEN slot ELSE level.head
      /\ full.tail = slot
  BY DEF PushBack
<1> HIDE DEF full
<1>9. BookTypeOK(set) /\ set.levels = [b.levels EXCEPT ![side] = Put(@, price, full)]
  BY <1>2, <1>3, SetLevelType
<1> HIDE DEF set, arena, new
<1>10. new.arena = arena /\ new.levels = set.levels
  BY <1>5, <1>9 DEF BookTypeOK, IsBook
<1>11. ASSUME NEW s \in DOMAIN b.arena
       PROVE  /\ s \in DOMAIN new.arena /\ SameTerms(b.arena[s], new.arena[s])
              /\ new.arena[s].next = IF s = slot THEN None
                                     ELSE IF s = level.tail THEN slot ELSE b.arena[s].next
              /\ new.arena[s].prev = IF s = slot THEN level.tail ELSE b.arena[s].prev
  <2>1. s \in DOMAIN half /\ s \in DOMAIN wired /\ s \in DOMAIN new.arena
    BY <1>4, <1>6, <1>7, <1>10
  <2>2. SameTerms(b.arena[s], half[s]) /\ SameTerms(half[s], wired[s])
        /\ SameTerms(wired[s], new.arena[s])
    BY <1>4, <1>6, <1>7, <1>10, <2>1
  <2>3. SameTerms(b.arena[s], new.arena[s])
    BY <2>2, TermsTransitive
  <2> QED BY <1>4, <1>6, <1>7, <1>10, <2>1, <2>3
<1>12. Appended(b.arena, new, slot, level.tail)
  BY <1>11 DEF Appended, SameTerms
<1>13. PutAt(b, new, side, price, full)
  BY <1>9, <1>10 DEF PutAt
<1>14. DOMAIN new.arena = DOMAIN b.arena
  BY <1>4, <1>6, <1>7, <1>10
<1> QED BY <1>8, <1>11, <1>12, <1>13, <1>14 DEF AtBack, new

\* When the loop ends with something left of a limit order, the other side of
\* the book is beyond its limit.
LEMMA LoopOverApart ==
  ASSUME Inv, Matching, LoopOver, Taker.kind = "Limit", Taker.remaining # 0
  PROVE  Apart(book.levels, Taker.side, Taker.price)
<1>1. /\ Taker \in Order /\ Other \in Side /\ Taker.side \in Side /\ Taker.price \in Price
  BY InvType, TakerType DEF Order
<1>2. NonEmptyLevels(book.levels) /\ IsMap(book.levels[Other], Price, Level)
  BY <1>1 DEF Inv, BookSound, BookTypeOK
<1>3. ~\E p \in DOMAIN book.levels[Other] : Crosses(p)
  <2>1. ~\E p \in DOMAIN book.levels[Other] : book.levels[Other][p].head = None
    BY <1>1, <1>2 DEF NonEmptyLevels
  <2> QED BY <2>1 DEF LoopOver
<1>4. ASSUME NEW q \in DOMAIN book.levels[Other]
      PROVE  IF Taker.side = "Buy" THEN Taker.price < q ELSE q < Taker.price
  <2>1. q \in Int /\ Taker.price \in Int
    BY <1>1, <1>2 DEF IsMap, Price
  <2>2. ~Within(Taker.side, Taker.price, q)
    BY <1>3 DEF Crosses
  <2> QED BY <2>1, <2>2 DEF Within
<1> QED BY <1>4 DEF Apart, Other

LEMMA RestWhole ==
  ASSUME Inv, Inv', Whole(book, stack), Rest
  PROVE  /\ Whole(book', stack')
         /\ FewerOrders(book, book') /\ book'.stops = book.stops /\ book'.last = book.last
<1> DEFINE slot  == Top.slot
           side  == Taker.side
           price == Taker.price
           level == LevelAt(book, side, price)
           loc   == [slot |-> slot, side |-> side, price |-> price]
           known == IndexInsert(book, Taker.id, loc)
<1>1. /\ Matching /\ LoopOver /\ ThenStops /\ Taker.kind = "Limit"
      /\ ~(Top.filled > 0 /\ Taker.remaining = 0)
      /\ book' = InsertResting(known, slot)
  BY DEF Rest
<1>2. /\ slot \in DOMAIN book.arena /\ slot \in Slot /\ Taker = book.arena[slot]
      /\ Taker \in Order /\ Top.filled \in Qty /\ side \in Side /\ price \in Price
      /\ Taker.id \in OrderId /\ Taker.id \notin DOMAIN book.ids /\ BookTypeOK(book)
      /\ book.levels[side] = [p \in DOMAIN book.levels[side] |-> book.levels[side][p]]
  BY Zenon, <1>1, InvType, TakerType DEF Matching, Taker, Order, Inv, TakerApart, BookSound, BookTypeOK, IsMap
<1>3. /\ stack # <<>> /\ Top.call = "match_order" /\ stack[Len(stack)] = Top
      /\ StackSound(stack) /\ Len(stack) \in Nat \ {0} /\ Takers(stack) = {slot}
      /\ FrameSound(book, Top, Len(stack))
  BY <1>1, InCall DEF Matching
<1>4. Taker.remaining # 0
  <2>1. Top.filled + Taker.remaining \in 1 .. QtyMod - 1
    BY <1>2, <1>3 DEF FrameSound
  <2>2. Taker.remaining \in Nat /\ Top.filled \in Nat
    <3>1. Taker \in Order /\ Top.filled \in Qty
      BY Zenon, <1>2
    <3> QED BY <3>1 DEF Order, Qty
  <2> QED BY <1>1, <2>1, <2>2
<1>5. Len(stack) = 1
  <2>1. ~(Len(stack) > 1)
    BY <1>1, <1>2, <1>3 DEF FrameSound
  <2> DEFINE n == Len(stack)
  <2>2. n \in Nat \ {0} /\ ~(n > 1)
    BY <1>3, <2>1
  <2> HIDE DEF n
  <2>3. n = 1
    BY <2>2
  <2> QED BY <2>3 DEF n
<1>6. Apart(book.levels, side, price)
  BY <1>1, <1>4, LoopOverApart
<1>7. loc \in Location /\ loc.slot = slot /\ loc.side = side /\ loc.price = price
  BY <1>2 DEF Location
<1>0. loc = [slot |-> slot, side |-> side, price |-> price]
  OBVIOUS
<1>8. ListsSound(book, {slot}) /\ OrdersSound(book, {slot}) /\ Uncrossed(book.levels)
      /\ TreesSound(book, stack, {slot})
  BY <1>3 DEF Whole
<1> HIDE DEF slot, side, price, loc
<1>9. /\ BookTypeOK(known) /\ known.levels = book.levels /\ known.arena = book.arena
      /\ known.ids = Put(book.ids, Taker.id, loc) /\ known.stops = book.stops
      /\ known.last = book.last
  <2>1. known.stops = book.stops /\ known.last = book.last
    BY <1>2 DEF IndexInsert, BookTypeOK, IsBook
  <2> QED BY <1>2, <1>7, <2>1, IndexType
<1> HIDE DEF known
<1>10. level = LevelAt(known, side, price)
  BY <1>9 DEF LevelAt
<1>11. level.tail # slot /\ (level.tail # None => level.head # None) /\ slot # None
  <2>0. slot # None
    BY <1>2, NoneIsNoSlot
  <2>1. CASE price \in DOMAIN book.levels[side]
    <3>1. level = book.levels[side][price]
      BY <2>1 DEF LevelAt
    <3>2. PICK age : Linked(book.arena, book.levels[side][price],
                            RestsAt(book.arena, {slot}, side, price), age)
      BY <1>2, <1>8, <2>1 DEF ListsSound, ListAt
    <3>3. /\ level.tail \in RestsAt(book.arena, {slot}, side, price)
          /\ level.head \in RestsAt(book.arena, {slot}, side, price)
      BY <3>1, <3>2 DEF Linked
    <3>4. level.tail # slot /\ level.head \in Slot
      BY <1>2, <3>3 DEF RestsAt, Rests, BookTypeOK, IsMap
    <3> QED BY <2>0, <3>4, NoneIsNoSlot
  <2>2. CASE price \notin DOMAIN book.levels[side]
    BY <2>0, <2>2 DEF LevelAt, EmptyLevel
  <2> QED BY <2>1, <2>2
<1> HIDE DEF level
<1>12. AtBack(known, book', slot, side, price, level)
  BY <1>1, <1>2, <1>9, <1>10, <1>11, RestLinks DEF side, price, PlacedAt
<1>13. /\ DOMAIN book'.arena = DOMAIN book.arena
       /\ Appended(book.arena, book', slot, level.tail)
       /\ \A s \in DOMAIN book.arena : SameTerms(book.arena[s], book'.arena[s])
  BY <1>9, <1>12 DEF AtBack
<1>14. PICK full : /\ full.head = IF level.tail = None THEN slot ELSE level.head
                   /\ full.tail = slot
                   /\ PutAt(known, book', side, price, full)
  BY <1>12 DEF AtBack
<1>15. book'.levels = [book.levels EXCEPT ![side] = Put(@, price, full)]
  BY <1>9, <1>14 DEF PutAt
<1>16. full.head # None
  BY <1>11, <1>14
<1>17. ListsSound(book', {})
  <2>1. LevelsBut(book, book', side, price, full)
    BY <1>15, <1>16 DEF LevelsBut
  <2>2. \A s : Rests(book'.arena, {}, s) <=> Rests(book.arena, {slot}, s) \/ s = slot
    BY <1>1, <1>2, <1>13 DEF Rests, SameTerms
  <2>3. ~Rests(book.arena, {slot}, slot)
    BY DEF Rests
  <2>4. side = book.arena[slot].side /\ price = book.arena[slot].price
    BY <1>2 DEF side, price
  <2>5. level = LevelAt(book, side, price)
    BY DEF level
  <2>6. /\ BookTypeOK(book) /\ ListsSound(book, {slot}) /\ slot \in DOMAIN book.arena
        /\ DOMAIN book'.arena = DOMAIN book.arena
        /\ Appended(book.arena, book', slot, level.tail)
        /\ full.head = IF level.tail = None THEN slot ELSE level.head
        /\ full.tail = slot
    BY <1>2, <1>8, <1>13, <1>14
  <2> HIDE DEF level
  <2> QED BY <2>1, <2>2, <2>3, <2>4, <2>5, <2>6, ListGainsOne
<1>18. Uncrossed(book'.levels)
  BY <1>2, <1>6, <1>8, <1>15, PutLevelLemma
<1>19. /\ book'.ids = Put(book.ids, Taker.id, loc) /\ book'.stops = book.stops
       /\ book'.last = book.last /\ BookTypeOK(book')
  <2>1. SameOrders(known, book')
    BY <1>1, <1>2, <1>9, InsertRestingType
  <2> QED BY <1>9, <2>1 DEF SameOrders, Inv, BookSound
<1>20. OrdersSound(book', {})
  <2>1. \A id \in DOMAIN book.ids : id \in DOMAIN book'.ids /\ book'.ids[id] = book.ids[id]
    BY <1>2, <1>19 DEF Put
  <2>2. Taker.id \in DOMAIN book'.ids /\ book'.ids[Taker.id] = loc
    BY <1>19 DEF Put
  <2>3. ASSUME NEW s \in DOMAIN book.arena, s # slot
        PROVE  SameTerms(book.arena[s], book'.arena[s]) /\ book.arena[s].id \in DOMAIN book.ids
    BY <1>8, <1>13, <2>3 DEF OrdersSound
  <2>4. SameTerms(Taker, book'.arena[slot])
    BY <1>2, <1>13
  <2>5. ASSUME NEW s \in DOMAIN book'.arena
        PROVE  LET order == book'.arena[s]
               IN  /\ order.kind # "StopLimit"
                   /\ order.kind \in {"Limit", "StopMarket"}
                   /\ order.id \in DOMAIN book'.ids /\ book'.ids[order.id].slot = s
                   /\ order.kind = "Limit" =>
                        book'.ids[order.id]
                          = [slot |-> s, side |-> order.side, price |-> order.price]
                   /\ order.kind = "StopMarket" => order.id \in StopIdentifiers
    <3>1. CASE s = slot
      BY <1>0, <1>1, <1>7, <2>2, <2>4, <3>1 DEF SameTerms, side, price
    <3>2. CASE s # slot
      BY <1>8, <1>13, <2>1, <2>3, <3>2 DEF OrdersSound, SameTerms
    <3> QED BY <3>1, <3>2
  <2> QED BY <2>5 DEF OrdersSound
<1>21. \A i \in 1 .. Len(stack) : stack[i].call # "trigger_stops"
  BY <1>3, <1>5
<1>22. TreesSound(book', stack, {})
  <2>1. ASSUME NEW d \in Side, NEW p \in DOMAIN book.stops[d],
               NEW i \in 1 .. Len(book.stops[d][p])
        PROVE  /\ book.stops[d][p][i] \in DOMAIN book'.arena
               /\ HoldsStop(book', d, p, book.stops[d][p][i])
    <3>1. /\ book.stops[d][p][i] \in DOMAIN book.arena \ {slot}
          /\ HoldsStop(book, d, p, book.stops[d][p][i])
      BY <1>8, <1>21, AllLive
    <3> QED BY <1>13, <3>1 DEF HoldsStop, SameTerms
  <2> QED BY <1>19, <2>1 DEF TreesSound
<1>23. CollectedSound(book', stack, {})
  BY <1>21 DEF CollectedSound
<1>24. Whole(book', stack')
  BY <1>1, <1>17, <1>18, <1>19, <1>20, <1>22, <1>23, AfterMatch
<1>25. FewerOrders(book, book')
  BY <1>13 DEF FewerOrders
<1> QED BY <1>19, <1>24, <1>25

(***************************************************************************)
(* trigger_stops.                                                          *)
(***************************************************************************)

\* A frame that has passed over its first stop remembers why it fires.
LEMMA PoppedCollected ==
  ASSUME Inv, Triggering, NEW p \in DOMAIN Top.todo,
         NEW b, NEW taken, Collected(b, taken, Top)
  PROVE  /\ Popped(p).side = Top.side /\ Popped(p).last = Top.last
         /\ Popped(p).call = "trigger_stops" /\ Collected(b, taken, Popped(p))
         /\ 1 \in 1 .. Len(Top.todo[p]) /\ Head(Top.todo[p]) = Top.todo[p][1]
<1> DEFINE todo == Top.todo
           left == IF Len(todo[p]) = 1 THEN Drop(todo, p) ELSE Put(todo, p, Tail(todo[p]))
<1>1. FrameOK(Top) /\ Top.call = "trigger_stops"
  BY InvType, TopType DEF Triggering, In
<1>2. /\ Top = [call |-> "trigger_stops", side |-> Top.side, last |-> Top.last, todo |-> todo]
      /\ IsMap(todo, Price, Seq(Slot) \ {<<>>})
  BY <1>1 DEF FrameOK, ApplyNew, MatchOrder
<1>3. Popped(p) = [Top EXCEPT !.todo = left]
  BY DEF Popped
<1> HIDE DEF todo
<1>4. todo[p] \in Seq(Slot) /\ todo[p] # <<>>
  BY <1>2 DEF IsMap, todo
<1>5. Len(todo[p]) \in Nat \ {0} /\ Head(todo[p]) = todo[p][1]
  BY <1>4, EmptySeq
<1>6. ASSUME NEW q \in DOMAIN left
      PROVE  /\ q \in DOMAIN todo
             /\ \A i \in 1 .. Len(left[q]) :
                  \E j \in 1 .. Len(todo[q]) : left[q][i] = todo[q][j]
  <2>1. CASE Len(todo[p]) = 1
    BY <2>1 DEF Drop
  <2>2. CASE Len(todo[p]) # 1
    <3>1. left = Put(todo, p, Tail(todo[p])) /\ q \in DOMAIN todo
      BY <2>2 DEF Put, todo
    <3>2. CASE q # p
      BY <3>1, <3>2 DEF Put
    <3>3. CASE q = p
      <4> DEFINE n == Len(todo[p])
      <4>1. left[p] = Tail(todo[p])
        BY <3>1 DEF Put
      <4>2. Len(Tail(todo[p])) = n - 1 /\ \A i \in 1 .. n - 1 : Tail(todo[p])[i] = todo[p][i + 1]
        BY <1>4, <1>5
      <4>3. \A i \in 1 .. n - 1 : i + 1 \in 1 .. n
        BY <1>5
      <4> HIDE DEF n
      <4>4. \A i \in 1 .. Len(left[p]) : i + 1 \in 1 .. n /\ left[p][i] = todo[p][i + 1]
        BY <4>1, <4>2, <4>3
      <4> QED BY <3>1, <3>3, <4>4 DEF n
    <3> QED BY <3>2, <3>3
  <2> QED BY <2>1, <2>2
<1> HIDE DEF left
<1>7. Popped(p) = [call |-> "trigger_stops", side |-> Top.side, last |-> Top.last, todo |-> left]
  BY <1>2, <1>3
<1>8. /\ Popped(p).side = Top.side /\ Popped(p).last = Top.last
      /\ Popped(p).call = "trigger_stops" /\ Popped(p).todo = left
  BY <1>7
<1>9. Collected(b, taken, Popped(p))
  <2>1. ASSUME NEW q \in DOMAIN left
        PROVE  /\ Reached(Top.side, Top.last, q)
               /\ \A i \in 1 .. Len(left[q]) :
                    left[q][i] \in DOMAIN b.arena \ taken => HoldsStop(b, Top.side, q, left[q][i])
    <3>1. q \in DOMAIN todo
      BY <1>6
    <3>2. Reached(Top.side, Top.last, q)
      BY <3>1 DEF Collected, todo
    <3>3. \A j \in 1 .. Len(todo[q]) :
            todo[q][j] \in DOMAIN b.arena \ taken => HoldsStop(b, Top.side, q, todo[q][j])
      BY <3>1 DEF Collected, todo
    <3> QED BY <1>6, <3>2, <3>3
  <2> QED BY <1>8, <2>1 DEF Collected
<1> QED BY <1>5, <1>8, <1>9 DEF todo

LEMMA PopCall ==
  ASSUME NEW calls, StackSound(calls), calls # <<>>, NEW top, top = calls[Len(calls)],
         NEW frame, frame.call = "trigger_stops", frame.side = top.side, frame.last = top.last,
         NEW new, new = [calls EXCEPT ![Len(calls)] = frame],
         NEW c, NEW taken, Collected(c, taken, frame)
  PROVE  StillFired(calls, new) /\ FramesKept(calls, new, c, taken)
<1>1. /\ Len(new) = Len(calls)
      /\ \A i \in 1 .. Len(calls) : new[i] = IF i = Len(calls) THEN frame ELSE calls[i]
  BY BecomeShape
<1>2. StillFired(calls, new)
  <2> SUFFICES ASSUME NEW side \in Side, NEW p \in Price, Fired(calls, side, p)
               PROVE  Fired(new, side, p)
    BY DEF StillFired
  <2>1. PICK i \in 1 .. Len(calls) : /\ calls[i].call = "trigger_stops"
                                      /\ calls[i].side = side
                                      /\ Reached(side, calls[i].last, p)
    BY DEF Fired
  <2>2. /\ new[i].call = "trigger_stops" /\ new[i].side = side
        /\ new[i].last = calls[i].last
    BY <1>1, <2>1
  <2> QED BY <1>1, <2>1, <2>2 DEF Fired
<1>3. FramesKept(calls, new, c, taken)
  BY <1>1 DEF FramesKept
<1> QED BY <1>2, <1>3

LEMMA PushCall ==
  ASSUME NEW calls, NEW below, StackSound(below), below # <<>>,
         NEW callee, callee.call # "trigger_stops", NEW new, new = Append(below, callee),
         NEW c, NEW taken, StillFired(calls, below), FramesKept(calls, below, c, taken)
  PROVE  StillFired(calls, new) /\ FramesKept(calls, new, c, taken)
<1> DEFINE n == Len(below)
<1>1. /\ Len(new) = n + 1 /\ n \in Nat \ {0}
      /\ \A i \in 1 .. n : new[i] = below[i]
      /\ new[n + 1] = callee
  BY PushShape, StackIn
<1> HIDE DEF n
<1>2. /\ \A i \in 1 .. n : i \in 1 .. n + 1
      /\ \A i \in 1 .. n + 1 : i # n + 1 => i \in 1 .. n
  BY <1>1
<1>3. StillFired(below, new)
  BY <1>1, <1>2 DEF StillFired, Fired, n
<1>4. StillFired(calls, new)
  BY <1>3 DEF StillFired
<1>5. FramesKept(calls, new, c, taken)
  <2>1. \A j \in 1 .. n : below[j].call = "trigger_stops" =>
          (j \in 1 .. Len(calls) /\ below[j] = calls[j]) \/ Collected(c, taken, below[j])
    BY DEF FramesKept, n
  <2> QED BY <1>1, <1>2, <2>1 DEF FramesKept
<1> QED BY <1>4, <1>5

\* What is known while trigger_stops is in progress.
LEMMA InTrigger ==
  ASSUME Inv, Whole(book, stack), Triggering
  PROVE  /\ stack # <<>> /\ stack[Len(stack)] = Top /\ Top.call = "trigger_stops"
         /\ StackSound(stack) /\ Len(stack) \in Nat \ {0}
         /\ Takers(stack) = {} /\ Collected(book, {}, Top)
         /\ Top.side \in Side /\ Top.last \in Price
<1>0. In("trigger_stops")
  BY DEF Triggering
<1>1. /\ stack # <<>> /\ stack[Len(stack)] = Top /\ Top.call = "trigger_stops"
      /\ StackSound(stack) /\ Len(stack) \in Nat \ {0}
      /\ Takers(stack) = IF "trigger_stops" = "match_order" THEN {Top.slot} ELSE {}
      /\ Collected(book, Takers(stack), Top)
  BY <1>0, InCall
<1>2. Takers(stack) = {}
  BY <1>1
<1>3. FrameOK(Top)
  BY <1>1, InvType, TopType
<1>4. Top.side \in Side /\ Top.last \in Price
  BY <1>1, <1>3 DEF FrameOK, ApplyNew, MatchOrder
<1> QED BY <1>1, <1>2, <1>4

LEMMA SkipStopWhole ==
  ASSUME Inv, Inv', Whole(book, stack), Triggering, NEW p \in DOMAIN Top.todo, SkipStop(p)
  PROVE  Whole(book', stack')
<1>1. /\ stack # <<>> /\ stack[Len(stack)] = Top /\ StackSound(stack)
      /\ Takers(stack) = {} /\ Collected(book, {}, Top)
  BY InTrigger
<1>2. stack' = [stack EXCEPT ![Len(stack)] = Popped(p)] /\ book' = book
  BY DEF SkipStop, Become
<1>3. /\ Popped(p).side = Top.side /\ Popped(p).last = Top.last
      /\ Popped(p).call = "trigger_stops" /\ Collected(book, {}, Popped(p))
  BY <1>1, PoppedCollected
<1>4. StackSound(stack') /\ stack'[Len(stack')].call = "trigger_stops"
  <2> DEFINE new == [stack EXCEPT ![Len(stack)] = Popped(p)]
  <2>1. StackSound(new) /\ new[Len(new)] = Popped(p)
    BY <1>1, PoppedFrame, BecomeSound
  <2> HIDE DEF new
  <2>2. stack' = new
    BY <1>2 DEF new
  <2> QED BY <1>3, <2>1, <2>2
<1>5. StillFired(stack, stack') /\ FramesKept(stack, stack', book, {})
  BY <1>1, <1>2, <1>3, PopCall
<1>6. CallSound(book, stack') /\ Takers(stack') = {}
  BY <1>4, CallsIdle
<1>7. NoneComes(book, {}, book, {}) /\ NoStopGoes(book, {}, book, {})
  BY SameIsStill
<1>8. TreesSound(book, stack', {})
  BY <1>1, <1>5, <1>7, TreesStay DEF Whole, Inv, BookSound
<1>9. CollectedSound(book, stack', {})
  BY <1>1, <1>5, <1>7, CollectedAll DEF Whole
<1> QED BY <1>1, <1>2, <1>6, <1>8, <1>9 DEF Whole

\* A stop that fires leaves the book; the trees may hold its slot until the
\* call that fires it ends.
LEMMA FireStopWhole ==
  ASSUME Inv, Inv', Whole(book, stack), Triggering, NEW p \in DOMAIN Top.todo, FireStop(p)
  PROVE  Whole(book', stack')
<1> DEFINE slot  == Head(Top.todo[p])
           stop  == book.arena[slot]
           no    == [id |-> stop.id, side |-> stop.side,
                     kind |-> IF stop.kind = "StopMarket" THEN "Market" ELSE "Limit",
                     price |-> stop.price, stop_price |-> 0, qty |-> stop.remaining]
           below == [stack EXCEPT ![Len(stack)] = Popped(p)]
           mid   == IndexRemove(book, stop.id)
<1>1. /\ slot \in DOMAIN book.arena
      /\ book' = ArenaRemove(mid, slot)
      /\ stack' = Append(below, ApplyNew(no))
  BY DEF FireStop, CallFrom
<1>2. /\ stack # <<>> /\ stack[Len(stack)] = Top /\ Top.call = "trigger_stops"
      /\ StackSound(stack) /\ Len(stack) \in Nat \ {0}
      /\ Takers(stack) = {} /\ Collected(book, {}, Top)
  BY InTrigger
<1>3. /\ OrdersSound(book, {}) /\ ListsSound(book, {}) /\ TreesSound(book, stack, {})
      /\ CollectedSound(book, stack, {}) /\ Uncrossed(book.levels)
      /\ BookTypeOK(book) /\ IdsSound(book) /\ DOMAIN book.levels = Side
  BY <1>2 DEF Whole, Inv, BookSound, SlotsSound, BookTypeOK
<1>4. /\ Popped(p).side = Top.side /\ Popped(p).last = Top.last
      /\ Popped(p).call = "trigger_stops"
      /\ 1 \in 1 .. Len(Top.todo[p]) /\ slot = Top.todo[p][1]
  BY <1>2, PoppedCollected
<1>5. HoldsStop(book, Top.side, p, slot) /\ Reached(Top.side, Top.last, p)
  BY <1>1, <1>2, <1>4 DEF Collected
<1>6. no.kind = "Market"
  BY <1>5 DEF HoldsStop
<1>7. ApplyNew(no).call = "apply_new" /\ ApplyNew(no).order = no
  BY DEF ApplyNew
<1>8. stop \in Order /\ slot \in Slot
  BY <1>1, <1>3 DEF BookTypeOK, IsMap
<1>9. stop.id \in OrderId /\ slot \in Slot
  BY <1>8 DEF Order
<1> HIDE DEF no, slot
<1>10. /\ book'.levels = book.levels /\ book'.arena = Drop(book.arena, slot)
       /\ book'.ids = Drop(book.ids, stop.id) /\ book'.stops = book.stops
  <2>1. /\ BookTypeOK(mid) /\ mid.levels = book.levels /\ mid.arena = book.arena
        /\ mid.ids = Drop(book.ids, stop.id)
    BY <1>3, <1>9, IndexType
  <2>2. mid.stops = book.stops
    BY <1>3 DEF IndexRemove, BookTypeOK, IsBook
  <2> HIDE DEF mid
  <2>3. /\ book'.levels = mid.levels /\ book'.arena = Drop(mid.arena, slot)
        /\ book'.ids = mid.ids
    BY <1>1, <1>9, <2>1, ArenaRemoveType
  <2>4. book'.stops = mid.stops
    BY <1>1, <2>1 DEF ArenaRemove, BookTypeOK, IsBook
  <2> QED BY <2>1, <2>2, <2>3, <2>4
<1> HIDE DEF mid
<1>11. /\ DOMAIN book'.arena = DOMAIN book.arena \ {slot}
       /\ \A s \in DOMAIN book.arena \ {slot} : book'.arena[s] = book.arena[s]
  BY <1>10 DEF Drop
<1>12. OrdersSound(book', {})
  <2>1. ASSUME NEW s \in DOMAIN book'.arena
        PROVE  /\ s \in DOMAIN book.arena /\ book'.arena[s] = book.arena[s]
               /\ book.arena[s].id \in DOMAIN book'.ids
               /\ book'.ids[book.arena[s].id] = book.ids[book.arena[s].id]
    <3>1. s \in DOMAIN book.arena /\ s # slot /\ book'.arena[s] = book.arena[s]
      BY <1>11
    <3>2. /\ book.arena[s].id \in DOMAIN book.ids /\ book.ids[book.arena[s].id].slot = s
          /\ book.ids[stop.id].slot = slot
      <4> HIDE DEF stop
      <4>1. book.arena[s].id \in DOMAIN book.ids /\ book.ids[book.arena[s].id].slot = s
        BY <1>3, <3>1 DEF OrdersSound
      <4>2. book.ids[book.arena[slot].id].slot = slot
        BY <1>1, <1>3 DEF OrdersSound
      <4> QED BY <4>1, <4>2 DEF stop
    <3>3. book.arena[s].id # stop.id
      BY <3>1, <3>2
    <3> HIDE DEF stop
    <3> QED BY <1>10, <3>1, <3>2, <3>3 DEF Drop
  <2> QED BY <1>3, <2>1 DEF OrdersSound
<1>13. ListsSound(book', {})
  <2>1. SameResting(book, {}, book', {})
    BY <1>5, <1>11 DEF SameResting, Rests, HoldsStop
  <2>2. SameEnds(book, book')
    BY <1>3, <1>10 DEF SameEnds
  <2> QED BY <1>3, <2>1, <2>2, ListsUntouched
<1>14. NoneComes(book, {}, book', {})
  BY <1>11 DEF NoneComes
<1>15. Collected(book', {}, Popped(p))
  <2>1. Collected(book', {}, Top)
    BY <1>2, <1>14, CollectedStays
  <2> QED BY <2>1, PoppedCollected
<1>16. /\ StackSound(below) /\ below # <<>>
       /\ StillFired(stack, below) /\ FramesKept(stack, below, book', {})
  <2>1. StackSound(below) /\ below # <<>>
    BY <1>2, PoppedFrame, BecomeSound
  <2> QED BY <1>2, <1>4, <1>15, <2>1, PopCall
<1>17. Len(below) = Len(stack) /\ below[Len(stack)] = Popped(p)
  <2>1. Len(stack) \in 1 .. Len(stack)
    BY <1>2, StackIn
  <2> QED BY <1>2, <2>1, BecomeShape
<1> HIDE DEF below
<1>18. StillFired(stack, stack') /\ FramesKept(stack, stack', book', {})
  BY <1>1, <1>7, <1>16, PushCall
<1>19. /\ stack' # <<>> /\ Len(stack') = Len(stack) + 1
       /\ stack'[Len(stack')] = ApplyNew(no) /\ stack'[Len(stack)] = Popped(p)
       /\ StackSound(stack') /\ Len(stack) \in 1 .. Len(stack')
  <2>1. Len(stack) \in 1 .. Len(stack)
    BY <1>2, StackIn
  <2>2. /\ stack' # <<>> /\ Len(stack') = Len(below) + 1
        /\ \A i \in 1 .. Len(below) : stack'[i] = below[i]
        /\ stack'[Len(below) + 1] = ApplyNew(no)
    BY <1>1, <1>16, PushShape
  <2>3. \A n \in Nat \ {0} : n \in 1 .. n + 1
    OBVIOUS
  <2> QED BY <1>2, <1>17, <2>1, <2>2, <2>3 DEF Inv
<1>20. CallSound(book', stack') /\ Takers(stack') = {}
  <2>1. FrameSound(book', ApplyNew(no), Len(stack'))
    BY <1>6, <1>7 DEF FrameSound, IsStop
  <2>2. CallSound(book', stack')
    BY <1>19, <2>1, TopCallSound
  <2>3. Takers(stack') = {}
    BY <1>7, <1>19, TakersAre
  <2> QED BY <2>2, <2>3
<1>21. TreesSound(book', stack', {})
  <2> SUFFICES ASSUME NEW d \in Side, NEW q \in DOMAIN book.stops[d],
                      NEW i \in 1 .. Len(book.stops[d][q]),
                      NEW s, s = book.stops[d][q][i]
               PROVE  IF s \in DOMAIN book'.arena THEN HoldsStop(book', d, q, s)
                                                  ELSE Fired(stack', d, q)
    BY <1>10 DEF TreesSound
  <2>0. q \in Price
    BY <1>3 DEF BookTypeOK, IsMap
  <2>1. IF s \in DOMAIN book.arena THEN HoldsStop(book, d, q, s) ELSE Fired(stack, d, q)
    BY <1>3 DEF TreesSound
  <2>2. CASE s \in DOMAIN book'.arena
    BY <1>11, <2>1, <2>2 DEF HoldsStop
  <2>3. CASE s \notin DOMAIN book.arena
    BY <1>11, <1>18, <2>0, <2>1, <2>3 DEF StillFired
  <2>4. CASE s = slot
    <3>1. HoldsStop(book, d, q, slot)
      BY <1>1, <2>1, <2>4
    <3>2. d = Top.side /\ q = p
      BY <1>5, <3>1 DEF HoldsStop
    <3>3. Fired(stack', d, q)
      BY <1>4, <1>5, <1>19, <3>2 DEF Fired
    <3> QED BY <1>11, <2>4, <3>3
  <2> QED BY <1>11, <2>2, <2>3, <2>4
<1>22. CollectedSound(book', stack', {})
  BY <1>3, <1>14, <1>18, CollectedAll
<1> QED BY <1>3, <1>10, <1>12, <1>13, <1>20, <1>21, <1>22 DEF Whole

\* The triggers that were reached leave the tree, and with them every slot whose
\* stop this call has fired.
LEMMA EndStopsWhole ==
  ASSUME Inv, Inv', Whole(book, stack), EndStops
  PROVE  Whole(book', stack')
<1> DEFINE far   == {p \in DOMAIN book.stops[Top.side] : ~Reached(Top.side, Top.last, p)}
           frame == TriggerStops(book, "Sell", Top.last)
<1>0. Triggering
  BY DEF EndStops
<1>1. /\ stack # <<>> /\ stack[Len(stack)] = Top /\ Top.call = "trigger_stops"
      /\ StackSound(stack) /\ Len(stack) \in Nat \ {0}
      /\ Takers(stack) = {} /\ Top.side \in Side
  BY <1>0, InTrigger
<1>2. book' = [book EXCEPT !.stops[Top.side] = Keep(@, far)]
  BY DEF EndStops
<1>3. /\ OrdersSound(book, {}) /\ ListsSound(book, {}) /\ TreesSound(book, stack, {})
      /\ CollectedSound(book, stack, {}) /\ Uncrossed(book.levels)
      /\ BookTypeOK(book) /\ DOMAIN book.levels = Side /\ DOMAIN book.stops = Side
  BY <1>1 DEF Whole, Inv, BookSound, BookTypeOK
<1>4. \A p \in far : p \in DOMAIN book.stops[Top.side] /\ ~Reached(Top.side, Top.last, p)
  OBVIOUS
<1> HIDE DEF far
<1>5. book'.levels = book.levels /\ book'.arena = book.arena /\ book'.ids = book.ids
  BY <1>1, <1>2, <1>3, KeepStopsType
<1>6. book'.stops = [book.stops EXCEPT ![Top.side] = Keep(@, far)]
  BY <1>2, <1>3 DEF BookTypeOK, IsBook
<1>7. ASSUME NEW d \in Side, NEW p \in DOMAIN book'.stops[d]
      PROVE  /\ p \in DOMAIN book.stops[d] /\ book'.stops[d][p] = book.stops[d][p]
             /\ d = Top.side => ~Reached(Top.side, Top.last, p)
  <2>1. CASE d = Top.side
    BY <1>1, <1>3, <1>4, <1>6, <2>1 DEF Keep
  <2>2. CASE d # Top.side
    BY <1>1, <1>3, <1>6, <2>2
  <2> QED BY <2>1, <2>2
<1>8. NoneComes(book, {}, book', {}) /\ NoStopGoes(book, {}, book', {})
  BY <1>5, SameIsStill
<1>9. /\ StackSound(stack') /\ (stack' # <<>> => stack'[Len(stack')].call = "trigger_stops")
      /\ FramesKept(stack, stack', book', {})
      /\ \A i \in 1 .. Len(stack) :
           i # Len(stack) => i \in 1 .. Len(stack') /\ stack'[i] = stack[i]
  <2>1. CASE Top.side = "Buy"
    <3>1. stack' = [stack EXCEPT ![Len(stack)] = frame]
      BY <2>1 DEF EndStops, Become
    <3>2. Collected(book', {}, frame) /\ frame.call = "trigger_stops"
      BY <1>3, <1>8, TriggerCollects DEF Side, TriggerStops
    <3> HIDE DEF frame
    <3>3. /\ Len(stack') = Len(stack)
          /\ \A i \in 1 .. Len(stack) : stack'[i] = IF i = Len(stack) THEN frame ELSE stack[i]
      BY <1>1, <3>1, BecomeShape
    <3>4. FramesKept(stack, stack', book', {})
      BY <3>2, <3>3 DEF FramesKept
    <3>5. stack'[Len(stack')] = frame
      <4>1. Len(stack) \in 1 .. Len(stack)
        BY <1>1, StackIn
      <4> QED BY <3>3, <4>1
    <3> QED BY <3>2, <3>3, <3>4, <3>5 DEF Inv
  <2>2. CASE Top.side # "Buy"
    <3>1. stack' = SubSeq(stack, 1, Len(stack) - 1)
      BY <2>2 DEF EndStops, Return
    <3>2. StackSound(stack') /\ (stack' # <<>> => stack'[Len(stack')].call = "trigger_stops")
      BY <1>1, <3>1, ReturnSound
    <3> DEFINE n == Len(stack)
    <3>3. /\ Len(stack') = n - 1 /\ \A i \in 1 .. n - 1 : stack'[i] = stack[i]
          /\ n \in Nat \ {0}
      BY <1>1, <3>1, ReturnShape
    <3> HIDE DEF n
    <3>4. /\ \A i \in 1 .. n : i # n => i \in 1 .. n - 1
          /\ \A i \in 1 .. n - 1 : i \in 1 .. n
      BY <3>3
    <3>5. FramesKept(stack, stack', book', {})
      BY <3>3, <3>4 DEF FramesKept, n
    <3>6. \A i \in 1 .. n : i # n => i \in 1 .. Len(stack') /\ stack'[i] = stack[i]
      BY <3>3, <3>4
    <3> QED BY <3>2, <3>5, <3>6 DEF n
  <2> QED BY <2>1, <2>2
<1>10. CallSound(book', stack') /\ Takers(stack') = {}
  BY <1>9, CallsIdle
<1>11. TreesSound(book', stack', {})
  <2> SUFFICES ASSUME NEW d \in Side, NEW p \in DOMAIN book'.stops[d],
                      NEW i \in 1 .. Len(book'.stops[d][p]),
                      NEW s, s = book'.stops[d][p][i]
               PROVE  IF s \in DOMAIN book'.arena THEN HoldsStop(book', d, p, s)
                                                  ELSE Fired(stack', d, p)
    BY DEF TreesSound
  <2>1. IF s \in DOMAIN book.arena THEN HoldsStop(book, d, p, s) ELSE Fired(stack, d, p)
    BY <1>3, <1>7 DEF TreesSound
  <2>2. CASE s \in DOMAIN book'.arena
    BY <1>5, <2>1, <2>2 DEF HoldsStop
  <2>3. CASE s \notin DOMAIN book'.arena
    <3>1. PICK j \in 1 .. Len(stack) : /\ stack[j].call = "trigger_stops" /\ stack[j].side = d
                                       /\ Reached(d, stack[j].last, p)
      BY <1>5, <2>1, <2>3 DEF Fired
    <3>2. j # Len(stack)
      BY <1>1, <1>7, <3>1
    <3> QED BY <1>9, <2>3, <3>1, <3>2 DEF Fired
  <2> QED BY <2>2, <2>3
<1>12. CollectedSound(book', stack', {})
  BY <1>3, <1>8, <1>9, CollectedAll
<1>13. OrdersSound(book', {})
  BY <1>3, <1>5 DEF OrdersSound
<1>14. ListsSound(book', {})
  <2>1. SameResting(book, {}, book', {})
    BY <1>5 DEF SameResting, Rests
  <2>2. SameEnds(book, book')
    BY <1>3, <1>5 DEF SameEnds
  <2> QED BY <1>3, <2>1, <2>2, ListsUntouched
<1> QED BY <1>3, <1>5, <1>10, <1>11, <1>12, <1>13, <1>14 DEF Whole

(***************************************************************************)
(* Every step, and what follows from it.                                   *)
(***************************************************************************)

LEMMA IdleStepWhole ==
  ASSUME Inv, Whole(book, stack), Tame, Receive \/ Deliver \/ UNCHANGED vars
  PROVE  Whole(book', stack')
<1>1. CASE Receive
  BY <1>1, NewWhole, CancelWhole, ReplaceWhole DEF Receive
<1>2. CASE Deliver
  BY <1>2 DEF Deliver
<1>3. CASE UNCHANGED vars
  BY <1>3 DEF vars
<1> QED BY <1>1, <1>2, <1>3

LEMMA ApplyWhole ==
  ASSUME Inv, Inv', Whole(book, stack), Apply
  PROVE  Whole(book', stack')
<1>1. CASE RejectNew
  BY <1>1, NothingDoneWhole DEF RejectNew
<1>2. CASE HoldStop
  BY <1>2, HoldStopWhole
<1>3. CASE KillFok
  BY <1>3, NothingDoneWhole DEF KillFok
<1>4. CASE StartMatch
  BY <1>4, StartMatchWhole
<1>5. CASE MatchStep
  BY <1>5, FillMakerWhole, CutMakerWhole DEF MatchStep
<1>6. CASE FinishFilled
  BY <1>6, FinishFilledWhole
<1>7. CASE Rest
  BY <1>7, RestWhole
<1>8. CASE CancelRest
  BY <1>8, CancelRestWhole
<1>9. CASE VisitStop
  BY <1>9, SkipStopWhole, FireStopWhole DEF VisitStop
<1>10. CASE EndStops
  BY <1>10, EndStopsWhole
<1> QED BY <1>1, <1>2, <1>3, <1>4, <1>5, <1>6, <1>7, <1>8, <1>9, <1>10 DEF Apply

\* The inductive invariant: with tame commands the book and the calls in
\* progress are whole in every reachable state.
THEOREM WholeHolds ==
  ASSUME Tame
  PROVE  Spec => [](Inv /\ Whole(book, stack))
<1>1. Init => Inv /\ Whole(book, stack)
  BY InitSound, InitWhole
<1>2. Inv /\ Whole(book, stack) /\ [Next]_vars => (Inv /\ Whole(book, stack))'
  <2> SUFFICES ASSUME Inv, Whole(book, stack), [Next]_vars
               PROVE  Inv' /\ Whole(book', stack')
    OBVIOUS
  <2>1. Inv'
    BY StepSound
  <2> QED BY <2>1, IdleStepWhole, ApplyWhole DEF Next
<1> QED BY <1>1, <1>2, PTL DEF Spec

\* The bids stay below the asks, in the middle of a match too, whatever limit
\* orders are cancelled or replaced and whatever stops fire.
THEOREM NeverCrosses ==
  ASSUME Tame
  PROVE  Spec => []NoCross
<1>1. Inv /\ Whole(book, stack) => NoCross
  BY DEF Whole, Uncrossed, NoCross
<1> QED BY <1>1, WholeHolds, PTL

\* trigger_stops submits only stop orders that its trade has reached, though the
\* calls it nests may have fired what it collected and reused the slots.
THEOREM OnlyReachedFire ==
  ASSUME Tame
  PROVE  Spec => []FiresOnlyReached
<1>1. Inv /\ Whole(book, stack) => FiresOnlyReached
  <2> SUFFICES ASSUME Inv, Whole(book, stack), Triggering, NEW p \in DOMAIN Top.todo,
                      NEW slot, slot = Head(Top.todo[p]), slot \in DOMAIN book.arena
               PROVE  /\ IsStop(book.arena[slot])
                      /\ Reached(book.arena[slot].side, Top.last, book.arena[slot].stop_price)
    BY DEF FiresOnlyReached
  <2>1. Collected(book, {}, Top)
    BY InTrigger
  <2>2. 1 \in 1 .. Len(Top.todo[p]) /\ slot = Top.todo[p][1]
    BY <2>1, PoppedCollected
  <2>3. HoldsStop(book, Top.side, p, slot) /\ Reached(Top.side, Top.last, p)
    BY <2>1, <2>2 DEF Collected
  <2> QED BY <2>3 DEF HoldsStop, IsStop
<1> QED BY <1>1, WholeHolds, PTL

\* The orders of the lists are those the index knows.
LEMMA RestingAre ==
  ASSUME Inv, Whole(book, stack), NEW s \in DOMAIN book.arena
  PROVE  Rests(book.arena, Takers(stack), s)
           <=> Indexed(s) /\ book.arena[s].kind = "Limit"
<1>1. CASE s \in Takers(stack)
  <2>1. stack # <<>> /\ Top.call = "match_order" /\ s = Top.slot
    BY <1>1, TakersAre DEF Inv, Top
  <2>2. Matching
    BY <2>1 DEF Matching, In
  <2>3. ~Indexed(s)
    BY <2>1, <2>2 DEF Inv, TakerApart, Taker, Indexed
  <2> QED BY <1>1, <2>3 DEF Rests
<1>2. CASE s \notin Takers(stack)
  BY <1>2 DEF Whole, OrdersSound, Indexed, Rests
<1> QED BY <1>1, <1>2

\* Through fills, cancels from the middle and replaces, the intrusive list of
\* every level chains exactly the orders that rest there.
THEOREM ListsAlwaysAgree ==
  ASSUME Tame
  PROVE  Spec => []ListsAgree
<1>1. Inv /\ Whole(book, stack) => ListsAgree
  <2> SUFFICES ASSUME Inv, Whole(book, stack) PROVE ListsAgree
    OBVIOUS
  <2>1. PICK age : \A side \in Side, price \in Price :
                     ListAt(book.arena, book.levels, Takers(stack), age, side, price)
    BY DEF Whole, ListsSound
  <2>2. BookTypeOK(book)
    BY DEF Inv, BookSound
  <2>3. ASSUME NEW s \in DOMAIN book.arena, Indexed(s), book.arena[s].kind = "Limit"
        PROVE  book.arena[s].price \in DOMAIN book.levels[book.arena[s].side]
    <3>1. book.arena[s].side \in Side /\ book.arena[s].price \in Price
      BY <2>2 DEF BookTypeOK, IsMap, Order
    <3>2. Rests(book.arena, Takers(stack), s)
      BY <2>3, RestingAre
    <3>3. s \in RestsAt(book.arena, Takers(stack), book.arena[s].side, book.arena[s].price)
      BY <3>2 DEF RestsAt
    <3> QED BY <2>1, <3>1, <3>3 DEF ListAt
  <2>4. ASSUME NEW side \in Side, NEW p \in DOMAIN book.levels[side]
        PROVE  Chained(book.levels[side][p], Resting(side, p))
    <3>1. p \in Price
      BY <2>2 DEF BookTypeOK, IsMap
    <3>2. RestsAt(book.arena, Takers(stack), side, p) = Resting(side, p)
      <4>1. ASSUME NEW s
            PROVE  s \in RestsAt(book.arena, Takers(stack), side, p) <=> s \in Resting(side, p)
        BY RestingAre DEF RestsAt, Resting
      <4> QED BY <4>1
    <3>3. Linked(book.arena, book.levels[side][p], Resting(side, p), age)
      BY <2>1, <3>1, <3>2 DEF ListAt
    <3> QED BY <3>3 DEF Linked, Chained
  <2> QED BY <2>3, <2>4 DEF ListsAgree
<1> QED BY <1>1, WholeHolds, PTL

\* Whatever is asked next, every index and link that is followed leads to a live
\* order: the slab is never indexed at a vacant slot.
THEOREM NeverPanics ==
  ASSUME Tame
  PROVE  Spec => []NoPanic
<1>1. ASSUME Inv, Whole(book, stack), NEW side \in Side, NEW p \in DOMAIN book.levels[side]
      PROVE  /\ book.levels[side][p].head \in DOMAIN book.arena
             /\ Safe(book, book.levels[side][p].tail)
             /\ \A s \in RestsAt(book.arena, Takers(stack), side, p) :
                  Safe(book, book.arena[s].next) /\ Safe(book, book.arena[s].prev)
             /\ book.levels[side][p].head \in RestsAt(book.arena, Takers(stack), side, p)
  <2>1. PICK age : \A d \in Side, price \in Price :
                     ListAt(book.arena, book.levels, Takers(stack), age, d, price)
    BY <1>1 DEF Whole, ListsSound
  <2>2. p \in Price
    BY <1>1 DEF Inv, BookSound, BookTypeOK, IsMap
  <2>3. Linked(book.arena, book.levels[side][p],
               RestsAt(book.arena, Takers(stack), side, p), age)
    BY <2>1, <2>2 DEF ListAt
  <2>4. RestsAt(book.arena, Takers(stack), side, p) \subseteq DOMAIN book.arena
    BY DEF RestsAt
  <2> QED BY <2>3, <2>4 DEF Linked, Safe, Optional
<1>2. ASSUME Inv, Whole(book, stack), stack = <<>>, NEW c \in Commands,
             c.op \in {"Cancel", "Replace"}, c.id \in DOMAIN book.ids
      PROVE  CanUnlink(c.id)
  <2> DEFINE slot  == book.ids[c.id].slot
             order == book.arena[slot]
  <2>1. slot \in DOMAIN book.arena
    BY <1>2 DEF Inv, BookSound, SlotsSound, IdsSound
  <2>2. order.kind = "Limit"
    BY <1>2, WithoutWhole DEF Tame
  <2>3. order.side \in Side /\ order.price \in Price /\ Takers(stack) = {}
    BY <1>2, <2>1, TakersAre DEF Inv, BookSound, BookTypeOK, IsMap, Order
  <2>4. slot \in RestsAt(book.arena, Takers(stack), order.side, order.price)
    BY <2>1, <2>2, <2>3 DEF RestsAt, Rests
  <2>5. order.price \in DOMAIN book.levels[order.side]
    BY <1>2, <2>3, <2>4 DEF Whole, ListsSound, ListAt
  <2>6. Safe(book, order.next) /\ Safe(book, order.prev)
    BY <1>1, <1>2, <2>3, <2>4, <2>5
  <2> QED BY <2>1, <2>6 DEF CanUnlink
<1>3. ASSUME Inv, Whole(book, stack), In("match_order")
      PROVE  /\ Matching
             /\ \A p \in DOMAIN book.levels[Other] :
                  MakerAt(p) \in DOMAIN book.arena /\ Safe(book, book.arena[MakerAt(p)].next)
             /\ Safe(book, LevelAt(book, Taker.side, Taker.price).tail)
  <2>1. Matching
    BY <1>3, InCall DEF Matching, FrameSound
  <2>2. Other \in Side /\ Taker.side \in Side
    BY <1>3, <2>1, InvType, TakerType
  <2>3. \A p \in DOMAIN book.levels[Other] :
          MakerAt(p) \in DOMAIN book.arena /\ Safe(book, book.arena[MakerAt(p)].next)
    BY <1>1, <1>3, <2>2 DEF MakerAt
  <2>4. Safe(book, LevelAt(book, Taker.side, Taker.price).tail)
    BY <1>1, <1>3, <2>2 DEF LevelAt, EmptyLevel, Safe, Optional
  <2> QED BY <2>1, <2>3, <2>4
<1>4. Inv /\ Whole(book, stack) => NoPanic
  BY <1>2, <1>3 DEF NoPanic
<1> QED BY <1>4, WholeHolds, PTL

(***************************************************************************)
(* The stops that wait. Only HoldStop adds one, and each nested call has   *)
(* taken one away.                                                         *)
(***************************************************************************)

StopsOf(b) == {s \in DOMAIN b.arena : IsStop(b.arena[s])}

(***************************************************************************)
(* Steps that hold no stop.                                                *)
(***************************************************************************)

SameStop(o, n) ==
  n.side = o.side /\ n.stop_price = o.stop_price /\ n.remaining = o.remaining

\* No stop comes, the trees stay, and there still has been a trade.
StopsStay(b, c) ==
  /\ \A s \in StopsOf(c) : s \in StopsOf(b) /\ SameStop(b.arena[s], c.arena[s])
  /\ c.stops = b.stops
  /\ b.last # None => c.last # None

LEMMA FewerStops ==
  ASSUME NEW b, NEW c, FewerOrders(b, c), c.stops = b.stops, c.last = b.last
  PROVE  StopsStay(b, c)
BY DEF FewerOrders, SameTerms, StopsStay, StopsOf, SameStop, IsStop

LEMMA SomeGone ==
  ASSUME NEW b, NEW c, NEW slot, c.arena = Drop(b.arena, slot)
  PROVE  FewerOrders(b, c)
BY DEF Drop, FewerOrders, SameTerms

LEMMA StartMatchStays ==
  ASSUME Inv, Whole(book, stack), StartMatch
  PROVE  StopsStay(book, book')
<1> DEFINE order == OrderOf(Top.order)
           slot  == VacantSlot(book)
<1>1. /\ In("apply_new") /\ Refusal(Top.order) = None /\ ~IsStop(Top.order)
      /\ book' = ArenaInsert(book, order)
  BY DEF StartMatch
<1>2. order \in Order /\ ~IsStop(order)
  BY <1>1, AcceptedType DEF OrderOf, IsStop
<1> HIDE DEF order
<1>3. /\ DOMAIN book'.arena = DOMAIN book.arena \cup {slot} /\ book'.arena[slot] = order
      /\ \A s \in DOMAIN book.arena : book'.arena[s] = book.arena[s]
      /\ book'.stops = book.stops
  BY <1>1, <1>2, ArenaGains DEF Inv
<1>4. book'.last = book.last
  BY <1>1 DEF ArenaInsert, Inv, BookSound, BookTypeOK, IsBook
<1> HIDE DEF slot
<1> QED BY <1>2, <1>3, <1>4 DEF StopsStay, StopsOf, SameStop

\* Neither of two orders that trade is a stop.
LEMMA TradeStays ==
  ASSUME Inv, Whole(book, stack), Matching, NEW price, TradesAt(price),
         NEW c, c.stops = book.stops, c.last = price,
         DOMAIN c.arena \subseteq DOMAIN book.arena,
         \A s \in DOMAIN c.arena : SameTerms(Traded(price).arena[s], c.arena[s])
  PROVE  StopsStay(book, c)
<1> DEFINE slot  == Top.slot
           maker == MakerAt(price)
           qty   == TradeQty(price)
           new   == Traded(price)
<1>1. /\ price \in Price /\ maker \in DOMAIN book.arena /\ Rests(book.arena, {slot}, maker)
      /\ Takers(stack) = {slot}
  BY MakerRests DEF RestingMaker
<1>2. TradeDone(book.arena, new.arena, slot, maker, qty)
  BY TradedLinks
<1>3. slot \in DOMAIN book.arena /\ ~IsStop(book.arena[slot])
  BY <1>1 DEF Matching, Whole, OrdersSound
<1>4. ~IsStop(book.arena[maker])
  BY <1>1 DEF Rests, IsStop
<1> HIDE DEF slot, maker, qty, new
<1>5. ASSUME NEW s \in StopsOf(c)
      PROVE  s \in StopsOf(book) /\ SameStop(book.arena[s], c.arena[s])
  <2>1. s \in DOMAIN c.arena /\ s \in DOMAIN book.arena /\ IsStop(c.arena[s])
    BY <1>5 DEF StopsOf
  <2>2. SameTerms(new.arena[s], c.arena[s])
    BY <2>1 DEF new
  <2>3. /\ SameButSize(book.arena[s], new.arena[s])
        /\ (s # slot /\ s # maker) => new.arena[s].remaining = book.arena[s].remaining
    BY <1>2, <2>1 DEF TradeDone
  <2>4. IsStop(book.arena[s])
    BY <2>1, <2>2, <2>3 DEF IsStop, SameTerms, SameButSize
  <2>5. s # slot /\ s # maker
    BY <1>3, <1>4, <2>4
  <2> QED BY <2>1, <2>2, <2>3, <2>4, <2>5 DEF StopsOf, SameTerms, SameButSize, SameStop
<1>6. price # None
  BY <1>1 DEF Price
<1> QED BY <1>5, <1>6 DEF StopsStay

LEMMA FillMakerStays ==
  ASSUME Inv, Whole(book, stack), Matching, NEW price, FillMaker(price)
  PROVE  StopsStay(book, book')
<1> DEFINE maker == MakerAt(price)
           new   == Traded(price)
           id    == book.arena[maker].id
           known == IndexRemove(new, id)
           gone  == ArenaRemove(known, maker)
<1>1. TradesAt(price) /\ book' = RemoveEmpty(gone, Other, price)
  BY DEF FillMaker
<1>2. /\ Other \in Side /\ maker \in DOMAIN book.arena /\ maker \in Slot /\ BookTypeOK(book)
  BY <1>1, MakerRests DEF RestingMaker, Inv, BookSound
<1>3. id \in OrderId
  BY <1>2 DEF BookTypeOK, IsMap, Order
<1>4. BookTypeOK(new) /\ new.stops = book.stops /\ new.last = price
      /\ DOMAIN new.arena = DOMAIN book.arena
  BY <1>1, InvType, TradedType, TradedLinks
<1> HIDE DEF new, maker, id
<1>5. /\ BookTypeOK(known) /\ known.arena = new.arena
      /\ known.stops = new.stops /\ known.last = new.last
  <2>1. known.stops = new.stops /\ known.last = new.last
    BY <1>4 DEF IndexRemove, BookTypeOK, IsBook
  <2> QED BY <1>3, <1>4, <2>1, IndexType
<1> HIDE DEF known
<1>6. /\ BookTypeOK(gone) /\ gone.arena = Drop(known.arena, maker)
      /\ gone.stops = known.stops /\ gone.last = known.last
  <2>1. gone.stops = known.stops /\ gone.last = known.last
    BY <1>5 DEF ArenaRemove, BookTypeOK, IsBook
  <2> QED BY <1>2, <1>5, <2>1, ArenaRemoveType
<1> HIDE DEF gone
<1>7. SameOrders(gone, book') /\ book'.arena = gone.arena
  BY <1>1, <1>2, <1>6, RemoveEmptyType
<1>8. book'.stops = book.stops /\ book'.last = price /\ book'.arena = Drop(new.arena, maker)
  BY <1>4, <1>5, <1>6, <1>7 DEF SameOrders
<1>9. /\ DOMAIN book'.arena \subseteq DOMAIN book.arena
      /\ \A s \in DOMAIN book'.arena : SameTerms(new.arena[s], book'.arena[s])
  BY <1>4, <1>8 DEF Drop, SameTerms
<1> QED BY <1>1, <1>8, <1>9, TradeStays DEF new

LEMMA CutMakerStays ==
  ASSUME Inv, Whole(book, stack), Matching, NEW price, CutMaker(price)
  PROVE  StopsStay(book, book')
<1> DEFINE maker == MakerAt(price)
           side  == Other
           new   == Traded(price)
           back  == ReinsertAtHead(new, maker, side, price)
<1>1. TradesAt(price) /\ book' = back
  BY DEF CutMaker
<1>2. side \in Side /\ price \in Price /\ maker \in DOMAIN book.arena
  BY <1>1, MakerRests DEF RestingMaker
<1>3. BookTypeOK(new) /\ new.stops = book.stops /\ new.last = price
      /\ DOMAIN new.arena = DOMAIN book.arena
  BY <1>1, InvType, TradedType, TradedLinks
<1> HIDE DEF new, maker, side
<1>4. SameOrders(new, back)
  BY <1>2, <1>3, ReinsertAtHeadType
<1>5. InFront(new, back, maker, side, price, LevelAt(new, side, price))
  BY <1>2, <1>3, ReinsertLinks
<1> HIDE DEF back
<1>6. /\ DOMAIN book'.arena = DOMAIN new.arena
      /\ \A s \in DOMAIN new.arena : SameTerms(new.arena[s], book'.arena[s])
  BY <1>1, <1>5 DEF InFront, Headed
<1>7. book'.stops = book.stops /\ book'.last = price
  BY <1>1, <1>3, <1>4 DEF SameOrders
<1> QED BY <1>1, <1>3, <1>6, <1>7, TradeStays DEF new

LEMMA RestStays ==
  ASSUME Inv, Inv', Whole(book, stack), Rest
  PROVE  StopsStay(book, book') /\ book'.last = book.last
BY RestWhole, FewerStops

\* The taker leaves the arena.
LEMMA LeaveStays ==
  ASSUME Inv, Whole(book, stack), FinishFilled \/ CancelRest
  PROVE  StopsStay(book, book') /\ book'.last = book.last
<1> DEFINE mid == ArenaRemove(book, Top.slot)
<1>1. Matching /\ (book' = mid \/ book' = IndexRemove(mid, Taker.id))
  BY DEF FinishFilled, CancelRest
<1>2. Taker.id \in OrderId /\ Top.slot \in Slot /\ BookTypeOK(book)
  BY <1>1, InvType, TakerType DEF Order, Inv, BookSound
<1>3. /\ BookTypeOK(mid) /\ mid.arena = Drop(book.arena, Top.slot)
      /\ mid.stops = book.stops /\ mid.last = book.last
  <2>1. mid.stops = book.stops /\ mid.last = book.last
    BY <1>2 DEF ArenaRemove, BookTypeOK, IsBook
  <2> QED BY <1>2, <2>1, ArenaRemoveType
<1> HIDE DEF mid
<1>4. /\ book'.arena = Drop(book.arena, Top.slot)
      /\ book'.stops = book.stops /\ book'.last = book.last
  <2> DEFINE left == IndexRemove(mid, Taker.id)
  <2>1. left.stops = mid.stops /\ left.last = mid.last
    BY <1>3 DEF IndexRemove, BookTypeOK, IsBook
  <2>2. left.arena = mid.arena
    BY <1>2, <1>3, IndexType
  <2> HIDE DEF left
  <2> QED BY <1>1, <1>3, <2>1, <2>2 DEF left
<1> QED BY <1>4, SomeGone, FewerStops

\* What trigger_stops takes from its list is a stop, if its slot is in use, and
\* that stop is no longer held once it is fired.
LEMMA FireStopStays ==
  ASSUME Inv, Whole(book, stack), Triggering, NEW p \in DOMAIN Top.todo, FireStop(p),
         NEW slot, slot = Head(Top.todo[p])
  PROVE  /\ slot \in StopsOf(book) /\ slot \notin StopsOf(book')
         /\ book.arena[slot].kind = "StopMarket"
         /\ StopsStay(book, book') /\ book'.last = book.last
         /\ book'.ids = Drop(book.ids, book.arena[slot].id)
<1> DEFINE id  == book.arena[slot].id
           mid == IndexRemove(book, id)
<1>1. slot \in DOMAIN book.arena /\ book' = ArenaRemove(mid, slot)
  BY DEF FireStop
<1>2. Collected(book, {}, Top)
  BY InTrigger
<1>3. 1 \in 1 .. Len(Top.todo[p]) /\ slot = Top.todo[p][1]
  BY <1>2, PoppedCollected
<1>4. book.arena[slot].kind = "StopMarket"
  <2>1. HoldsStop(book, Top.side, p, Top.todo[p][1])
    BY Zenon, <1>1, <1>2, <1>3 DEF Collected
  <2> QED BY Zenon, <1>3, <2>1 DEF HoldsStop
<1>5. BookTypeOK(book) /\ slot \in Slot /\ id \in OrderId
  BY <1>1 DEF Inv, BookSound, BookTypeOK, IsMap, Order
<1> HIDE DEF id
<1>6. /\ BookTypeOK(mid) /\ mid.arena = book.arena /\ mid.ids = Drop(book.ids, id)
      /\ mid.stops = book.stops /\ mid.last = book.last
  <2>1. mid.stops = book.stops /\ mid.last = book.last
    BY <1>5 DEF IndexRemove, BookTypeOK, IsBook
  <2> QED BY <1>5, <2>1, IndexType
<1> HIDE DEF mid
<1>7. /\ book'.arena = Drop(mid.arena, slot) /\ book'.ids = mid.ids
      /\ book'.stops = mid.stops /\ book'.last = mid.last
  <2>1. book'.stops = mid.stops /\ book'.last = mid.last
    BY <1>1, <1>6 DEF ArenaRemove, BookTypeOK, IsBook
  <2> QED BY <1>1, <1>5, <1>6, <2>1, ArenaRemoveType
<1>8. book'.arena = Drop(book.arena, slot)
  BY <1>6, <1>7
<1>9. slot \in StopsOf(book) /\ slot \notin StopsOf(book')
  BY <1>1, <1>4, <1>8 DEF StopsOf, IsStop, Drop
<1> QED BY <1>4, <1>6, <1>7, <1>8, <1>9, SomeGone, FewerStops DEF id

LEMMA WithoutStays ==
  ASSUME Inv, Whole(book, stack), Tame, NEW c \in Commands, Cancel(c) \/ Replace(c),
         c.id \in DOMAIN book.ids, book' = Without(c.id)
  PROVE  StopsStay(book, book') /\ book.arena[book.ids[c.id].slot].kind = "Limit"
<1>1. stack = <<>> /\ c.id \notin StopIdentifiers
  BY DEF Cancel, Replace, Idle, Tame
<1>2. /\ book.arena[book.ids[c.id].slot].kind = "Limit"
      /\ FewerOrders(book, book') /\ book'.stops = book.stops /\ book'.last = book.last
  BY <1>1, WithoutWhole
<1> QED BY <1>2, FewerStops

(***************************************************************************)
(* How deep calls nest.                                                    *)
(***************************************************************************)

\* Every held stop has an id of its own.
LEMMA StopsAreFew ==
  ASSUME NEW b, BookTypeOK(b), NEW taken, OrdersSound(b, taken), IsFiniteSet(OrderId)
  PROVE  /\ IsFiniteSet(StopsOf(b))
         /\ Cardinality(StopsOf(b)) \in Nat /\ Cardinality(OrderId) \in Nat
         /\ Cardinality(StopsOf(b)) <= Cardinality(OrderId)
<1> DEFINE f == [s \in StopsOf(b) |-> b.arena[s].id]
<1>1. ASSUME NEW s \in StopsOf(b)
      PROVE  b.arena[s].id \in OrderId /\ b.ids[b.arena[s].id].slot = s
  <2>1. s \in DOMAIN b.arena /\ IsStop(b.arena[s])
    BY <1>1 DEF StopsOf
  <2>2. s \notin taken /\ b.ids[b.arena[s].id].slot = s
    BY <2>1 DEF OrdersSound
  <2>3. b.arena[s].id \in OrderId
    BY <2>1 DEF BookTypeOK, IsMap, Order
  <2> QED BY <2>2, <2>3
<1>2. f \in [StopsOf(b) -> OrderId]
  BY <1>1
<1>3. \A s, t \in StopsOf(b) : f[s] = f[t] => s = t
  BY <1>1
<1> HIDE DEF f
<1>4. f \in Injection(StopsOf(b), OrderId)
  BY <1>2, <1>3 DEF Injection, IsInjective
<1> QED BY <1>4, FS_Injection, FS_CardinalityType

\* What is left of a stack after a step that nests no call.
LEMMA NoDeeper ==
  ASSUME Inv, stack # <<>>, Return \/ \E frame : Become(frame)
  PROVE  Len(stack) \in Nat /\ Len(stack') \in Nat /\ Len(stack') <= Len(stack)
<1>1. StackSound(stack) /\ Len(stack) \in Nat \ {0}
  BY StackIn DEF Inv
<1>2. Len(stack') = Len(stack) \/ Len(stack') = Len(stack) - 1
  BY <1>1, BecomeShape, ReturnShape DEF Return, Become
<1> QED BY <1>1, <1>2

\* Fewer stops, and calls nested no deeper.
LEMMA RoomStays ==
  ASSUME Inv, Whole(book, stack), IsFiniteSet(OrderId), stack # <<>>,
         Len(stack) + Cardinality(StopsOf(book)) <= Cardinality(OrderId) + 1,
         StopsOf(book') \subseteq StopsOf(book),
         Return \/ \E frame : Become(frame)
  PROVE  Len(stack') + Cardinality(StopsOf(book')) <= Cardinality(OrderId) + 1
<1>1. Len(stack) \in Nat /\ Len(stack') \in Nat /\ Len(stack') <= Len(stack)
  BY NoDeeper
<1>2. /\ IsFiniteSet(StopsOf(book))
      /\ Cardinality(StopsOf(book)) \in Nat /\ Cardinality(OrderId) \in Nat
  BY StopsAreFew DEF Inv, BookSound, Whole
<1>3. /\ Cardinality(StopsOf(book')) \in Nat
      /\ Cardinality(StopsOf(book')) <= Cardinality(StopsOf(book))
  BY <1>2, FS_Subset, FS_CardinalityType
<1> DEFINE n == Len(stack)  m == Len(stack')  k == Cardinality(StopsOf(book))
           l == Cardinality(StopsOf(book'))  c == Cardinality(OrderId)
<1>4. n \in Nat /\ m \in Nat /\ k \in Nat /\ l \in Nat /\ c \in Nat
      /\ m <= n /\ l <= k /\ n + k <= c + 1
  BY <1>1, <1>2, <1>3
<1> HIDE DEF n, m, k, l, c
<1>5. m + l <= c + 1
  BY <1>4
<1> QED BY <1>5 DEF m, l, c

Room == stack # <<>> => Len(stack) + Cardinality(StopsOf(book)) <= Cardinality(OrderId) + 1

LEMMA SameBook ==
  ASSUME NEW b, NEW c, c = b
  PROVE  StopsStay(b, c)
BY DEF StopsStay, SameStop

\* The steps of apply that hold no stop, fire none and leave the trees alone.
Quiet ==
  \/ RejectNew \/ KillFok \/ StartMatch \/ MatchStep \/ FinishFilled \/ Rest \/ CancelRest
  \/ Triggering /\ \E p \in DOMAIN Top.todo : SkipStop(p)

LEMMA QuietStays ==
  ASSUME Inv, Inv', Whole(book, stack), Quiet
  PROVE  StopsStay(book, book') /\ stack # <<>> /\ (Return \/ \E frame : Become(frame))
<1>1. CASE RejectNew \/ KillFok
  BY <1>1, SameBook DEF RejectNew, KillFok, In
<1>2. CASE StartMatch
  BY <1>2, StartMatchStays DEF StartMatch, In
<1>3. CASE MatchStep
  BY <1>3, FillMakerStays, CutMakerStays
     DEF MatchStep, FillMaker, CutMaker, CountFill, Matching, In
<1>4. CASE FinishFilled \/ CancelRest
  BY <1>4, LeaveStays DEF FinishFilled, CancelRest, ThenStops, Matching, In
<1>5. CASE Rest
  BY <1>5, RestStays DEF Rest, ThenStops, Matching, In
<1>6. CASE Triggering /\ \E p \in DOMAIN Top.todo : SkipStop(p)
  BY <1>6, SameBook DEF SkipStop, Triggering, In
<1> QED BY <1>1, <1>2, <1>3, <1>4, <1>5, <1>6 DEF Quiet

LEMMA ApplyIs ==
  ASSUME Apply
  PROVE  \/ Quiet \/ HoldStop \/ EndStops
         \/ Triggering /\ \E p \in DOMAIN Top.todo : NextTrigger(p) /\ FireStop(p)
BY DEF Apply, Quiet, VisitStop

\* Only a client's own order is held: what a stop turns into is no stop.
LEMMA HeldAtOnce ==
  ASSUME Inv, Whole(book, stack), In("apply_new"), IsStop(Top.order)
  PROVE  Len(stack) = 1
<1>1. Len(stack) \in Nat \ {0} /\ FrameSound(book, Top, Len(stack)) /\ Top.call = "apply_new"
  BY InCall
<1> DEFINE n == Len(stack)
<1>2. ~(n > 1)
  BY <1>1 DEF FrameSound, IsStop
<1>3. n \in Nat \ {0}
  BY <1>1
<1> HIDE DEF n
<1>4. n = 1
  BY <1>2, <1>3
<1> QED BY <1>4 DEF n

LEMMA ReturnOfFirst ==
  ASSUME Inv, stack # <<>>, Len(stack) = 1, Return
  PROVE  stack' = <<>>
<1>1. StackSound(stack)
  BY DEF Inv
<1> DEFINE n == Len(stack)
<1>2. StackSound(stack') /\ Len(stack') = n - 1
  BY <1>1, ReturnShape, ReturnSound DEF Return
<1>3. n = 1
  OBVIOUS
<1> HIDE DEF n
<1>4. Len(stack') = 0
  BY <1>2, <1>3
<1> QED BY <1>2, <1>4, StackIn

LEMMA IdleRoom ==
  ASSUME Inv', Whole(book', stack'), IsFiniteSet(OrderId), Receive \/ Deliver
  PROVE  Room'
<1>1. stack' = <<>> \/ \E frame : stack' = <<frame>>
  BY Zenon DEF Receive, Deliver, New, Cancel, Replace, Refuse, Idle
<1>2. ASSUME stack' # <<>>
      PROVE  Len(stack') + Cardinality(StopsOf(book')) <= Cardinality(OrderId) + 1
  <2>1. Len(stack') = 1
    BY <1>1, <1>2
  <2>2. /\ Cardinality(StopsOf(book')) \in Nat /\ Cardinality(OrderId) \in Nat
        /\ Cardinality(StopsOf(book')) <= Cardinality(OrderId)
    BY StopsAreFew DEF Inv, BookSound, Whole
  <2> QED BY <2>1, <2>2
<1> QED BY <1>2 DEF Room

\* A stop that fires makes room for the call it nests.
LEMMA FireRoom ==
  ASSUME Inv, Whole(book, stack), IsFiniteSet(OrderId), Room,
         Triggering, NEW p \in DOMAIN Top.todo, FireStop(p)
  PROVE  Room'
<1>1. PICK slot : slot = Head(Top.todo[p])
  OBVIOUS
<1>2. slot \in StopsOf(book) /\ slot \notin StopsOf(book') /\ StopsStay(book, book')
  BY <1>1, FireStopStays
<1>3. StopsOf(book') \subseteq StopsOf(book) \ {slot}
  BY <1>2 DEF StopsStay
<1>4. /\ IsFiniteSet(StopsOf(book))
      /\ Cardinality(StopsOf(book)) \in Nat /\ Cardinality(OrderId) \in Nat
  BY StopsAreFew DEF Inv, BookSound, Whole
<1>5. /\ IsFiniteSet(StopsOf(book) \ {slot})
      /\ Cardinality(StopsOf(book) \ {slot}) = Cardinality(StopsOf(book)) - 1
  BY <1>2, <1>4, FS_RemoveElement
<1>6. /\ Cardinality(StopsOf(book')) \in Nat
      /\ Cardinality(StopsOf(book')) <= Cardinality(StopsOf(book)) - 1
  BY <1>3, <1>5, FS_Subset, FS_CardinalityType
<1>7. stack # <<>> /\ StackSound(stack) /\ Len(stack) \in Nat \ {0}
  BY InTrigger
<1>8. Len(stack') = Len(stack) + 1
  <2> DEFINE below == [stack EXCEPT ![Len(stack)] = Popped(p)]
  <2>1. StackSound(below) /\ below # <<>>
    BY <1>7, PoppedFrame, BecomeSound
  <2>2. Len(below) = Len(stack)
    BY <1>7, BecomeShape
  <2>3. \E callee : stack' = Append(below, callee)
    BY Zenon DEF FireStop, CallFrom
  <2> HIDE DEF below
  <2> QED BY <2>1, <2>2, <2>3, PushShape
<1> DEFINE n == Len(stack)  m == Len(stack')  k == Cardinality(StopsOf(book))
           l == Cardinality(StopsOf(book'))  c == Cardinality(OrderId)
<1>9. n \in Nat /\ m = n + 1 /\ k \in Nat /\ l \in Nat /\ c \in Nat
      /\ l <= k - 1 /\ n + k <= c + 1
  BY <1>4, <1>6, <1>7, <1>8 DEF Room
<1> HIDE DEF n, m, k, l, c
<1>10. m + l <= c + 1
  BY <1>9
<1> QED BY <1>10 DEF m, l, c, Room

LEMMA RoomStep ==
  ASSUME Inv, Inv', Whole(book, stack), Whole(book', stack'), IsFiniteSet(OrderId),
         Room, [Next]_vars
  PROVE  Room'
<1>1. CASE Quiet
  <2>1. StopsOf(book') \subseteq StopsOf(book)
    BY <1>1, QuietStays DEF StopsStay
  <2> QED BY <1>1, <2>1, QuietStays, RoomStays DEF Room
<1>2. CASE HoldStop
  <2>1. stack' = <<>>
    BY <1>2, HeldAtOnce, ReturnOfFirst DEF HoldStop, In
  <2> QED BY <2>1 DEF Room
<1>3. CASE EndStops
  <2>1. stack # <<>> /\ (Return \/ \E frame : Become(frame))
    BY <1>3 DEF EndStops, Triggering, In
  <2>2. book'.arena = book.arena
    BY <1>3 DEF EndStops, Inv, BookSound, BookTypeOK, IsBook
  <2>3. StopsOf(book') \subseteq StopsOf(book)
    BY <2>2 DEF StopsOf
  <2> QED BY <2>1, <2>3, RoomStays DEF Room
<1>4. CASE Triggering /\ \E p \in DOMAIN Top.todo : NextTrigger(p) /\ FireStop(p)
  BY <1>4, FireRoom
<1>5. CASE Receive \/ Deliver
  BY <1>5, IdleRoom
<1>6. CASE UNCHANGED vars
  BY <1>6 DEF vars, Room
<1> QED BY <1>1, <1>2, <1>3, <1>4, <1>5, <1>6, ApplyIs DEF Next

\* However stops fire each other, apply never nests more calls than there are
\* ids: every nested call has taken a stop of its own out of the book.
THEOREM NestingIsBounded ==
  ASSUME Tame, IsFiniteSet(OrderId)
  PROVE  Spec => []BoundedCalls
<1>1. Init => Room
  BY DEF Init, Room
<1>2. Inv /\ Whole(book, stack) /\ (Inv /\ Whole(book, stack))' /\ Room /\ [Next]_vars => Room'
  BY RoomStep
<1>3. Inv /\ Whole(book, stack) /\ Room => BoundedCalls
  <2> SUFFICES ASSUME Inv, Whole(book, stack), Room PROVE BoundedCalls
    OBVIOUS
  <2>1. /\ Cardinality(StopsOf(book)) \in Nat /\ Cardinality(OrderId) \in Nat
    BY StopsAreFew DEF Inv, BookSound, Whole
  <2>2. Len(stack) \in Nat
    BY DEF Inv, StackSound, StackOK
  <2>3. stack = <<>> => Len(stack) = 0
    OBVIOUS
  <2> QED BY <2>1, <2>2, <2>3 DEF Room, BoundedCalls
<1> QED BY <1>1, <1>2, <1>3, WholeHolds, PTL DEF Spec

(***************************************************************************)
(* No stop that was reached is left behind. Every stop waits in its tree;  *)
(* a call of trigger_stops still has before it all stops its trade         *)
(* reached; and a nested call ends with trigger_stops at the last trade.   *)
(***************************************************************************)

Due(b, s) == Reached(b.arena[s].side, b.last, b.arena[s].stop_price)

Drained(b) == \A s \in StopsOf(b) : ~Due(b, s)

\* A tree of stops, or what trigger_stops has collected of one, has s at p.
Has(tree, p, s) == p \in DOMAIN tree /\ \E i \in 1 .. Len(tree[p]) : tree[p][i] = s

LEMMA HasKept ==
  ASSUME NEW tree, NEW keys, NEW p \in keys, NEW s, Has(tree, p, s)
  PROVE  Has(Keep(tree, keys), p, s)
<1>1. p \in DOMAIN tree
  BY DEF Has
<1>2. p \in DOMAIN Keep(tree, keys) /\ Keep(tree, keys)[p] = tree[p]
  BY <1>1 DEF Keep
<1> QED BY <1>2 DEF Has

\* Every stop is in the tree of its side, and has something to fill.
Planted(b) ==
  \A s \in StopsOf(b) :
    /\ b.arena[s].remaining # 0
    /\ Has(b.stops[b.arena[s].side], b.arena[s].stop_price, s)

\* A call of trigger_stops still has before it all stops its trade reached.
Awaits(b, frame) ==
  \A s \in StopsOf(b) :
    (b.arena[s].side = frame.side /\ Reached(frame.side, frame.last, b.arena[s].stop_price))
      => Has(frame.todo, b.arena[s].stop_price, s)

AwaitsAll(b, calls) ==
  \A j \in 1 .. Len(calls) : calls[j].call = "trigger_stops" => Awaits(b, calls[j])

\* Nothing is due any more; or no stop has fired yet, so that the call goes by
\* the last trade, and if it has come to the sells there is no buy left.
Swept(b, frame) ==
  \/ Drained(b)
  \/ /\ frame.last = b.last
     /\ frame.side = "Sell" => \A s \in StopsOf(b) : b.arena[s].side = "Buy" => ~Due(b, s)

\* apply_new will not refuse what a stop turns into, and holds no stop but the
\* one a client has just sent.
Expects(b, no, depth, c) ==
  /\ depth > 1 => no.qty # 0 /\ no.id \notin DOMAIN b.ids /\ no.kind = "Market"
  /\ IsStop(no) => c.op = "New" /\ IsStop(c.order)

\* The innermost call. A nested one follows a trade.
CallDrains(b, calls, c) ==
  LET frame == calls[Len(calls)]
  IN  calls # <<>> =>
        /\ Len(calls) > 1 => b.last # None
        /\ frame.call = "trigger_stops" => b.last # None /\ Swept(b, frame)
        /\ frame.call = "apply_new" => Expects(b, frame.order, Len(calls), c)

StopsWait(b, calls, c) == Planted(b) /\ AwaitsAll(b, calls) /\ CallDrains(b, calls, c)

LEMMA PlantedStays ==
  ASSUME NEW b, NEW c, StopsStay(b, c), Planted(b)
  PROVE  Planted(c)
BY DEF StopsStay, SameStop, Planted

LEMMA AwaitsStays ==
  ASSUME NEW b, NEW c, StopsStay(b, c), NEW frame, Awaits(b, frame)
  PROVE  Awaits(c, frame)
BY DEF StopsStay, SameStop, Awaits

\* Every frame of trigger_stops is an old one, or awaits what it should.
FramesAwait(calls, new, c) ==
  \A j \in 1 .. Len(new) :
    new[j].call = "trigger_stops" =>
      (j \in 1 .. Len(calls) /\ new[j] = calls[j]) \/ Awaits(c, new[j])

LEMMA AllAwait ==
  ASSUME NEW b, NEW c, StopsStay(b, c), NEW calls, AwaitsAll(b, calls),
         NEW new, FramesAwait(calls, new, c)
  PROVE  AwaitsAll(c, new)
BY AwaitsStays DEF AwaitsAll, FramesAwait

LEMMA SwapAwaits ==
  ASSUME NEW calls, StackSound(calls), calls # <<>>, NEW frame, NEW c,
         frame.call = "trigger_stops" => Awaits(c, frame),
         NEW new, new = [calls EXCEPT ![Len(calls)] = frame]
  PROVE  FramesAwait(calls, new, c)
<1>1. /\ Len(new) = Len(calls)
      /\ \A i \in 1 .. Len(calls) : new[i] = IF i = Len(calls) THEN frame ELSE calls[i]
  BY BecomeShape
<1> QED BY <1>1 DEF FramesAwait

LEMMA ReturnAwaits ==
  ASSUME NEW calls, StackSound(calls), calls # <<>>, NEW c,
         NEW new, new = SubSeq(calls, 1, Len(calls) - 1)
  PROVE  FramesAwait(calls, new, c)
<1> DEFINE n == Len(calls)
<1>1. Len(new) = n - 1 /\ n \in Nat \ {0} /\ \A i \in 1 .. n - 1 : new[i] = calls[i]
  BY ReturnShape, StackIn
<1> HIDE DEF n
<1>2. \A i \in 1 .. n - 1 : i \in 1 .. n
  BY <1>1
<1> QED BY <1>1, <1>2 DEF FramesAwait, n

LEMMA PushAwaits ==
  ASSUME NEW calls, NEW below, StackSound(below), below # <<>>,
         NEW callee, callee.call # "trigger_stops", NEW new, new = Append(below, callee),
         NEW c, FramesAwait(calls, below, c)
  PROVE  FramesAwait(calls, new, c)
<1> DEFINE n == Len(below)
<1>1. /\ Len(new) = n + 1 /\ n \in Nat \ {0}
      /\ \A i \in 1 .. n : new[i] = below[i]
      /\ new[n + 1] = callee
  BY PushShape, StackIn
<1> HIDE DEF n
<1>2. \A i \in 1 .. n + 1 : i # n + 1 => i \in 1 .. n
  BY <1>1
<1>3. \A j \in 1 .. n : below[j].call = "trigger_stops" =>
        (j \in 1 .. Len(calls) /\ below[j] = calls[j]) \/ Awaits(c, below[j])
  BY DEF FramesAwait, n
<1> QED BY <1>1, <1>2, <1>3 DEF FramesAwait

\* trigger_stops collects all stops of its side that its trade reached.
LEMMA TriggerAwaits ==
  ASSUME NEW b, Planted(b), NEW side, NEW last
  PROVE  Awaits(b, TriggerStops(b, side, last))
<1> DEFINE hit   == {p \in DOMAIN b.stops[side] : Reached(side, last, p)}
           frame == TriggerStops(b, side, last)
<1>1. /\ frame.side = side /\ frame.last = last
      /\ frame.todo = Keep(b.stops[side], hit)
  BY DEF TriggerStops
<1>2. /\ DOMAIN frame.todo = hit
      /\ \A p \in hit : frame.todo[p] = b.stops[side][p]
  BY <1>1 DEF Keep
<1>3. \A p \in DOMAIN b.stops[side] : Reached(side, last, p) => p \in hit
  OBVIOUS
<1> HIDE DEF hit, frame
<1>4. Awaits(b, frame)
  <2> SUFFICES ASSUME NEW s \in StopsOf(b), b.arena[s].side = side,
                      Reached(side, last, b.arena[s].stop_price)
               PROVE  Has(frame.todo, b.arena[s].stop_price, s)
    BY Zenon, <1>1 DEF Awaits
  <2>1. Has(b.stops[side], b.arena[s].stop_price, s)
    BY Zenon DEF Planted
  <2>2. b.arena[s].stop_price \in hit
    BY Zenon, <1>3, <2>1 DEF Has
  <2> QED BY Zenon, <1>1, <2>1, <2>2, HasKept
<1> QED BY <1>4 DEF frame

\* A frame that has passed over a slot awaits every stop but one in that slot.
LEMMA PoppedAwaits ==
  ASSUME Inv, Triggering, NEW p \in DOMAIN Top.todo,
         NEW b, Awaits(b, Top), Head(Top.todo[p]) \notin StopsOf(b)
  PROVE  Awaits(b, Popped(p))
<1> DEFINE todo == Top.todo
           left == IF Len(todo[p]) = 1 THEN Drop(todo, p) ELSE Put(todo, p, Tail(todo[p]))
<1>1. FrameOK(Top) /\ Top.call = "trigger_stops"
  BY InvType, TopType DEF Triggering, In
<1>2. /\ Top = [call |-> "trigger_stops", side |-> Top.side, last |-> Top.last, todo |-> todo]
      /\ IsMap(todo, Price, Seq(Slot) \ {<<>>})
  BY <1>1 DEF FrameOK, ApplyNew, MatchOrder
<1>3. Popped(p) = [Top EXCEPT !.todo = left]
  BY DEF Popped
<1> HIDE DEF todo
<1>4. todo[p] \in Seq(Slot) /\ todo[p] # <<>>
  BY <1>2 DEF IsMap, todo
<1>5. Len(todo[p]) \in Nat \ {0} /\ Head(todo[p]) = todo[p][1]
  BY <1>4, EmptySeq
<1>6. ASSUME NEW q, NEW s, Has(todo, q, s), s # Head(todo[p])
      PROVE  Has(left, q, s)
  <2>1. PICK i \in 1 .. Len(todo[q]) : todo[q][i] = s
    BY <1>6 DEF Has
  <2>2. CASE q # p
    BY <1>6, <2>2 DEF Has, Drop, Put
  <2>3. CASE q = p
    <3> DEFINE n == Len(todo[p])
    <3>1. n \in Nat \ {0} /\ i \in 1 .. n /\ i # 1
      BY <1>5, <1>6, <2>1, <2>3
    <3>2. Len(Tail(todo[p])) = n - 1 /\ \A j \in 1 .. n - 1 : Tail(todo[p])[j] = todo[p][j + 1]
      BY <1>4, <1>5
    <3>3. n # 1 => left = Put(todo, p, Tail(todo[p]))
      OBVIOUS
    <3> HIDE DEF n, left
    <3>4. n # 1 /\ i - 1 \in 1 .. n - 1 /\ i - 1 + 1 = i
      BY <3>1
    <3>5. Tail(todo[p])[i - 1] = s
      BY <2>1, <2>3, <3>2, <3>4
    <3>6. p \in DOMAIN left /\ left[p] = Tail(todo[p])
      BY <3>3, <3>4 DEF Put
    <3> QED BY <2>3, <3>2, <3>4, <3>5, <3>6 DEF Has
  <2> QED BY <2>2, <2>3
<1> HIDE DEF left
<1>7. Popped(p) = [call |-> "trigger_stops", side |-> Top.side, last |-> Top.last, todo |-> left]
  BY <1>2, <1>3
<1>8. /\ Popped(p).side = Top.side /\ Popped(p).last = Top.last
      /\ Popped(p).todo = left
  BY <1>7
<1> QED BY <1>6, <1>8 DEF Awaits, todo

\* The innermost call awaits what all do.
LEMMA TopAwaits ==
  ASSUME Inv, Whole(book, stack), Triggering, AwaitsAll(book, stack)
  PROVE  Awaits(book, Top)
<1>1. /\ stack # <<>> /\ stack[Len(stack)] = Top /\ Top.call = "trigger_stops"
      /\ StackSound(stack)
  BY InTrigger
<1>2. Len(stack) \in 1 .. Len(stack)
  BY <1>1, StackIn
<1> QED BY <1>1, <1>2 DEF AwaitsAll

\* A quiet step puts no call of trigger_stops on the stack that has not before
\* it what its trade reached.
LEMMA QuietAwaits ==
  ASSUME Inv, Inv', Whole(book, stack), Quiet, Planted(book), AwaitsAll(book, stack)
  PROVE  Planted(book') /\ AwaitsAll(book', stack')
<1>1. StopsStay(book, book') /\ stack # <<>> /\ (Return \/ \E frame : Become(frame))
  BY QuietStays
<1>2. StackSound(stack)
  BY DEF Inv
<1>3. Awaits(book', TriggerStops(book, "Buy", book.last))
  BY <1>1, TriggerAwaits, AwaitsStays
<1>4. \/ Return
      \/ \E frame : Become(frame) /\ (frame.call = "trigger_stops" => Awaits(book', frame))
  <2>1. CASE RejectNew \/ KillFok
    BY <2>1 DEF RejectNew, KillFok
  <2>2. CASE StartMatch
    BY <2>2 DEF StartMatch, MatchOrder
  <2>3. CASE MatchStep
    <3>1. PICK qty : Become([Top EXCEPT !.filled = qty])
      BY <2>3 DEF MatchStep, FillMaker, CutMaker, CountFill
    <3>2. FrameOK(Top) /\ Top.call = "match_order"
      BY <1>1, <2>3, InvType, TopType DEF MatchStep, Matching, In
    <3>3. [Top EXCEPT !.filled = qty].call = "match_order"
      BY <3>2 DEF FrameOK, ApplyNew, MatchOrder
    <3> QED BY <3>1, <3>3
  <2>4. CASE FinishFilled \/ Rest \/ CancelRest
    BY <1>3, <2>4 DEF FinishFilled, Rest, CancelRest, ThenStops
  <2>5. CASE Triggering /\ \E p \in DOMAIN Top.todo : SkipStop(p)
    <3>1. PICK p \in DOMAIN Top.todo : SkipStop(p)
      BY <2>5
    <3>2. Become(Popped(p)) /\ book' = book /\ Head(Top.todo[p]) \notin StopsOf(book)
      BY <3>1 DEF SkipStop, StopsOf
    <3>3. Awaits(book, Popped(p))
      BY <2>5, <3>2, TopAwaits, PoppedAwaits
    <3> QED BY <3>2, <3>3
  <2> QED BY <2>1, <2>2, <2>3, <2>4, <2>5 DEF Quiet
<1>5. FramesAwait(stack, stack', book')
  <2>1. CASE Return
    BY <1>1, <1>2, <2>1, ReturnAwaits DEF Return
  <2>2. CASE \E frame : Become(frame) /\ (frame.call = "trigger_stops" => Awaits(book', frame))
    BY <1>1, <1>2, <2>2, SwapAwaits DEF Become
  <2> QED BY <1>4, <2>1, <2>2
<1> QED BY <1>1, <1>5, PlantedStays, AllAwait

\* Whatever a tree of b has at some trigger, that of c has there.
TreesKeep(b, c) ==
  \A side \in Side : \A p, s : Has(b.stops[side], p, s) => Has(c.stops[side], p, s)

\* A stop that is held is in the tree, and those that were there still are.
LEMMA StopKept ==
  ASSUME NEW b, BookTypeOK(b), NEW side \in Side, NEW trigger, NEW slot \in Slot,
         NEW c, c = HoldStopAt(b, side, trigger, slot)
  PROVE  /\ Has(c.stops[side], trigger, slot)
         /\ TreesKeep(b, c)
<1> DEFINE held == IF trigger \in DOMAIN b.stops[side] THEN b.stops[side][trigger] ELSE <<>>
           list == Append(held, slot)
<1>1. c.stops = [b.stops EXCEPT ![side] = Put(b.stops[side], trigger, list)]
  <2> DEFINE tree  == Put(b.stops[side], trigger, list)
             lists == [b.stops EXCEPT ![side] = tree]
  <2>1. c = [b EXCEPT !.stops = lists]
    BY DEF HoldStopAt
  <2> HIDE DEF lists
  <2>2. c.stops = lists
    BY <2>1 DEF BookTypeOK, IsBook
  <2>3. c.stops = [b.stops EXCEPT ![side] = tree]
    <3> HIDE DEF tree
    <3> QED BY <2>2 DEF lists
  <2> QED BY <2>3
<1>2. DOMAIN b.stops = Side /\ held \in Seq(Slot)
  <2>1. DOMAIN b.stops = Side /\ IsMap(b.stops[side], Price, Seq(Slot) \ {<<>>})
    BY DEF BookTypeOK
  <2>2. trigger \in DOMAIN b.stops[side] => b.stops[side][trigger] \in Seq(Slot)
    BY <2>1 DEF IsMap
  <2>3. <<>> \in Seq(Slot)
    OBVIOUS
  <2> QED BY <2>1, <2>2, <2>3
<1>3. /\ Len(list) = Len(held) + 1 /\ Len(held) \in Nat
      /\ \A j \in 1 .. Len(held) : list[j] = held[j]
      /\ list[Len(held) + 1] = slot
  <2> HIDE DEF held
  <2> QED BY <1>2, AppendProperties
<1>4. trigger \in DOMAIN b.stops[side] => held = b.stops[side][trigger]
  OBVIOUS
<1> HIDE DEF list, held
<1>5. /\ trigger \in DOMAIN c.stops[side] /\ c.stops[side][trigger] = list
      /\ \A p \in DOMAIN b.stops[side] :
           p \in DOMAIN c.stops[side] /\ (p # trigger => c.stops[side][p] = b.stops[side][p])
      /\ \A d \in Side : d # side => c.stops[d] = b.stops[d]
  BY <1>1, <1>2 DEF Put
<1>6. Has(c.stops[side], trigger, slot)
  BY <1>3, <1>5 DEF Has
<1>7. ASSUME NEW d \in Side, NEW p, NEW s, Has(b.stops[d], p, s)
      PROVE  Has(c.stops[d], p, s)
  <2>1. CASE d # side \/ p # trigger
    BY <1>5, <1>7, <2>1 DEF Has
  <2>2. CASE d = side /\ p = trigger
    <3>1. PICK i \in 1 .. Len(held) : held[i] = s
      BY <1>4, <1>7, <2>2 DEF Has
    <3>2. i \in 1 .. Len(list) /\ list[i] = s
      BY <1>3, <3>1
    <3> QED BY <1>5, <2>2, <3>2 DEF Has
  <2> QED BY <2>1, <2>2
<1> QED BY <1>6, <1>7 DEF TreesKeep

\* The stop that is held waits in its tree.
LEMMA HoldStopAwaits ==
  ASSUME Inv, Whole(book, stack), HoldStop, Planted(book)
  PROVE  Planted(book') /\ stack' = <<>> /\ book'.last = book.last
<1> DEFINE no    == Top.order
           order == OrderOf(no)
           slot  == VacantSlot(book)
           loc   == [slot |-> slot, side |-> no.side, price |-> no.stop_price]
           put   == ArenaInsert(book, order)
           known == IndexInsert(put, no.id, loc)
<1>1. /\ In("apply_new") /\ Refusal(no) = None /\ IsStop(no)
      /\ book' = HoldStopAt(known, no.side, no.stop_price, slot)
  BY DEF HoldStop
<1>2. no \in NewOrder /\ order \in Order
  BY <1>1, AcceptedType
<1>3. no.qty # 0
  BY <1>1, ReasonAssumption DEF Refusal
<1>4. /\ order.side = no.side /\ order.stop_price = no.stop_price /\ order.remaining = no.qty
      /\ no.id \in OrderId /\ no.side \in Side /\ no.stop_price \in Price
  BY <1>2 DEF OrderOf, NewOrder
<1> HIDE DEF no, order
<1>5. /\ slot \notin DOMAIN book.arena /\ slot \in Slot
      /\ DOMAIN put.arena = DOMAIN book.arena \cup {slot} /\ put.arena[slot] = order
      /\ \A s \in DOMAIN book.arena : put.arena[s] = book.arena[s]
      /\ put.stops = book.stops
      /\ BookTypeOK(put)
  BY <1>2, ArenaGains DEF Inv
<1>6. put.last = book.last
  BY DEF ArenaInsert, Inv, BookSound, BookTypeOK, IsBook
<1>7. loc \in Location
  BY <1>4, <1>5 DEF Location
<1> HIDE DEF put, slot, loc
<1>8. /\ BookTypeOK(known) /\ known.arena = put.arena /\ known.stops = book.stops
      /\ known.last = book.last
  <2>1. known.stops = put.stops /\ known.last = put.last
    BY <1>5 DEF IndexInsert, BookTypeOK, IsBook
  <2> QED BY <1>4, <1>5, <1>6, <1>7, <2>1, IndexType
<1> HIDE DEF known
<1>9. book'.arena = put.arena
  BY <1>1, <1>4, <1>5, <1>8, HoldStopType
<1>10. book'.last = book.last
  BY <1>1, <1>8 DEF HoldStopAt, BookTypeOK, IsBook
<1>11. /\ Has(book'.stops[no.side], no.stop_price, slot)
       /\ TreesKeep(book, book')
  <2>1. /\ Has(book'.stops[no.side], no.stop_price, slot)
        /\ TreesKeep(known, book')
    BY <1>1, <1>4, <1>5, <1>8, StopKept
  <2> QED BY <1>8, <2>1 DEF TreesKeep
<1>12. ASSUME NEW s \in StopsOf(book')
       PROVE  /\ book'.arena[s].remaining # 0
              /\ Has(book'.stops[book'.arena[s].side], book'.arena[s].stop_price, s)
  <2>1. CASE s = slot
    BY <1>3, <1>4, <1>5, <1>9, <1>11, <2>1
  <2>2. CASE s # slot
    <3>1. s \in StopsOf(book) /\ book'.arena[s] = book.arena[s] /\ s \in DOMAIN book.arena
      BY <1>5, <1>9, <1>12, <2>2 DEF StopsOf
    <3>2. book.arena[s].side \in Side
      BY <3>1 DEF Inv, BookSound, BookTypeOK, IsMap, Order
    <3> QED BY <1>11, <3>1, <3>2 DEF Planted, TreesKeep
  <2> QED BY <2>1, <2>2
<1>13. Planted(book')
  BY <1>12 DEF Planted
<1>14. stack' = <<>>
  BY HeldAtOnce, ReturnOfFirst DEF HoldStop, In
<1> QED BY <1>10, <1>13, <1>14

LEMMA FireStopAwaits ==
  ASSUME Inv, Whole(book, stack), Triggering, NEW p \in DOMAIN Top.todo, FireStop(p),
         Planted(book), AwaitsAll(book, stack)
  PROVE  Planted(book') /\ AwaitsAll(book', stack')
<1> DEFINE below == [stack EXCEPT ![Len(stack)] = Popped(p)]
<1>1. PICK callee : stack' = Append(below, callee) /\ callee.call = "apply_new"
  <2>1. \E order : stack' = Append(below, ApplyNew(order))
    BY Zenon DEF FireStop, CallFrom
  <2> QED BY <2>1 DEF ApplyNew
<1>2. PICK slot : slot = Head(Top.todo[p])
  OBVIOUS
<1>3. StopsStay(book, book') /\ slot \notin StopsOf(book')
  BY <1>2, FireStopStays
<1>4. Awaits(book', Top)
  BY <1>3, TopAwaits, AwaitsStays
<1>5. Awaits(book', Popped(p))
  BY <1>2, <1>3, <1>4, PoppedAwaits
<1>6. stack # <<>> /\ StackSound(stack)
  BY InTrigger
<1>7. StackSound(below) /\ below # <<>>
  BY <1>6, PoppedFrame, BecomeSound
<1>8. FramesAwait(stack, below, book')
  BY <1>5, <1>6, SwapAwaits
<1> HIDE DEF below
<1>9. FramesAwait(stack, stack', book')
  BY <1>1, <1>7, <1>8, PushAwaits
<1> QED BY <1>3, <1>9, PlantedStays, AllAwait

\* When all that was collected has been visited no stop of the side that the
\* trade reached is left, and only its triggers leave the tree.
LEMMA EndStopsAwaits ==
  ASSUME Inv, Whole(book, stack), EndStops, Planted(book), AwaitsAll(book, stack)
  PROVE  /\ Planted(book') /\ AwaitsAll(book', stack')
         /\ book'.arena = book.arena /\ book'.last = book.last
         /\ \A s \in StopsOf(book) :
              book.arena[s].side = Top.side
                => ~Reached(Top.side, Top.last, book.arena[s].stop_price)
<1> DEFINE far   == {p \in DOMAIN book.stops[Top.side] : ~Reached(Top.side, Top.last, p)}
           frame == TriggerStops(book, "Sell", Top.last)
<1>1. Triggering /\ DOMAIN Top.todo = {}
  BY DEF EndStops
<1>2. /\ stack # <<>> /\ StackSound(stack) /\ Top.side \in Side
  BY <1>1, InTrigger
<1>3. BookTypeOK(book) /\ DOMAIN book.stops = Side
  BY DEF Inv, BookSound, BookTypeOK
<1>4. book' = [book EXCEPT !.stops[Top.side] = Keep(@, far)]
  BY DEF EndStops
<1>5. \A p \in DOMAIN book.stops[Top.side] : ~Reached(Top.side, Top.last, p) => p \in far
  OBVIOUS
<1> HIDE DEF far
<1>6. /\ book'.stops = [book.stops EXCEPT ![Top.side] = Keep(@, far)]
      /\ book'.arena = book.arena /\ book'.last = book.last
  BY <1>3, <1>4 DEF BookTypeOK, IsBook
<1>7. ASSUME NEW s \in StopsOf(book), book.arena[s].side = Top.side
      PROVE  ~Reached(Top.side, Top.last, book.arena[s].stop_price)
  BY <1>1, <1>7, TopAwaits DEF Awaits, Has
<1>8. Planted(book')
  <2> SUFFICES ASSUME NEW s \in StopsOf(book)
               PROVE  /\ book.arena[s].remaining # 0
                      /\ Has(book'.stops[book.arena[s].side], book.arena[s].stop_price, s)
    BY <1>6 DEF Planted, StopsOf
  <2>1. /\ book.arena[s].remaining # 0
        /\ Has(book.stops[book.arena[s].side], book.arena[s].stop_price, s)
    BY DEF Planted
  <2>2. book.arena[s].side \in Side
    BY <1>3 DEF StopsOf, BookTypeOK, IsMap, Order
  <2>3. CASE book.arena[s].side = Top.side
    <3>1. book'.stops[Top.side] = Keep(book.stops[Top.side], far)
      BY <1>2, <1>3, <1>6
    <3>2. book.arena[s].stop_price \in far
      BY <1>5, <1>7, <2>1, <2>3 DEF Has
    <3> QED BY Zenon, <2>1, <2>3, <3>1, <3>2, HasKept
  <2>4. CASE book.arena[s].side # Top.side
    BY <1>2, <1>3, <1>6, <2>1, <2>2, <2>4
  <2> QED BY <2>1, <2>3, <2>4
<1>9. Awaits(book', frame)
  <2>1. Awaits(book, frame)
    BY TriggerAwaits
  <2> HIDE DEF frame
  <2> QED BY <1>6, <2>1 DEF Awaits, StopsOf
<1>10. FramesAwait(stack, stack', book')
  <2>1. CASE Top.side = "Buy"
    <3>1. stack' = [stack EXCEPT ![Len(stack)] = frame]
      BY <2>1 DEF EndStops, Become
    <3> HIDE DEF frame
    <3> QED BY <1>2, <1>9, <3>1, SwapAwaits
  <2>2. CASE Top.side # "Buy"
    BY <1>2, <2>2, ReturnAwaits DEF EndStops, Return
  <2> QED BY <2>1, <2>2
<1>11. AwaitsAll(book', stack')
  <2>1. ASSUME NEW f, Awaits(book, f) PROVE Awaits(book', f)
    BY <1>6, <2>1 DEF Awaits, StopsOf
  <2> QED BY <1>10, <2>1 DEF AwaitsAll, FramesAwait
<1> QED BY <1>6, <1>7, <1>8, <1>11

(***************************************************************************)
(* The events of a command.                                                *)
(***************************************************************************)

Recorded == \E S : out \in Seq(S)

LEMMA EmitSeq ==
  ASSUME NEW S, NEW o \in Seq(S), NEW T, NEW e \in Seq(T)
  PROVE  /\ o \o e \in Seq(S \cup T) /\ Len(o \o e) = Len(o) + Len(e)
         /\ Len(o) \in Nat /\ Len(e) \in Nat
         /\ \A i \in 1 .. Len(e) : (o \o e)[Len(o) + i] = e[i]
<1>1. o \in Seq(S \cup T) /\ e \in Seq(S \cup T)
  OBVIOUS
<1>2. /\ o \o e \in Seq(S \cup T) /\ Len(o \o e) = Len(o) + Len(e)
      /\ Len(o) \in Nat /\ Len(e) \in Nat
  BY <1>1
<1> QED BY <1>1, <1>2

\* A command that is refused has an event that says so.
LEMMA RejectedEmitted ==
  ASSUME Recorded, NEW T, NEW e \in Seq(T), Emit(e),
         NEW i \in 1 .. Len(e), e[i].event = "Rejected"
  PROVE  Events("Rejected")' # {}
<1>1. PICK S : out \in Seq(S)
  BY DEF Recorded
<1> DEFINE n == Len(out)  m == Len(e)
<1>2. /\ out' \in Seq(S \cup T) /\ Len(out') = n + m
      /\ n \in Nat /\ m \in Nat /\ out'[n + i] = e[i]
  BY <1>1, EmitSeq DEF Emit
<1>3. DOMAIN out' = 1 .. n + m
  BY <1>2
<1>4. i \in 1 .. m
  OBVIOUS
<1> HIDE DEF n, m
<1>5. n + i \in 1 .. n + m
  BY <1>2, <1>4
<1> QED BY <1>2, <1>3, <1>5 DEF Events

LEMMA EmitRecords ==
  ASSUME Recorded, NEW T, NEW e \in Seq(T), Emit(e)
  PROVE  Recorded'
BY EmitSeq DEF Recorded, Emit

LEMMA StepRecords ==
  ASSUME Recorded, [Next]_vars
  PROVE  Recorded'
<1>1. ASSUME out' = out PROVE Recorded'
  BY <1>1 DEF Recorded
<1>2. ASSUME NEW x, Emit(<<x>>) PROVE Recorded'
  <2>1. <<x>> \in Seq({x})
    OBVIOUS
  <2> QED BY <1>2, <2>1, EmitRecords
<1>3. ASSUME NEW x, NEW y, Emit(<<x, y>>) PROVE Recorded'
  <2>1. <<x, y>> \in Seq({x, y})
    OBVIOUS
  <2> QED BY <1>3, <2>1, EmitRecords
<1>4. ASSUME Emit(PartialFill) PROVE Recorded'
  <2>1. \E T : PartialFill \in Seq(T)
    <3> DEFINE x == PartiallyFilled(Taker.id, Top.filled, Taker.remaining)
    <3>1. PartialFill = IF Top.filled > 0 THEN <<x>> ELSE <<>>
      BY DEF PartialFill
    <3> HIDE DEF x
    <3>2. <<x>> \in Seq({x}) /\ <<>> \in Seq({x})
      OBVIOUS
    <3> QED BY <3>1, <3>2
  <2> QED BY <1>4, <2>1, EmitRecords
<1>5. ASSUME NEW x, Emit(PartialFill \o <<x>>) PROVE Recorded'
  <2>1. \E T : PartialFill \o <<x>> \in Seq(T)
    <3> DEFINE y == PartiallyFilled(Taker.id, Top.filled, Taker.remaining)
    <3>1. PartialFill = IF Top.filled > 0 THEN <<y>> ELSE <<>>
      BY DEF PartialFill
    <3> HIDE DEF y
    <3>2. <<y>> \in Seq({y}) /\ <<>> \in Seq({y})
      OBVIOUS
    <3>3. PartialFill \in Seq({y})
      BY <3>1, <3>2
    <3>4. <<x>> \in Seq({x})
      OBVIOUS
    <3> QED BY <3>3, <3>4, EmitSeq
  <2> QED BY <1>5, <2>1, EmitRecords
<1>6. CASE Receive
  <2>1. PICK c \in Commands : New(c) \/ Cancel(c) \/ Replace(c)
    BY <1>6 DEF Receive
  <2> QED BY <1>1, <1>2, <2>1 DEF New, Cancel, Replace, Refuse
<1>7. CASE RejectNew \/ HoldStop \/ KillFok \/ StartMatch
  BY <1>2, <1>3, <1>7 DEF RejectNew, HoldStop, KillFok, StartMatch
<1>8. CASE MatchStep \/ FinishFilled
  BY Zenon, <1>2, <1>3, <1>8 DEF MatchStep, FillMaker, CutMaker, FinishFilled
<1>9. CASE Rest \/ CancelRest
  BY <1>4, <1>5, <1>9 DEF Rest, CancelRest
<1>10. CASE VisitStop \/ EndStops
  BY Zenon, <1>1, <1>10 DEF VisitStop, SkipStop, FireStop, EndStops
<1>11. CASE Deliver
  <2>1. out' = <<>> /\ <<>> \in Seq({})
    BY <1>11 DEF Deliver
  <2> QED BY <2>1 DEF Recorded
<1>12. CASE UNCHANGED vars
  BY <1>1, <1>12 DEF vars
<1> QED BY <1>6, <1>7, <1>8, <1>9, <1>10, <1>11, <1>12 DEF Next, Apply

(***************************************************************************)
(* Every command drains the stops.                                         *)
(***************************************************************************)

\* What a step leaves of the innermost call.
LEMMA BecomeDrains ==
  ASSUME NEW calls, StackSound(calls), calls # <<>>, NEW frame,
         NEW b, NEW c, b.last # None => c.last # None, NEW d,
         CallDrains(b, calls, d),
         frame.call # "apply_new",
         frame.call = "trigger_stops" => c.last # None /\ Swept(c, frame),
         NEW new, new = [calls EXCEPT ![Len(calls)] = frame]
  PROVE  CallDrains(c, new, d) /\ new # <<>>
<1>1. /\ new # <<>> /\ Len(new) = Len(calls)
      /\ \A i \in 1 .. Len(calls) : new[i] = IF i = Len(calls) THEN frame ELSE calls[i]
  BY BecomeShape
<1>2. new[Len(new)] = frame
  BY <1>1, StackIn
<1> QED BY <1>1, <1>2 DEF CallDrains

\* apply_new accepts what a stop turns into, so that a nested call that ends at
\* once is none.
LEMMA NestedGoesOn ==
  ASSUME Inv, Whole(book, stack), CallDrains(book, stack, cmd),
         RejectNew \/ HoldStop \/ KillFok
  PROVE  stack' = <<>> /\ Len(stack) = 1
<1>1. In("apply_new") /\ Return
  BY DEF RejectNew, HoldStop, KillFok
<1>2. /\ stack # <<>> /\ stack[Len(stack)] = Top /\ Top.call = "apply_new"
      /\ Len(stack) \in Nat \ {0}
  BY <1>1, InCall
<1>3. Expects(book, Top.order, Len(stack), cmd)
  BY <1>2 DEF CallDrains
<1> DEFINE n == Len(stack)
<1>4. ~(n > 1)
  <2> SUFFICES ASSUME n > 1 PROVE FALSE
    OBVIOUS
  <2>1. Top.order.qty # 0 /\ Top.order.id \notin DOMAIN book.ids /\ Top.order.kind = "Market"
    BY <1>3 DEF Expects
  <2>2. Refusal(Top.order) = None /\ ~IsStop(Top.order) /\ ~Unfillable(Top.order)
    BY <2>1 DEF Refusal, IsStop, Unfillable
  <2> QED BY <2>2 DEF RejectNew, HoldStop, KillFok
<1>5. n \in Nat \ {0}
  BY <1>2
<1> HIDE DEF n
<1>6. n = 1
  BY <1>4, <1>5
<1>7. Len(stack) = 1
  BY <1>6 DEF n
<1> QED BY <1>1, <1>2, <1>7, ReturnOfFirst

LEMMA EmptyDrains ==
  ASSUME NEW b, NEW d
  PROVE  CallDrains(b, <<>>, d) /\ AwaitsAll(b, <<>>)
BY DEF CallDrains, AwaitsAll

LEMMA RefusedDrains ==
  ASSUME Inv, Inv', Whole(book, stack), StopsWait(book, stack, cmd), Recorded,
         RejectNew \/ KillFok
  PROVE  StopsWait(book', stack', cmd') /\ StopsDrained'
<1>1. Planted(book') /\ AwaitsAll(book', stack')
  BY QuietAwaits DEF StopsWait, Quiet
<1>2. CallDrains(book', stack', cmd')
  BY NestedGoesOn, EmptyDrains DEF StopsWait
<1>3. Events("Rejected")' # {}
  <2>1. CASE RejectNew
    <3> DEFINE x == Rejected(Top.order.id, Refusal(Top.order))
    <3>1. Emit(<<x>>) /\ x.event = "Rejected"
      BY <2>1 DEF RejectNew, Rejected
    <3> HIDE DEF x
    <3>2. <<x>> \in Seq({x}) /\ 1 \in 1 .. Len(<<x>>) /\ <<x>>[1] = x
      OBVIOUS
    <3> QED BY <3>1, <3>2, RejectedEmitted
  <2>2. CASE KillFok
    <3> DEFINE x == Accepted(Top.order.id)  y == Rejected(Top.order.id, "FokUnfillable")
    <3>1. Emit(<<x, y>>) /\ y.event = "Rejected"
      BY <2>2 DEF KillFok, Rejected
    <3> HIDE DEF x, y
    <3>2. <<x, y>> \in Seq({x, y}) /\ 2 \in 1 .. Len(<<x, y>>) /\ <<x, y>>[2] = y
      OBVIOUS
    <3> QED BY <3>1, <3>2, RejectedEmitted
  <2> QED BY <2>1, <2>2
<1> QED BY <1>1, <1>2, <1>3 DEF StopsWait, StopsDrained

LEMMA HoldStopDrains ==
  ASSUME Inv, Inv', Whole(book, stack), StopsWait(book, stack, cmd), HoldStop
  PROVE  StopsWait(book', stack', cmd') /\ StopsDrained'
<1>1. Planted(book') /\ stack' = <<>>
  BY HoldStopAwaits DEF StopsWait
<1>2. CallDrains(book', stack', cmd') /\ AwaitsAll(book', stack')
  BY <1>1, EmptyDrains
<1>3. cmd'.op = "New" /\ IsStop(cmd'.order)
  <2>1. In("apply_new") /\ IsStop(Top.order) /\ cmd' = cmd
    BY DEF HoldStop
  <2>2. stack # <<>> /\ stack[Len(stack)] = Top /\ Top.call = "apply_new"
    BY <2>1, InCall
  <2> QED BY <2>1, <2>2 DEF StopsWait, CallDrains, Expects
<1> QED BY <1>1, <1>2, <1>3 DEF StopsWait, StopsDrained

\* match_order begins, or goes on.
LEMMA MatchDrains ==
  ASSUME Inv, Inv', Whole(book, stack), StopsWait(book, stack, cmd), StartMatch \/ MatchStep
  PROVE  StopsWait(book', stack', cmd') /\ StopsDrained'
<1>1. Planted(book') /\ AwaitsAll(book', stack') /\ StopsStay(book, book') /\ stack # <<>>
  BY QuietAwaits, QuietStays DEF StopsWait, Quiet
<1>2. \E frame : Become(frame) /\ frame.call = "match_order"
  <2>1. CASE StartMatch
    BY <2>1 DEF StartMatch, MatchOrder
  <2>2. CASE MatchStep
    <3>1. PICK qty : Become([Top EXCEPT !.filled = qty])
      BY <2>2 DEF MatchStep, FillMaker, CutMaker, CountFill
    <3>2. FrameOK(Top) /\ Top.call = "match_order"
      BY <1>1, <2>2, InvType, TopType DEF MatchStep, Matching, In
    <3>3. [Top EXCEPT !.filled = qty].call = "match_order"
      BY <3>2 DEF FrameOK, ApplyNew, MatchOrder
    <3> QED BY <3>1, <3>3
  <2> QED BY <2>1, <2>2
<1>3. CallDrains(book', stack', cmd) /\ stack' # <<>>
  BY <1>1, <1>2, BecomeDrains DEF StopsWait, StopsStay, Become, Inv
<1>4. cmd' = cmd
  BY DEF StartMatch, MatchStep
<1> QED BY <1>1, <1>3, <1>4 DEF StopsWait, StopsDrained

\* After the match the stops that the last trade reached are due.
LEMMA MatchedDrains ==
  ASSUME Inv, Inv', Whole(book, stack), StopsWait(book, stack, cmd),
         FinishFilled \/ Rest \/ CancelRest
  PROVE  StopsWait(book', stack', cmd') /\ StopsDrained'
<1>1. Planted(book') /\ AwaitsAll(book', stack') /\ stack # <<>> /\ StackSound(stack)
  BY QuietAwaits, QuietStays DEF StopsWait, Quiet, Inv
<1>2. book'.last = book.last
  BY RestStays, LeaveStays
<1>3. cmd' = cmd /\ ThenStops
  BY DEF FinishFilled, Rest, CancelRest
<1>4. CASE book.last # None
  <2> DEFINE frame == TriggerStops(book, "Buy", book.last)
  <2>1. stack' = [stack EXCEPT ![Len(stack)] = frame]
    BY <1>3, <1>4 DEF ThenStops, Become
  <2>2. frame.call = "trigger_stops" /\ frame.last = book.last /\ frame.side = "Buy"
    BY DEF TriggerStops
  <2> HIDE DEF frame
  <2>3. Swept(book', frame)
    BY <1>2, <2>2 DEF Swept
  <2>4. CallDrains(book', stack', cmd) /\ stack' # <<>>
    BY <1>1, <1>2, <1>4, <2>1, <2>2, <2>3, BecomeDrains DEF StopsWait
  <2> QED BY <1>1, <1>3, <2>4 DEF StopsWait, StopsDrained
<1>5. CASE book.last = None
  <2> DEFINE n == Len(stack)
  <2>1. Return /\ n \in Nat \ {0} /\ ~(n > 1)
    BY <1>1, <1>3, <1>5, StackIn DEF ThenStops, StopsWait, CallDrains
  <2> HIDE DEF n
  <2>2. n = 1
    BY <2>1
  <2>3. stack' = <<>>
    BY <1>1, <2>1, <2>2, ReturnOfFirst DEF n
  <2> QED BY <1>1, <1>2, <1>5, <2>3, EmptyDrains DEF StopsWait, StopsDrained
<1> QED BY <1>4, <1>5

LEMMA SkipStopDrains ==
  ASSUME Inv, Inv', Whole(book, stack), StopsWait(book, stack, cmd),
         Triggering, NEW p \in DOMAIN Top.todo, SkipStop(p), cmd' = cmd
  PROVE  StopsWait(book', stack', cmd') /\ StopsDrained'
<1>1. Planted(book') /\ AwaitsAll(book', stack')
  BY QuietAwaits DEF StopsWait, Quiet
<1>2. /\ stack # <<>> /\ stack[Len(stack)] = Top /\ Top.call = "trigger_stops"
      /\ StackSound(stack) /\ Collected(book, {}, Top)
  BY InTrigger
<1>3. Popped(p).side = Top.side /\ Popped(p).last = Top.last
  BY <1>2, PoppedCollected
<1>4. stack' = [stack EXCEPT ![Len(stack)] = Popped(p)] /\ book' = book
  BY DEF SkipStop, Become
<1>5. book.last # None /\ Swept(book, Top)
  BY <1>2 DEF StopsWait, CallDrains
<1>6. Swept(book, Popped(p))
  BY <1>3, <1>5 DEF Swept
<1>7. Popped(p).call # "apply_new"
  BY PoppedFrame
<1>8. CallDrains(book, stack', cmd) /\ stack' # <<>>
  BY <1>2, <1>4, <1>5, <1>6, <1>7, BecomeDrains DEF StopsWait
<1> QED BY <1>1, <1>4, <1>8 DEF StopsWait, StopsDrained

LEMMA FireStopDrains ==
  ASSUME Inv, Inv', Whole(book, stack), StopsWait(book, stack, cmd),
         Triggering, NEW p \in DOMAIN Top.todo, FireStop(p), cmd' = cmd
  PROVE  StopsWait(book', stack', cmd') /\ StopsDrained'
<1> DEFINE slot  == Head(Top.todo[p])
           stop  == book.arena[slot]
           no    == [id |-> stop.id, side |-> stop.side,
                     kind |-> IF stop.kind = "StopMarket" THEN "Market" ELSE "Limit",
                     price |-> stop.price, stop_price |-> 0, qty |-> stop.remaining]
           below == [stack EXCEPT ![Len(stack)] = Popped(p)]
<1>1. Planted(book') /\ AwaitsAll(book', stack')
  BY FireStopAwaits DEF StopsWait
<1>2. stack' = Append(below, ApplyNew(no))
  BY DEF FireStop, CallFrom
<1>3. /\ slot \in StopsOf(book) /\ stop.kind = "StopMarket"
      /\ book'.last = book.last /\ book'.ids = Drop(book.ids, stop.id)
  BY FireStopStays
<1>4. stop.remaining # 0
  BY <1>3 DEF StopsWait, Planted
<1>5. no.kind = "Market" /\ no.qty # 0 /\ no.id = stop.id
  BY <1>3, <1>4
<1>6. ApplyNew(no).call = "apply_new" /\ ApplyNew(no).order = no
  BY DEF ApplyNew
<1> HIDE DEF no, stop, slot
<1>7. no.id \notin DOMAIN book'.ids /\ ~IsStop(no)
  BY <1>3, <1>5 DEF Drop, IsStop
<1>8. /\ stack # <<>> /\ StackSound(stack) /\ book.last # None
  BY InTrigger DEF StopsWait, CallDrains
<1>9. StackSound(below) /\ below # <<>>
  BY <1>8, PoppedFrame, BecomeSound
<1> HIDE DEF below
<1>10. stack' # <<>> /\ stack'[Len(stack')] = ApplyNew(no)
  BY <1>2, <1>9, PushShape
<1>11. CallDrains(book', stack', cmd)
  BY <1>3, <1>5, <1>6, <1>7, <1>8, <1>10 DEF CallDrains, Expects
<1> QED BY <1>1, <1>10, <1>11 DEF StopsWait, StopsDrained

\* trigger_stops ends: sells follow buys, and after the sells nothing is due.
LEMMA EndStopsDrains ==
  ASSUME Inv, Inv', Whole(book, stack), StopsWait(book, stack, cmd), EndStops
  PROVE  StopsWait(book', stack', cmd') /\ StopsDrained'
<1>1. Planted(book) /\ AwaitsAll(book, stack)
  BY DEF StopsWait
<1>2. /\ Planted(book') /\ AwaitsAll(book', stack')
      /\ book'.arena = book.arena /\ book'.last = book.last
      /\ \A s \in StopsOf(book) :
           book.arena[s].side = Top.side
             => ~Reached(Top.side, Top.last, book.arena[s].stop_price)
  BY <1>1, EndStopsAwaits
<1>3. /\ stack # <<>> /\ stack[Len(stack)] = Top /\ Top.call = "trigger_stops"
      /\ StackSound(stack) /\ Top.side \in Side /\ Len(stack) \in Nat \ {0}
  BY InTrigger DEF EndStops
<1>4. book.last # None /\ Swept(book, Top)
  BY <1>3 DEF StopsWait, CallDrains
<1>5. cmd' = cmd
  BY DEF EndStops
<1>6. CASE Top.side = "Buy"
  <2> DEFINE frame == TriggerStops(book, "Sell", Top.last)
  <2>1. stack' = [stack EXCEPT ![Len(stack)] = frame]
    BY <1>6 DEF EndStops, Become
  <2>2. frame.call = "trigger_stops" /\ frame.last = Top.last /\ frame.side = "Sell"
    BY DEF TriggerStops
  <2> HIDE DEF frame
  <2>3. Swept(book, frame)
    <3>1. CASE Drained(book)
      BY <3>1 DEF Swept
    <3>2. CASE Top.last = book.last
      BY <1>2, <1>6, <2>2, <3>2 DEF Swept, Due
    <3> QED BY <1>4, <3>1, <3>2 DEF Swept
  <2>4. Swept(book', frame)
    BY <1>2, <2>3 DEF Swept, Drained, Due, StopsOf
  <2>5. CallDrains(book', stack', cmd) /\ stack' # <<>>
    BY <1>2, <1>3, <1>4, <2>1, <2>2, <2>4, BecomeDrains DEF StopsWait
  <2> QED BY <1>2, <1>5, <2>5 DEF StopsWait, StopsDrained
<1>7. CASE Top.side = "Sell"
  <2>1. stack' = SubSeq(stack, 1, Len(stack) - 1)
    BY <1>7 DEF EndStops, Return
  <2>2. stack' # <<>> => stack'[Len(stack')].call = "trigger_stops"
    BY <1>3, <2>1, ReturnSound
  <2>3. Drained(book)
    <3>1. CASE Drained(book)
      BY <3>1
    <3>2. CASE /\ Top.last = book.last
               /\ \A s \in StopsOf(book) : book.arena[s].side = "Buy" => ~Due(book, s)
      <4> SUFFICES ASSUME NEW s \in StopsOf(book) PROVE ~Due(book, s)
        BY DEF Drained
      <4>1. book.arena[s].side \in Side
        BY DEF StopsOf, Inv, BookSound, BookTypeOK, IsMap, Order
      <4> QED BY <1>2, <1>7, <3>2, <4>1 DEF Due, Side
    <3> QED BY <1>4, <1>7, <3>1, <3>2 DEF Swept
  <2>4. Drained(book')
    BY <1>2, <2>3 DEF Drained, Due, StopsOf
  <2>5. CallDrains(book', stack', cmd)
    BY <1>2, <1>4, <2>2, <2>4 DEF CallDrains, Swept
  <2>6. StopsDrained'
    BY <2>4 DEF StopsDrained, Drained, Due, Held, StopsOf
  <2> QED BY <1>2, <1>5, <2>5, <2>6 DEF StopsWait
<1> QED BY <1>3, <1>6, <1>7 DEF Side

\* A command arrives, with no call in progress.
LEMMA FirstDrains ==
  ASSUME NEW b, NEW no, NEW c, IsStop(no) => c.op = "New" /\ IsStop(c.order),
         NEW new, new = <<ApplyNew(no)>>
  PROVE  CallDrains(b, new, c) /\ AwaitsAll(b, new) /\ new # <<>>
<1>1. Len(new) = 1 /\ new[1] = ApplyNew(no) /\ new # <<>>
  OBVIOUS
<1>2. ApplyNew(no).call = "apply_new" /\ ApplyNew(no).order = no
  BY DEF ApplyNew
<1>3. CallDrains(b, new, c)
  BY <1>1, <1>2 DEF CallDrains, Expects
<1>4. AwaitsAll(b, new)
  BY <1>1, <1>2 DEF AwaitsAll
<1> QED BY <1>1, <1>3, <1>4

LEMMA RefuseDrains ==
  ASSUME StopsWait(book, stack, cmd), Recorded, stack = <<>>,
         NEW c, NEW reason, Refuse(c, reason)
  PROVE  StopsWait(book', stack', cmd') /\ StopsDrained'
<1> DEFINE x == Rejected(c.id, reason)
<1>1. Emit(<<x>>) /\ x.event = "Rejected" /\ book' = book /\ stack' = <<>>
  BY DEF Refuse, Rejected
<1> HIDE DEF x
<1>2. <<x>> \in Seq({x}) /\ 1 \in 1 .. Len(<<x>>) /\ <<x>>[1] = x
  OBVIOUS
<1>3. Events("Rejected")' # {}
  BY <1>1, <1>2, RejectedEmitted
<1> QED BY <1>1, <1>3, EmptyDrains DEF StopsWait, StopsDrained

LEMMA IdleDrains ==
  ASSUME Inv, Whole(book, stack), StopsWait(book, stack, cmd), StopsDrained, Recorded, Tame,
         Receive \/ Deliver \/ UNCHANGED vars
  PROVE  StopsWait(book', stack', cmd') /\ StopsDrained'
<1>1. ASSUME NEW c \in Commands, New(c)
      PROVE  StopsWait(book', stack', cmd') /\ StopsDrained'
  <2>1. stack' = <<ApplyNew(c.order)>> /\ book' = book /\ cmd' = c /\ c.op = "New"
    BY <1>1 DEF New
  <2>2. CallDrains(book, stack', c) /\ AwaitsAll(book, stack') /\ stack' # <<>>
    BY <2>1, FirstDrains
  <2> QED BY <2>1, <2>2 DEF StopsWait, StopsDrained
<1>2. ASSUME NEW c \in Commands, Cancel(c)
      PROVE  StopsWait(book', stack', cmd') /\ StopsDrained'
  <2>1. stack = <<>> /\ c.op = "Cancel"
    BY <1>2 DEF Cancel, Idle
  <2>2. CASE Refuse(c, "UnknownId")
    BY <2>1, <2>2, RefuseDrains
  <2>3. CASE ~Refuse(c, "UnknownId")
    <3>1. c.id \in DOMAIN book.ids /\ book' = Without(c.id) /\ cmd' = c /\ stack' = <<>>
      BY <1>2, <2>1, <2>3 DEF Cancel
    <3>2. StopsStay(book, book')
      BY <1>2, <3>1, WithoutStays
    <3>3. Planted(book')
      BY <3>2, PlantedStays DEF StopsWait
    <3> QED BY <2>1, <3>1, <3>3, EmptyDrains DEF StopsWait, StopsDrained
  <2> QED BY <2>2, <2>3
<1>3. ASSUME NEW c \in Commands, Replace(c)
      PROVE  StopsWait(book', stack', cmd') /\ StopsDrained'
  <2>1. stack = <<>> /\ c.op = "Replace"
    BY <1>3 DEF Replace, Idle
  <2>2. CASE Refuse(c, "UnknownId") \/ Refuse(c, "ZeroQty")
    BY <2>1, <2>2, RefuseDrains
  <2>3. CASE ~(Refuse(c, "UnknownId") \/ Refuse(c, "ZeroQty"))
    <3> DEFINE old == book.arena[book.ids[c.id].slot]
               no  == [id |-> c.id, side |-> old.side, kind |-> old.kind,
                       price |-> c.new_price, stop_price |-> 0, qty |-> c.new_qty]
    <3>1. /\ c.id \in DOMAIN book.ids /\ book' = Without(c.id) /\ cmd' = c
          /\ stack' = <<ApplyNew(no)>>
      BY <1>3, <2>1, <2>3 DEF Replace
    <3>2. StopsStay(book, book') /\ old.kind = "Limit"
      BY <1>3, <3>1, WithoutStays
    <3>3. ~IsStop(no)
      BY <3>2 DEF IsStop
    <3> HIDE DEF no
    <3>4. Planted(book')
      BY <3>2, PlantedStays DEF StopsWait
    <3>5. CallDrains(book', stack', c) /\ AwaitsAll(book', stack') /\ stack' # <<>>
      BY <3>1, <3>3, FirstDrains
    <3> QED BY <3>1, <3>4, <3>5 DEF StopsWait, StopsDrained
  <2> QED BY <2>2, <2>3
<1>4. CASE Deliver
  BY <1>4, EmptyDrains DEF Deliver, StopsWait, StopsDrained
<1>5. CASE UNCHANGED vars
  BY <1>5 DEF vars, StopsWait, StopsDrained, Held, Events
<1> QED BY <1>1, <1>2, <1>3, <1>4, <1>5 DEF Receive

LEMMA StepDrains ==
  ASSUME Inv, Inv', Whole(book, stack), StopsWait(book, stack, cmd), StopsDrained, Recorded,
         Tame, [Next]_vars
  PROVE  StopsWait(book', stack', cmd') /\ StopsDrained'
<1>1. CASE Receive \/ Deliver \/ UNCHANGED vars
  BY <1>1, IdleDrains
<1>2. CASE RejectNew \/ KillFok
  BY <1>2, RefusedDrains
<1>3. CASE HoldStop
  BY <1>3, HoldStopDrains
<1>4. CASE StartMatch \/ MatchStep
  BY <1>4, MatchDrains
<1>5. CASE FinishFilled \/ Rest \/ CancelRest
  BY <1>5, MatchedDrains
<1>6. CASE VisitStop
  BY <1>6, SkipStopDrains, FireStopDrains DEF VisitStop
<1>7. CASE EndStops
  BY <1>7, EndStopsDrains
<1> QED BY <1>1, <1>2, <1>3, <1>4, <1>5, <1>6, <1>7 DEF Next, Apply

LEMMA StopsWaitHolds ==
  ASSUME Tame
  PROVE  Spec => [](StopsWait(book, stack, cmd) /\ StopsDrained /\ Recorded)
<1> DEFINE W == StopsWait(book, stack, cmd) /\ StopsDrained /\ Recorded
<1>1. Init => W
  <2> SUFFICES ASSUME Init PROVE W
    OBVIOUS
  <2>1. book = EmptyBook /\ stack = <<>> /\ out = <<>> /\ cmd = None
    BY DEF Init
  <2>2. StopsOf(book) = {}
    BY <2>1 DEF StopsOf, EmptyBook
  <2>3. Planted(book) /\ StopsDrained
    BY <2>1, <2>2 DEF Planted, StopsDrained
  <2>4. <<>> \in Seq({})
    OBVIOUS
  <2> QED BY <2>1, <2>3, <2>4, EmptyDrains DEF StopsWait, Recorded
<1>2. Inv /\ Whole(book, stack) /\ (Inv /\ Whole(book, stack))' /\ W /\ [Next]_vars => W'
  <2> SUFFICES ASSUME Inv, Inv', Whole(book, stack), W, [Next]_vars
               PROVE  StopsWait(book', stack', cmd') /\ StopsDrained' /\ Recorded'
    OBVIOUS
  <2> QED BY StepDrains, StepRecords
<1> QED BY <1>1, <1>2, WholeHolds, PTL DEF Spec

\* When a command is done no held stop is reached by the last trade, however the
\* stops that fired moved the price.
THEOREM StopsAreDrained ==
  ASSUME Tame
  PROVE  Spec => []StopsDrained
BY StopsWaitHolds, PTL

===============================================================================
