-------------------------- MODULE MatcherRefinement --------------------------
(***************************************************************************)
(* The matcher keeps the promise of PriceTimeBook. The mapping walks the   *)
(* chains of the levels, so it also says that the linked lists are queues. *)
(***************************************************************************)
EXTENDS Matcher

\* The orders of a level from the head on, as the chain of next links has them.
Queue(level) ==
  LET from[s \in Optional(DOMAIN book.arena)] ==
        IF s = None THEN <<>>
        ELSE <<[id |-> book.arena[s].id, open |-> book.arena[s].remaining]>>
               \o from[book.arena[s].next]
  IN  from[level.head]

Queues ==
  [q \in UNION {{s} \X DOMAIN book.levels[s] : s \in Side} |-> Queue(book.levels[q[1]][q[2]])]

Waiting ==
  {[id |-> o.id, side |-> o.side, kind |-> o.kind, price |-> o.price,
    stop_price |-> o.stop_price, qty |-> o.remaining] : o \in {book.arena[s] : s \in Held}}

Incoming == IF In("apply_new") THEN Top.order ELSE None

TakerNow ==
  IF In("match_order")
    THEN [id |-> Taker.id, side |-> Taker.side, kind |-> Taker.kind,
          price |-> Taker.price, open |-> Taker.remaining]
    ELSE None

\* Of the trigger_stops calls, only the outermost may go by an earlier trade.
Marks == {out[i].price : i \in Events("Trade")}
           \cup {stack[i].last : i \in {j \in DOMAIN stack : stack[j].call = "trigger_stops"}}

Promise == INSTANCE PriceTimeBook WITH
  Ids <- OrderId, Submissions <- NewOrder,
  queues <- Queues, waiting <- Waiting, incoming <- Incoming, taker <- TakerNow,
  last <- book.last, marks <- Marks

\* Price-time priority and all that goes with it: every step of the matcher is
\* a step of the abstract book, or none. Trades happen at the best price with
\* the order that waited longest, a partly filled maker keeps its place, a
\* replaced order loses it, nothing rests while it could trade, a
\* fill-or-kill order is killed only when it cannot be filled, and a stop
\* fires only when a trade has reached it.
KeepsPriceTimePriority == Promise!Spec

=============================================================================
