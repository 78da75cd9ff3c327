------------------------------ MODULE MCMatcher ------------------------------
(***************************************************************************)
(* Small instances of the matcher for TLC: which commands clients send.    *)
(***************************************************************************)
EXTENDS MatcherFeed, MatcherRefinement, MCCommands

\* Orders that never wait for a trigger, refused ones among them. The limits
\* of immediate-or-cancel orders reach all prices: the matcher ignores them.
CoreCommands ==
  NewOrders(OrderId, {"Limit", "Fok"}, 1 .. 2, {0}, 1 .. 2)
    \cup NewOrders(OrderId, {"Market"}, {0}, {0}, {2})
    \cup {c \in NewOrders(OrderId, {"Ioc"}, 1 .. 2, {0}, {2}) :
            c.order.price = IF c.order.side = "Buy" THEN 2 ELSE 1}
    \cup NewOrders(OrderId, {"Limit"}, {0}, {0}, {0, 1})
    \cup Cancels(OrderId)
    \cup Replaces(OrderId, 0 .. 2, 0 .. 2)

\* Stops, two of which may fire each other. They are neither cancelled nor
\* replaced.
StopCommands ==
  NewOrders(OtherIds, {"Limit"}, 1 .. 2, {0}, {2})
    \cup NewOrders(StopIds, {"StopMarket"}, {0}, 1 .. 2, {1})

\* Sells at two prices, buys that cross both, and buy stops at either.
ReturnCommands ==
  {c \in NewOrders(OtherIds, {"Limit"}, 1 .. 2, {0}, {1}) :
     c.order.side = "Buy" => c.order.price = 2}
    \cup {c \in NewOrders(StopIds, {"StopMarket"}, {0}, 1 .. 2, {1}) : c.order.side = "Buy"}

\* Everything, stops cancelled, replaced and resting as limit orders included.
AnyCommands ==
  NewOrders(OrderId, {"Limit"}, 1 .. 2, {0}, {1})
    \cup NewOrders(OrderId, {"Ioc"}, {1}, {0}, {2})
    \cup NewOrders(OrderId, {"StopMarket", "StopLimit"}, {1}, {1}, {1})
    \cup Cancels(OrderId)
    \cup Replaces(OrderId, 0 .. 1, {1})

\* What the counterexample needs.
StopLimitCommands ==
  NewOrders(OtherIds, {"Limit"}, 1 .. 2, {0}, {1})
    \cup NewOrders(StopIds, {"StopLimit"}, {1}, {1}, {1})

\* A cancelled stop stays in its tree; MaxStale bounds how many pile up there.
CONSTANT MaxStale

BoundedFeedSpec ==
  /\ FeedInit
  /\ [][/\ FeedNext
        /\ \A side \in Side : \A p \in DOMAIN book'.stops[side] :
             Len(book'.stops[side][p]) <= MaxStale]_feedVars

=============================================================================
