----------------------------- MODULE MatcherFeed -----------------------------
(***************************************************************************)
(* The matcher and a client that owns all orders and rebuilds its open     *)
(* orders from the event stream alone: what it knows of the book is what   *)
(* its own commands asked for and what the events have told it since.      *)
(***************************************************************************)
EXTENDS Matcher, SequencesExt

VARIABLE feed    \* id -> open quantity, as the client believes

feedVars == <<vars, feed>>

Asked == IF cmd.op = "New" THEN cmd.order.qty ELSE cmd.new_qty

\* What one event tells a client that asked for a quantity. A stop is accepted again when it fires; a
\* fill report that contradicts the trades seen so far leaves None behind.
Learn(asked, open, e) ==
  CASE e.event = "Accepted" ->
         IF e.id \in DOMAIN open THEN open ELSE Put(open, e.id, asked)
    [] e.event = "Trade" ->
         [id \in DOMAIN open |-> IF id \in {e.taker, e.maker} THEN open[id] - e.qty ELSE open[id]]
    [] e.event = "PartiallyFilled" ->
         IF open[e.id] = e.remaining THEN open ELSE Put(open, e.id, None)
    [] e.event = "Filled" -> IF open[e.id] = 0 THEN Drop(open, e.id) ELSE Put(open, e.id, None)
    [] e.event \in {"Cancelled", "Replaced"} -> Drop(open, e.id)
    [] e.event = "Rejected" -> IF e.reason = "FokUnfillable" THEN Drop(open, e.id) ELSE open

Heard(asked, open, events) ==
  FoldLeft(LAMBDA known, e : Learn(asked, known, e), open, events)

Hear == feed' = Heard(Asked, feed, out)

FeedInit == Init /\ feed = << >>

FeedNext == \/ (Receive \/ Apply) /\ UNCHANGED feed
            \/ Deliver /\ Hear

FeedSpec == FeedInit /\ [][FeedNext]_feedVars

\* The shard's thread runs apply to its end and then sends the events.
FairFeedSpec ==
  FeedSpec /\ WF_feedVars(Apply /\ UNCHANGED feed) /\ WF_feedVars(Deliver /\ Hear)

\* Between commands the client's open orders are those the id index holds,
\* with the quantities the arena holds: every fill, cancel, replace, refusal
\* and trigger shows in the events, exactly once and in a usable order.
FeedMatchesBook ==
  Idle => feed = [id \in DOMAIN book.ids |-> book.arena[book.ids[id].slot].remaining]

\* A fill-or-kill order trades to the last unit within its limit, or not at
\* all. Only the pre-check on the level totals stands between match_order,
\* which ignores the limit of such an order, and a breach.
FokAllOrNothing ==
  (stack = <<>> /\ cmd # None /\ cmd.op = "New" /\ cmd.order.kind = "Fok") =>
    LET mine == {i \in Events("Trade") : out[i].taker = cmd.order.id}
    IN  mine # {} =>
          /\ Filled(cmd.order.id) \in ToSet(out)
          /\ \A i \in mine : Within(cmd.order.side, cmd.order.price, out[i].price)

=============================================================================
