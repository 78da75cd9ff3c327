---------------------------- MODULE PriceTimeBook ----------------------------
(***************************************************************************)
(* What a matching engine promises its clients, without slots, links,      *)
(* totals or a call stack. Open orders stand in one queue per side and     *)
(* price, first come first served. An incoming order trades with the best  *)
(* price that its limit allows, with the order that has waited longest     *)
(* there, until it is used up or no such price is left. A stop waits until *)
(* a trade reaches its trigger.                                            *)
(***************************************************************************)
EXTENDS Integers, Sequences, FiniteSetsExt

CONSTANTS
  Ids,           \* the identifiers of orders
  Submissions,   \* the orders clients may submit: [id, side, kind, price, stop_price, qty]
  None

VARIABLES
  queues,     \* <<side, price>> -> sequence of [id, open], never empty
  waiting,    \* the stop orders that have not fired
  incoming,   \* the order that is submitted or fired, but not accepted yet, or None
  taker,      \* the order that trades, [id, side, kind, price, open], or None
  last,       \* the price of the last trade, or None
  marks       \* the prices that may fire stops: those the current command traded at and,
              \* once its order is through, the last one before it

bookVars == <<queues, waiting, incoming, taker, last, marks>>

Sides == {"Buy", "Sell"}

\* A price is as good as a limit, or better, for who trades on this side.
Acceptable(side, limit, price) == IF side = "Buy" THEN price <= limit ELSE price >= limit

\* The queues on the other side that an order may trade with.
Counterparts(order) ==
  {q \in DOMAIN queues : /\ q[1] # order.side
                         /\ order.kind = "Market" \/ Acceptable(order.side, order.price, q[2])}

Best(order) == CHOOSE q \in Counterparts(order) :
                 \A r \in Counterparts(order) : Acceptable(order.side, r[2], q[2])

OpenIn(queue) == MapThenSumSet(LAMBDA i : queue[i].open, DOMAIN queue)

Fillable(order) ==
  order.qty <= MapThenSumSet(LAMBDA q : OpenIn(queues[q]), Counterparts(order))

Queued(id) == {q \in DOMAIN queues : \E i \in DOMAIN queues[q] : queues[q][i].id = id}
Stops(id)  == {stop \in waiting : stop.id = id}

\* The queues with one of them changed; a queue without orders is no queue.
Requeued(q, queue) ==
  [r \in (DOMAIN queues \cup {q}) \ (IF queue = <<>> THEN {q} ELSE {})
     |-> IF r = q THEN queue ELSE queues[r]]

Quiet == incoming = None /\ taker = None

Submit ==
  /\ Quiet
  /\ incoming' \in Submissions
  /\ UNCHANGED <<queues, waiting, taker, last, marks>>

\* An open order or a waiting stop goes away, wherever it stands.
Withdraw(id) ==
  \/ /\ Stops(id) # {}
     /\ waiting' = waiting \ Stops(id)
     /\ UNCHANGED queues
  \/ /\ \E q \in Queued(id) :
          queues' = Requeued(q, SelectSeq(queues[q], LAMBDA o : o.id # id))
     /\ UNCHANGED waiting

Cancel ==
  /\ Quiet
  /\ \E id \in Ids : Withdraw(id)
  /\ UNCHANGED <<incoming, taker, last, marks>>

\* The same order again, of the kind and side it had, at a new price and
\* quantity, last in its new queue.
Amend ==
  /\ Quiet
  /\ incoming' \in Submissions
  /\ Withdraw(incoming'.id)
  /\ \A q \in Queued(incoming'.id) : incoming'.kind = "Limit" /\ incoming'.side = q[1]
  /\ \A stop \in Stops(incoming'.id) :
       incoming'.kind = stop.kind /\ incoming'.side = stop.side
  /\ UNCHANGED <<taker, last, marks>>

Invalid(order) ==
  \/ order.qty = 0
  \/ Queued(order.id) # {} \/ Stops(order.id) # {}
  \/ order.kind \notin {"Market", "StopMarket"} /\ order.price <= 0

Refuse ==
  /\ incoming # None
  /\ Invalid(incoming) \/ (incoming.kind = "Fok" /\ ~Fillable(incoming))
  /\ incoming' = None
  /\ UNCHANGED <<queues, waiting, taker, last, marks>>

Wait ==
  /\ incoming # None /\ ~Invalid(incoming)
  /\ incoming.kind \in {"StopMarket", "StopLimit"}
  /\ waiting' = waiting \cup {incoming}
  /\ incoming' = None
  /\ UNCHANGED <<queues, taker, last, marks>>

Admit ==
  /\ incoming # None /\ ~Invalid(incoming)
  /\ incoming.kind \in {"Limit", "Market", "Ioc", "Fok"}
  /\ incoming.kind = "Fok" => Fillable(incoming)
  /\ taker' = [id |-> incoming.id, side |-> incoming.side, kind |-> incoming.kind,
               price |-> incoming.price, open |-> incoming.qty]
  /\ incoming' = None
  /\ UNCHANGED <<queues, waiting, last, marks>>

\* One trade, at the best price, with the order that has waited longest.
Trade ==
  /\ taker # None /\ taker.open > 0 /\ Counterparts(taker) # {}
  /\ LET best  == Best(taker)
         queue == queues[best]
         maker == Head(queue)
         qty   == Min({taker.open, maker.open})
     IN  /\ queues' = Requeued(best, IF maker.open = qty THEN Tail(queue)
                                     ELSE [queue EXCEPT ![1].open = @ - qty])
         /\ taker' = [taker EXCEPT !.open = @ - qty]
         /\ last' = best[2]
         /\ marks' = marks \cup {best[2]}
  /\ UNCHANGED <<waiting, incoming>>

\* Stops are looked at after every order, whether or not it traded.
Mark == marks' = marks \cup ({last} \ {None})

\* An order leaves the market only when it can trade no more.
Finish ==
  /\ taker # None
  /\ taker.open = 0 \/ (Counterparts(taker) = {} /\ taker.kind \in {"Market", "Ioc"})
  /\ taker' = None
  /\ Mark
  /\ UNCHANGED <<queues, waiting, incoming, last>>

Rest ==
  /\ taker # None /\ taker.kind = "Limit"
  /\ taker.open > 0 /\ Counterparts(taker) = {}
  /\ LET q == <<taker.side, taker.price>>
     IN  queues' = Requeued(q, Append(IF q \in DOMAIN queues THEN queues[q] ELSE <<>>,
                                      [id |-> taker.id, open |-> taker.open]))
  /\ taker' = None
  /\ Mark
  /\ UNCHANGED <<waiting, incoming, last>>

\* A stop fires as a market or limit order, only if a trade has reached it.
Fire ==
  /\ Quiet
  /\ \E stop \in waiting :
       /\ \E mark \in marks : Acceptable(stop.side, mark, stop.stop_price)
       /\ waiting' = waiting \ {stop}
       /\ incoming' = [stop EXCEPT !.kind = IF @ = "StopMarket" THEN "Market" ELSE "Limit",
                                   !.stop_price = 0]
  /\ UNCHANGED <<queues, taker, last, marks>>

\* The command is over.
Settle ==
  /\ Quiet
  /\ marks' \in SUBSET marks
  /\ UNCHANGED <<queues, waiting, incoming, taker, last>>

Init ==
  /\ queues = << >> /\ waiting = {} /\ incoming = None /\ taker = None
  /\ last = None /\ marks = {}

Next == \/ Submit \/ Cancel \/ Amend
        \/ Refuse \/ Wait \/ Admit
        \/ Trade \/ Finish \/ Rest
        \/ Fire \/ Settle

Spec == Init /\ [][Next]_bookVars

=============================================================================
