------------------------------ MODULE MCRecovery ------------------------------
(***************************************************************************)
(* Small instances of Recovery for TLC: which commands clients send.       *)
(***************************************************************************)
EXTENDS Recovery, MCCommands

Limit(id, side, price, qty) ==
  [op |-> "New", order |-> [id |-> id, side |-> side, kind |-> "Limit", price |-> price,
                            stop_price |-> 0, qty |-> qty]]

\* Sells that queue up at one price or two, a buy that takes a part of the
\* first, and a cancel of what is left.
RecoveryCommands ==
  {Limit(1, "Sell", 1, 2), Limit(2, "Sell", 1, 1), Limit(2, "Sell", 2, 1),
   Limit(3, "Buy", 2, 1)} \cup Cancels({1})

\* What the counterexample needs.
RestingCommands == NewOrders(OrderId, {"Limit"}, {1}, {0}, {1})

=============================================================================
