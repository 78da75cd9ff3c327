------------------------------ MODULE MCCommands ------------------------------
(***************************************************************************)
(* The forms of commands that the instances for TLC pick theirs from.      *)
(***************************************************************************)
EXTENDS Matcher, TLC

\* New orders of the given kinds, sides, prices and quantities. Only limit
\* prices and stop prices that the kind uses vary.
NewOrders(ids, kinds, prices, stop_prices, qtys) ==
  [op : {"New"},
   order : [id : ids, side : Side, kind : kinds, price : prices,
            stop_price : stop_prices, qty : qtys]]

Cancels(ids) == [op : {"Cancel"}, id : ids]

Replaces(ids, prices, qtys) == [op : {"Replace"}, id : ids, new_price : prices, new_qty : qtys]

\* Stops have ids of their own where the other orders are not to share them.
CONSTANT StopIds

OtherIds == OrderId \ StopIds

IdSymmetry == Permutations(OtherIds) \cup Permutations(StopIds)

=============================================================================
