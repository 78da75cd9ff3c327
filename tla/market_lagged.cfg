CONSTANTS
  Listed = {a}
  Client = {c}
  Capacity = 1
  TradeKind = {trade}
  BookKind = {fill}
  MaxEvents = 3
SPECIFICATION Spec
INVARIANT LaggedAreDropped
CHECK_DEADLOCK FALSE
