CONSTANTS
  Producer = {p}
  Own = own
  Late = {}
  Symbol = {0}
  Listed = {0}
  NumShards = 1
  RingCapacity = 1
  BatchSize = 2
  MaxSeq = 2
  MaxFailures = 0
  MaxBad = 1
  None = None
  Client = {c}
  Capacity = 2
  TradeKind = {2}
  BookKind = {1}
SPECIFICATION ExchangeSpec
INVARIANTS AnswersAreTrue LosesOnlyOverwritten
PROPERTIES LinesAnswered AcceptedIsPublished ReadersCatchUp
CHECK_DEADLOCK FALSE
