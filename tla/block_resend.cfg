\* A client digs a node that the server leaves: nothing sends it the block.
SPECIFICATION SendingSpec
CONSTANTS
  Viewers = {fm, stock}
  StockViewers = {stock}
  MaxEdits = 0
  MaxTime = 5
  MaxRequests = 1
  Unknown = Unknown
  Predicted = Predicted
  NoCopy = NoCopy
  Nil = Nil
INVARIANT UpToDate
CHECK_DEADLOCK FALSE
