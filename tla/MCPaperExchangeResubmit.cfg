CONSTANTS
  Ids = {o1}
  NoId = NoId
  NoOrder = NoOrder
  NoResult = NoResult
  NoBook = NoBook
  Intents <- MCTwoIntents
  Books <- MCTwoBooks
  Engine <- MCEngine
  Fee <- MCFee
  Faults = {}
SPECIFICATION ResubmitSpec
INVARIANT FilledAtMostOnce
CHECK_DEADLOCK FALSE
