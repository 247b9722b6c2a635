CONSTANTS
  Ids = {o1, o2}
  NoId = NoId
  NoOrder = NoOrder
  NoResult = NoResult
  NoBook = NoBook
  Intents <- MCIntents
  Books <- MCBooks
  Engine <- MCEngine
  Fee <- MCFee
  Faults = {}
SPECIFICATION FairSpec
INVARIANTS
  TypeOK
  LogIsThePathOfTheRow
  OrdersSettle
PROPERTIES
  CancelsComplete
CHECK_DEADLOCK FALSE
