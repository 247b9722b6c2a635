CONSTANTS
  Ids = {o1, o2}
  NoId = NoId
  NoOrder = NoOrder
  NoResult = NoResult
  NoBook = NoBook
  Intents <- MCTwoIntents
  Books <- MCTwoBooks
  Engine <- MCEngine
  Fee <- MCFee
  Faults = {"error", "crash"}
SPECIFICATION Spec
INVARIANTS
  StoreLagsByAtMostTwoMoves
  RiskDecisionFirst
  LedgerAgrees
PROPERTIES
  TerminalRowsAreFinal
  FollowsContract
SYMMETRY Symmetry
CHECK_DEADLOCK FALSE
