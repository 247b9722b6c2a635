CONSTANTS
  MaxPrice = 3
  MaxSize = 3
  MaxDepth = 3
  Requests <- MCRequests
  Snapshots <- MCSnapshots
SPECIFICATION MatchSpec
INVARIANT
  MatchingIsOwed
CHECK_DEADLOCK FALSE
