CONSTANTS
  t1 = t1
  t2 = t2
  t3 = t3
  NoBook = NoBook
  NoProfile = NoProfile
  Tokens <- MCTokens
  Replies <- MCReplies
  Feeds <- MCFeeds
  Kinds = {"stress", "probe", "bootstrap"}
  Configured <- MCConfigured
  Positions = 2
  Stake = 10
  Starts <- MCStarts
  TimeStep = 1
SPECIFICATION Spec
INVARIANTS
  StagedBooksAreBooks
  ReplayKeepsTime
  RaisesOnlyWhenOpen
  CyclesComplete
  ExposureIsLimited
CHECK_DEADLOCK FALSE
