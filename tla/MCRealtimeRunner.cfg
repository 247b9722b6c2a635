CONSTANTS
  t1 = t1
  t2 = t2
  Tokens <- MCTokens
  NoQuote = NoQuote
  Unset = Unset
  NoResult = NoResult
  One = 8
  OneShare = 1
  ExposureMode = "fraction_of_equity"
  Quotes <- MCQuotes
  Batches <- MCBatches
  StartingCash = 20
  MaxOrder = Unset
  MaxMarket = 16
  MaxToken = 4
  Engine <- MCEngine
  SubmitLatency = 0
  DefaultDepth = 100
  MaxCalls = 3
SPECIFICATION FairSpec
INVARIANTS
  TypeOK
  Solvent
  WithinTokenLimit
  StrategySeesThePortfolio
  OpenOrdersAreWorking
PROPERTIES
  TowardsTarget
  SignalsDrain
CHECK_DEADLOCK FALSE
