CONSTANTS
  soon = soon
  late = late
  Markets <- MCMarkets
  EndDate <- MCEndDate
  Listing <- MCListing
  Opened <- MCOpened
  NoRow = NoRow
  MaxAttempts = 2
  MaxClock = 1
  Artifacts <- MCArtifacts
  Writers <- MCWriters
  RunIds <- MCRunIds
  Plans <- MCPlans
  StrategyCount = 2
  MinToExpiry = 1
  MaxToExpiry = 3
  MaxStarts = 1
  MaxManual = 2
  NoMarket = NoMarket
  NoRun = NoRun
SPECIFICATION Spec
INVARIANTS
  BundlesAreWhole
  ResultsAreTruthful
  OutputsPointAtFiles
PROPERTIES
  RowsShowTheMarket
  AutomationEnds
CHECK_DEADLOCK FALSE
