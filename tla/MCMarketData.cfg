CONSTANTS
  yes = yes
  no = no
  other = other
  Tokens <- MCTokens
  NoBook = NoBook
  NoPrice = NoPrice
  NoRow = NoRow
  Books <- MCBooks
  MaxClock = 2
  Universe <- MCUniverse
  HistoryChunkSize = 2
  HistoryInterval = 1
  BookChunkSize = 1
  Collector = collector
  Backfiller = backfiller
  MaxMessages = 2
  RecentHistory = 1
  InboxSize = 1
  MaxStarts <- MCStarts
SPECIFICATION Spec
INVARIANTS
  RawFirst
  GapRowsAreExplained
  GapsCoverTheSession
  LatestRowsWereTrue
  RepairIsComplete
PROPERTIES
  KeepsTheUniverse
CHECK_DEADLOCK FALSE
