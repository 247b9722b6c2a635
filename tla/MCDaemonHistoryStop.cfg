CONSTANTS
  Daemons = {d1}
  Stoppers = {s1}
  Procs <- MCProcs
  NoProc = NoProc
  NoFile = NoFile
  Torn = Torn
  sync = sync
  batch = batch
  Tasks <- MCTasks
  Interval <- MCInterval
  MaxTime = 3
  Faults = {}
SPECIFICATION HistorySpec
INVARIANT RunsAreSpaced
CHECK_DEADLOCK FALSE
