CONSTANTS
  Daemons = {d1, d2}
  Stoppers = {}
  Procs <- MCProcs
  NoProc = NoProc
  NoFile = NoFile
  Torn = Torn
  sync = sync
  batch = batch
  Tasks <- MCTasks
  Interval <- MCInterval
  MaxTime = 4
  Faults = {"task", "snapshot", "interrupt", "kill"}
SPECIFICATION HistorySpec
INVARIANTS
  OneInstance
  RunsAreSpaced
  NothingLeftRunning
CHECK_DEADLOCK FALSE
