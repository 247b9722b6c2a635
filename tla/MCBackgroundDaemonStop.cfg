CONSTANTS
  Daemons = {d1}
  Stoppers = {s1}
  Procs <- MCProcs
  NoProc = NoProc
  NoFile = NoFile
  Torn = Torn
  sync = sync
  batch = batch
  Tasks <- MCTasks
  Interval <- MCInterval
  MaxTime = 2
  Faults = {"interrupt", "kill"}
SPECIFICATION FairSpec
PROPERTIES
  DueTasksRun
  StopIsHonoured
CHECK_DEADLOCK FALSE
