CONSTANTS
  r1 = r1
  r2 = r2
  Unknown = Unknown
  Nothing = Nothing
  Runs = {r1, r2}
  Links <- MCLinks
  Snapshots <- MCSnapshots
SPECIFICATION Spec
INVARIANTS
  GateFitsTheMarket
PROPERTIES
  SwitchesAreSound
CHECK_DEADLOCK FALSE
