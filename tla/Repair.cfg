SPECIFICATION Spec
CONSTANTS
  Requests = {"r1", "r2"}
  MinBars = {"r1"}
  Files = {"f"}
  Dirs = {"d"}
  N = 3
  DataShards = 2
  Versions = 2
  MaxDiffer = 1
  MaxFaults = 1
INVARIANT AllRepaired
INVARIANT BarRepairsExclusive
PROPERTY KeepsRecoverable
PROPERTY BarReleased
CHECK_DEADLOCK FALSE
