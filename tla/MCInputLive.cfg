SPECIFICATION FairSpec
CONSTANTS
  None = None
  Classes = {"key", "axis"}
  Capability = {"key"}
  MinWatchdog = 2
  MaxWatchdog = 2
  MaxGeneration = 9
  MaxTime = 4
  MaxEpoch = 2
  MaxSurfaceGeneration = 1
  LaneCapacity = 1
  MaxLaneFailures = 1
CHECK_DEADLOCK FALSE
INVARIANTS GateGrantIsPresenters
PROPERTIES StaleGrantEnds
