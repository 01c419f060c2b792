SPECIFICATION Spec
CONSTANTS
  None = None
  Classes = {"key"}
  Capability = {"key"}
  MinWatchdog = 2
  MaxWatchdog = 2
  MaxGeneration = 9
  MaxTime = 4
  MaxEpoch = 2
  MaxSurfaceGeneration = 1
  LaneCapacity = 3
  MaxLaneFailures = 0
CHECK_DEADLOCK FALSE
INVARIANTS GateHoldsPresenterGeneration
