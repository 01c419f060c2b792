SPECIFICATION Spec
CONSTANTS
  None = None
  Classes = {"key"}
  Capability = {"key"}
  MinWatchdog = 2
  MaxWatchdog = 2
  MaxGeneration = 3
  MaxTime = 3
  MaxEpoch = 2
  MaxSurfaceGeneration = 2
  LaneCapacity = 2
  MaxLaneFailures = 1
CHECK_DEADLOCK FALSE
INVARIANTS HeldUnderItsGrant HeldOnCurrentSurface EpochGrantedOnce
