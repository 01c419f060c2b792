SPECIFICATION FileDropSpec
CONSTANTS
  None = None
  Prefix = 1
  MaxGrantGeneration = 2
  MaxTransferGeneration = 2
  Lengths = {0, 2}
  InitialCredits <- StartCredits
  MaxEpoch = 2
  MaxControl = 1
CHECK_DEADLOCK FALSE
INVARIANTS ResumesExactly CommittedOnce GrantNamedOnce
PROPERTY TransferEnds
