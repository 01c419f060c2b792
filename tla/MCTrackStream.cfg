SPECIFICATION StreamSpec
CONSTANTS
  c1 = c1
  c2 = c2
  c3 = c3
  n1 = n1
  n2 = n2
  None = None
  Conns <- MCConns
  Nonces <- MCNonces
  MaxRecordBody = 2
  MaxRevision = 4
  MaxFlow = 4
  InitialBytes = 2
  InitialRecords = 2
  MaxGeneration = 2
  MaxMediaId = 2
  MaxEpoch = 1
  QueueCapacity = 2
SYMMETRY MCSymmetry
CHECK_DEADLOCK FALSE
INVARIANTS InFlightFits OneMediaConnectionPerGeneration FirstMediaIsCurrent
PROPERTIES OnlyBoundIsCharged
