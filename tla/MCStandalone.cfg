SPECIFICATION StandaloneSpec
CONSTANTS
  None = None
  Absent = Absent
  t1 = t1
  t2 = t2
  Threads = {t1, t2}
  Transports = {"Native", "Live"}
  BodyLimits = {1}
  Bodies = {1, 2}
  BatchLimit = 2
  WireCapacity = 1
  MaxSequence = 3
  MaxFailures = 2
  surface1 = surface1
  surface2 = surface2
  track1 = track1
  track2 = track2
  Objects = {surface1, surface2, track1, track2}
  ObjectClasses = {"Surface", "Track"}
  ClassOf <- MCClassOf
  QueueCapacity = 2
  Versions = 2
  MaxObservations = 2
  Emitters = {t1, t2}
  TraceCapacity = 2
  MaxRecords = 4
  Second = 4
  MaxRate = 3
  MaxCharge = 4
  MaxElapsed = 4
  MaxEarned = 8
CHECK_DEADLOCK FALSE
INVARIANTS OkMeansSent FlushedInTime FramesRead BeliefSound LossMarked WaitExact PacedWithinAToken
PROPERTIES ShutdownReturns DropDrains
