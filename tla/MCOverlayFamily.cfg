SPECIFICATION FamilySpec
CONSTANTS
  a1 = a1
  a2 = a2
  b1 = b1
  A = A
  B = B
  None = None
  Ids <- FamilyIds
  Owners = {A}
  Owner <- FamilyOwner
  Shapes <- FamilyShapes
  Regions = {1}
  Buttons = {1}
  MaxWindows = 2
  MaxWindowsPerOwner = 2
  MaxOwners = 2
  MaxPending = 3
  MaxRevision = 3
  MaxScene = 2
CONSTRAINT SmallScenes
CHECK_DEADLOCK FALSE
INVARIANTS StackedAboveParents CaptureVisible FocusTold
PROPERTIES NoTransitionDropped
