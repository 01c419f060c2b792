SPECIFICATION OverlaySpec
CONSTANTS
  a1 = a1
  a2 = a2
  b1 = b1
  A = A
  B = B
  None = None
  Ids <- FamilyIds
  Owners = {A}
  Owner <- FamilyOwner
  Shapes <- FamilyShapes
  Regions = {}
  Buttons = {}
  MaxWindows = 2
  MaxWindowsPerOwner = 2
  MaxOwners = 2
  MaxPending = 3
  MaxRevision = 2
  MaxScene = 0
CHECK_DEADLOCK FALSE
INVARIANT FocusLive
