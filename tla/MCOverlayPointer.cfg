SPECIFICATION OverlaySpec
CONSTANTS
  a1 = a1
  a2 = a2
  b1 = b1
  A = A
  B = B
  None = None
  Ids <- RivalIds
  Owners = {A, B}
  Owner <- RivalOwner
  Shapes <- RivalShapes
  Regions = {1}
  Buttons = {1}
  MaxWindows = 2
  MaxWindowsPerOwner = 2
  MaxOwners = 2
  MaxPending = 1
  MaxRevision = 2
  MaxScene = 0
CHECK_DEADLOCK FALSE
INVARIANT HoverTold
PROPERTIES OwnerIsolation ModalNotStolen OnlyModalHears
