SPECIFICATION Spec
CONSTANTS
  r1 = r1
  r2 = r2
  Requests <- TwoRequests
  MaxSlots = 2
  BootSlots = 1
  LaneDepth = 1
  MayCrash <- FirstSlot
  MayHang <- NoSlot
  Elastic = TRUE
  ShutsDown = TRUE
SYMMETRY RequestSymmetry
INVARIANTS NoOrphanedLane OnePlace
CHECK_DEADLOCK FALSE
