SPECIFICATION LiveSpec
CONSTANTS
  r1 = r1
  r2 = r2
  Requests <- TwoRequests
  MaxSlots = 3
  BootSlots = 2
  LaneDepth = 1
  MayCrash <- FirstSlot
  MayHang <- FirstSlot
  Elastic = FALSE
  ShutsDown = FALSE
PROPERTIES BacklogStolen
CHECK_DEADLOCK FALSE
