SPECIFICATION Spec
CONSTANTS
  Slots <- SomeSlots
  Indexes <- SomeIndexes
  Threads = 1
  Floor = 1
  Ceiling = 2
  MaxOutstanding = 1
  MaxCrashes = 1
  Nobody = Nobody
INVARIANTS SlotOwnedOnce NoSlotLost FloorKept
CHECK_DEADLOCK FALSE
