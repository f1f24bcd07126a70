SPECIFICATION LiveSpec
CONSTANTS
  Workers = {w1, w2}
  Requests <- Rivals
  MaxRequests = 3
  Cells <- OneToTen
  CacheSlots <- CodeSlots
  PinSlots <- OnePin
  HostCap = 1
  ValueCap = 1
  PerRactorGC = TRUE
  NoOne = NoOne
INVARIANTS SlabExact CachedLive EnvOwn PinnedLive
PROPERTIES GcCompletes
CHECK_DEADLOCK FALSE
