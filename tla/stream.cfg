SPECIFICATION ReadingSpec
CONSTANTS
  Kinds <- AllKinds
  Modes <- BothModes
  Chunks = 3
  StreamBuffer = 2
  MayRaise = TRUE
  MayCrash = TRUE
  RequestTimeout = TRUE
  ShutsDown = TRUE
INVARIANTS EachEndsComplete BackstopLeavesNothing
PROPERTIES EveryExchangeEnds WorkerReleased ShutdownReturns
CHECK_DEADLOCK FALSE
