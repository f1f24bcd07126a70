SPECIFICATION StalledSpec
CONSTANTS
  Kinds <- OnlyEach
  Modes <- OnlyRactor
  Chunks = 2
  StreamBuffer = 1
  MayRaise = FALSE
  MayCrash = FALSE
  RequestTimeout = FALSE
  ShutsDown = TRUE
PROPERTIES ShutdownReturns
CHECK_DEADLOCK FALSE
