SPECIFICATION LiveSpec
CONSTANTS
  MaxSize = 5
  FrameMax = 4
  Limits <- NoneOrThree
  BodyBuffer = 1
  ChunkSize = 2
  Lengths <- SomeLengths
  Newlines <- SecondByte
INVARIANTS BytesInOrder LiveEofIsWhole
PROPERTIES ReadReturns ForwarderStops
CHECK_DEADLOCK FALSE
