SPECIFICATION Spec
CONSTANTS
  r1 = r1
  r2 = r2
  p1 = p1
  p2 = p2
  Requests = {r1, r2}
  Slots <- MCSlots
  Batch = 2
  Bounds <- MCBounds
  Timeout = 0
  Probes = {p1, p2}
  ControlCap = 1
  SinkDepth = 2
  Configs <- MCConfigs
  Nobody = nobody
INVARIANT ReportTrue
PROPERTIES LogDrains ProbeEnds
CHECK_DEADLOCK FALSE
