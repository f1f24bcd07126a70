SPECIFICATION Spec
CONSTANTS
  r1 = r1
  r2 = r2
  w1 = w1
  w2 = w2
  w3 = w3
  Requests <- TwoRequests
  Workers <- TwoWorkers
  Booted <- TwoWorkers
  MayCrash <- OneWorker
  MayHang <- NoWorker
  QueueDepth = 1
  BatchSize = 2
  Supervised = FALSE
  RequestTimeout = TRUE
  CloseRaises = TRUE
  Elastic = FALSE
  ShutsDown = TRUE
SYMMETRY RequestSymmetry
INVARIANTS InFlightExact NothingLeftBehind
PROPERTIES KeepsPromise
CHECK_DEADLOCK FALSE
