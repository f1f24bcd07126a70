SPECIFICATION Spec
CONSTANTS
  r1 = r1
  r2 = r2
  w1 = w1
  w2 = w2
  w3 = w3
  Requests <- TwoRequests
  Workers <- ThreeWorkers
  Booted <- TwoWorkers
  MayCrash <- OneWorker
  MayHang <- NoWorker
  QueueDepth = 1
  BatchSize = 2
  Supervised = TRUE
  RequestTimeout = TRUE
  CloseRaises = FALSE
  Elastic = TRUE
  ShutsDown = FALSE
SYMMETRY RequestSymmetry
INVARIANTS TypeOK OwnedOnce Answerable ListedWhileHeld BatchAnsweredAtCheckout NoClientWaitsForGC
CHECK_DEADLOCK FALSE
