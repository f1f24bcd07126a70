SPECIFICATION LiveSpec
CONSTANTS
  r1 = r1
  r2 = r2
  w1 = w1
  w2 = w2
  w3 = w3
  Requests <- TwoRequests
  Workers <- TwoWorkers
  Booted <- OneWorker
  MayCrash <- OneWorker
  MayHang <- OneWorker
  QueueDepth = 1
  BatchSize = 1
  Supervised = TRUE
  RequestTimeout = FALSE
  CloseRaises = FALSE
  Elastic = FALSE
  ShutsDown = TRUE
PROPERTIES EveryRequestSettles ShutdownReturns CloseReleasesWorkers
CHECK_DEADLOCK FALSE
