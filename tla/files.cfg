CONSTANTS
  w1 = w1
  w2 = w2
  p1 = p1
  p2 = p2
  Workers <- TwoWorkers
  Paths <- TwoPaths
  Blocks = 2
  Sizes = {1}
  MaxRequests <- Mixed
  MaxTotal = 4
  DiskFails = TRUE
  Removable <- SecondPath
SPECIFICATION Spec
CHECK_DEADLOCK FALSE
SYMMETRY WorkerSymmetry
INVARIANTS
  TypeOK
  CacheOwnsOpen
  AckedIsStored
  HashIsExact
