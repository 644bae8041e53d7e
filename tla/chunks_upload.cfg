CONSTANTS
  FileSize = 7
  ChunkSize = 2
  Batch = 2
  MaxRetries = 0
  Direction = "up"
  Quiet = FALSE
  Resuming = TRUE
  SaveFails = FALSE
  Interruptible = TRUE
  Lossy = TRUE
  Faulty <- FirstAndLast
SPECIFICATION FairSpec
CHECK_DEADLOCK FALSE
INVARIANTS
  TypeOK
  SemBound
  NilMeansComplete
  QuietAfterSuccess
PROPERTY Returns
