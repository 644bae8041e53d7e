CONSTANTS
  FileSize = 7
  ChunkSize = 2
  Batch = 2
  MaxRetries = 1
  Direction = "up"
  Quiet = FALSE
  Resuming = FALSE
  SaveFails = FALSE
  Interruptible = FALSE
  Lossy = FALSE
  Faulty <- NoOffsets
SPECIFICATION Spec
CHECK_DEADLOCK FALSE
INVARIANT ConfirmedSurvives
