CONSTANTS
  FileSize = 3
  ChunkSize = 2
  Batch = 1
  MaxRetries = 1
  Direction = "up"
  Quiet = FALSE
  Resuming = FALSE
  SaveFails = FALSE
  Interruptible = FALSE
  Lossy = FALSE
  Faulty <- AllOffsets
SPECIFICATION FairSpec
CHECK_DEADLOCK FALSE
PROPERTY FirstErrorCancels
