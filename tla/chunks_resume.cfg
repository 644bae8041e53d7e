CONSTANTS
  FileSize = 7
  ChunkSize = 2
  Batch = 2
  MaxRetries = 1
  Direction = "down"
  Quiet = FALSE
  Resuming = TRUE
  SaveFails = TRUE
  Interruptible = TRUE
  Lossy = FALSE
  Faulty <- FirstAndLast
SPECIFICATION Spec
CHECK_DEADLOCK FALSE
INVARIANTS
  SavedIsConfirmed
  ConfirmedSurvives
  BarHonest
