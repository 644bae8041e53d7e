CONSTANTS
  a = a
  b = b
  Hole = Hole
  Absent = Absent
  NoState = NoState
  Directions <- Both
  Versions <- ThreeVersions
  ChunkSizes <- OneOrTwo
  Leftover = TRUE
  MaxFaults = 1
  MaxEdits = 1
SPECIFICATION FairSpec
CHECK_DEADLOCK FALSE
INVARIANTS
  TypeOK
  UnchangedIsCopied
PROPERTIES
  ImplementsCopy
  RetrySucceeds
