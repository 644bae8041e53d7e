CONSTANTS
  w1 = w1
  w2 = w2
  NoRoom = NoRoom
  Writers = {w1}
  Receivers <- BothEnds
  Traffic <- OneWriter
  MaxMsg = 2
  MaxPayload = 3
  Overhead = 1
SPECIFICATION FairSpec
CHECK_DEADLOCK FALSE
INVARIANTS
  TypeOK
  FramesIntact
  WithinLimits
PROPERTY EveryFrameArrives
