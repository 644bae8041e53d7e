CONSTANTS
  w1 = w1
  w2 = w2
  NoRoom = NoRoom
  Writers = {w1, w2}
  Receivers <- ClientEnd
  Traffic <- TwoWorkers
  MaxMsg = 2
  MaxPayload = 3
  Overhead = 1
SPECIFICATION Spec
CHECK_DEADLOCK FALSE
INVARIANT FramesIntact
