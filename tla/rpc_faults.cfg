CONSTANTS
  c1 = c1
  c2 = c2
  c3 = c3
  k1 = k1
  k2 = k2
  NoMsg = NoMsg
  Callers <- TwoCallers
  Conns <- TwoConns
  MaxFaults = 1
  Cancellable = TRUE
  Restartable = TRUE
SPECIFICATION FairSpec
CHECK_DEADLOCK FALSE
INVARIANTS
  TypeOK
  RightReply
  OnePlace
PROPERTIES
  ImplementsRpc
  CallsReturn
