CONSTANTS
  c1 = c1
  c2 = c2
  c3 = c3
  k1 = k1
  k2 = k2
  NoMsg = NoMsg
  Callers <- ThreeCallers
  Conns <- OneConn
  MaxFaults = 1
  Cancellable = FALSE
  Restartable = FALSE
SPECIFICATION FairSpec
CHECK_DEADLOCK FALSE
PROPERTY PoolRecovers
