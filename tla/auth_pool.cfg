CONSTANTS
  alice = alice
  bob = bob
  a = a
  b = b
  w1 = w1
  w2 = w2
  Login = Login
  NoKey = NoKey
  Clients <- TwoClients
  Authorized <- OneClient
  Pool <- TwoConns
  Workers <- TwoWorkers
  MaxFiles = 1
  Careless <- Bob
  MaxStray = 1
SPECIFICATION FairSpec
CHECK_DEADLOCK FALSE
INVARIANTS
  TypeOK
  NeverTurnedAway
  RunsAsOwner
PROPERTY EveryoneIsServed
