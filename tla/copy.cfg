CONSTANTS
  Worlds <- AllWorlds
  Commands <- AllCommands
  Identity <- NoIdentity
  Longer <- LongerOnes
  MaxFaults = 1
SPECIFICATION Spec
CHECK_DEADLOCK FALSE
INVARIANTS
  TypeOK
  SuccessMeansCopied
  OnlyBelowDst
  FeasibleSucceeds
