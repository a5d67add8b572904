SPECIFICATION PlicFairSpec
CONSTANTS
  NHart = 3
  NCtx = 32
  Src = {1, 2}
INVARIANTS
  ServedOnce
  NoMissedInterrupt
PROPERTIES
  PendingHandedOut
