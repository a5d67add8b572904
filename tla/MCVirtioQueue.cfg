SPECIFICATION FairSpec
CONSTANTS
  Devices = {"blk", "fs", "gpu", "rng", "statusq", "eventq", "tx", "rx"}
  QNum = 2
  IdxMod = 4
  Buf = {0, 1}
  Packets = {2, 3}
INVARIANTS
  TypeOK
  UsedRaisesLine
  FailsOnlyIfRefused
PROPERTIES
  ImplementsBufferLoop
  RequestsAnswered
  UsedCollected
