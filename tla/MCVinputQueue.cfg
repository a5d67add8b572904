SPECIFICATION FairSpec
CONSTANTS
  NDev = 2
  QSize = 3
  Cmd = {a}
  NoCmd = none
  PipeCap = 1
INVARIANTS
  NoLostWake
  GateBacked
  NoSlotRace
PROPERTIES
  ImplementsFifo
  EventsReachGuest
