SPECIFICATION FairSpec
CONSTANTS
  NScanout = 1
  QSize = 3
  Payload = {f1, f2, f3, f4}
  NoPayload = none
  NoFrame = dark
  MaxGen = 2
INVARIANTS
  NoOldFrame
  PayloadOwnedOnce
  PublishNeverDrops
PROPERTIES
  ClearReachesScreen
