CONSTANTS
  HalfRange = 3
  HDR = 2
  InitSize = 6
  MaxSize = 8
  StackSize = 3
  Sizes <- SmallAndOversized
  PeerCap = 12
  WireCap = 4
  Ids = {1, 2, 3}
  SendCap = 1
  MaxReplies = 1
  MaxCloses = 1
SPECIFICATION FairSpec
INVARIANTS
  TypeOK
  Intact
  HostOrder
PROPERTIES
  ImplementsFifo
  Delivered
  ReleasesForward
