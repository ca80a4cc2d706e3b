CONSTANTS
  HalfRange = 8
  BLK_CNT = 4
  Sizes <- OneOrTwoBlocks
  Values <- OnePayload
  WeakRewind = TRUE
SPECIFICATION Spec
INVARIANT
  ShownIsOldest
