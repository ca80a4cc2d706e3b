CONSTANTS
  HalfRange = 6
  BLK_CNT = 3
  Sizes <- OneOrTwoBlocks
  Values <- Payloads
  WeakRewind = FALSE
SPECIFICATION FairSpec
INVARIANTS
  TypeOK
  NoOverrun
PROPERTIES
  NoClobber
  ImplementsFifo
  ReaderProgress
  FullIsTemporary
