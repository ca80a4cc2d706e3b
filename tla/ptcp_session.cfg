CONSTANTS
  HalfRange = 3
  BLK_CNT = 2
  Fds = {1, 2}
  WireCap = 2
  RecvCap = 2
  MsgLens = {1, 2}
  Senders <- OnlyServer
  MaxPushes = 6
  MaxFailures = 1
  FailureCost = 0
  TwoThreads = FALSE
  StalePoll = FALSE
  LateLogin = FALSE
SPECIFICATION Spec
INVARIANTS
  TypeOK
  IndexOrder
  InOrder
  
  
  AcksRecent
 
