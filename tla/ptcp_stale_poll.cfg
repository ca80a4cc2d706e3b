CONSTANTS
  HalfRange = 3
  BLK_CNT = 2
  Fds = {1, 2}
  WireCap = 1
  RecvCap = 1
  MsgLens = {1}
  Senders <- OnlyClient
  MaxPushes = 6
  MaxFailures = 1
  FailureCost = 1
  TwoThreads = FALSE
  StalePoll = TRUE
  LateLogin = FALSE
SPECIFICATION Spec
INVARIANT InOrder
