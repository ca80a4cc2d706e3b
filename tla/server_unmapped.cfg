CONSTANTS
  n1 = n1  n2 = n2  f1 = f1  f2 = f2
  N = 2
  MaxNewConnections = 1
  Names <- TwoNames
  Fds <- TwoFds
  FileErrors = TRUE
  NoFd = NoFd  NoName = NoName  NoConn = NoConn  Invalid = Invalid
SPECIFICATION Spec
INVARIANT PolledIsMapped
