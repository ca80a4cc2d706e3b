CONSTANTS
  Names = {A, B}
  NoName = NoName
  Fds = {1, 2}
  Values = {1}
  RingCap = 2
  MaxFailures = 0
  QuietServer = FALSE
SPECIFICATION Spec
INVARIANT NothingLost
