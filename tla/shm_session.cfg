CONSTANTS
  Names = {A, B}
  NoName = NoName
  Fds = {1, 2}
  Values = {1}
  RingCap = 2
  MaxFailures = 3
  QuietServer = TRUE
SPECIFICATION FairSpec
INVARIANTS
  TypeOK
  SharedOnly
  SameRings
  NothingLost
PROPERTY Recovers
