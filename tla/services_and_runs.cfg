CONSTANTS
  Threads = {"t1", "t2"}
  MaxTokens = 2
  MaxSessions = 1
  Names <- MCNames
  Servers = 2
  MaxResponse = 3
  lab = lab
  home = home
  Sessions = {1, 2}
  MaxVersion = 2
  Areas <- OneArea
  Limit = 2
  Cap = 1
  MaxMishaps = 1
  MidRun = FALSE
SPECIFICATION PartsSpec
INVARIANTS
  ServerFollowsTheFile
  NoGrantIsLost
PROPERTIES
  TokenLockIsFreed
  LoginEnds
  AuthenticatedAnswered DoctorEnds
  EverySessionSettles
CHECK_DEADLOCK FALSE
