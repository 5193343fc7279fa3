CONSTANTS
  lab = lab
  home = home
  Sessions = {1}
  MaxVersion = 2
  Areas <- OneArea
  Limit = 1
  Cap = 2
  MaxMishaps = 1
  MidRun = FALSE
SPECIFICATION Spec
INVARIANT CardMatchesCopy
CHECK_DEADLOCK FALSE
