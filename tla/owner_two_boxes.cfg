CONSTANTS
  lab = lab
  home = home
  Sessions = {1}
  MaxVersion = 3
  Areas <- TwoAreas
  Limit = 1
  Cap = 2
  MaxMishaps = 4
  MidRun = FALSE
  b1 = b1
  b2 = b2
  Boxes <- TwoBoxes
  Last = 2
  Share = Share
  Nobody = Nobody
SPECIFICATION PartsSpec
INVARIANT AloneAtWork
CHECK_DEADLOCK FALSE
