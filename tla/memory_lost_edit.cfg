CONSTANTS
  b1 = b1
  b2 = b2
  Boxes <- TwoBoxes
  Hub = Hub
  MaxTime = 2
  Plans <- OneDeletion
  Runs <- AnyRun
SPECIFICATION Spec
INVARIANT EditsStand
