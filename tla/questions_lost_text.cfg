CONSTANTS
  c1 = c1
  c2 = c2
  Calls <- OneCall
  MaxActive = 2
  Mishaps = {}
SPECIFICATION QuestionsSpec
INVARIANT NothingTypedIsLost
CHECK_DEADLOCK FALSE
