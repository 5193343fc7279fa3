CONSTANTS
  c1 = c1
  c2 = c2
  Calls <- TwoCalls
  MaxActive = 2
  Mishaps = {"broken", "eof"}
SPECIFICATION QuestionsSpec
SYMMETRY Interchangeable
INVARIANTS
  LockMatchesDialogs
  OneLiveDialogShown
CHECK_DEADLOCK FALSE
