CONSTANTS
  c1 = c1
  c2 = c2
  Calls <- OneCall
  MaxActive = 2
  Mishaps = {"lost", "rejected", "broken", "eof", "old"}
SPECIFICATION QuestionsFairSpec
INVARIANTS
  AtMostOneResult
  AnswerIsTheRecordedOne
  NotesAreTrue
  NoStandingPush
PROPERTIES
  KeepsContract
  SilentAfterCancel
  CallsEnd
CHECK_DEADLOCK FALSE
