CONSTANTS
  RecordSizes = {1, 6, 40}
  MaxRecords = 4
  WindowSize = 4
  Overlap = 2
  AnswerSizes = {0, 2, 4}
  MergeInput = 8
  MergeOutput = 3
  Overhead = 1
  WindowOutput = 2
  Around = 1
  Attempts = 2
  RunCap = 60
  Whats <- MCWhats
  Quotes <- MCQuotes
  Lines = {"@L1", "@L2"}
  Dates = {"d1", "d2"}
  MaxRecord = 45
  MaxChars = 1010
  Heads = {5, 12}
  Timer = "timer"
  Operator = "operator"
  Counts = {1, 2}
  MaxRuns = 3
  Desks = {"b1", "b2"}
  Rulings = {"keep", "delete"}
  Clock = {1}
  MaxReviews = 1
  Slips = {"kill", "away"}
SPECIFICATION Spec
INVARIANTS
  WindowsCoverSession SummaryCoversSession ProjectionIsConservative
  CardIsWhole OnlyTheDateIsIgnored
  OperatorWordsAreTheOperators TakenWordsRender CutRecordsFit
  RunsAreSerial StatusTellsLastFullRun
PROPERTIES SessionEnds LockIsFreed RulingsReachAll
CHECK_DEADLOCK FALSE
