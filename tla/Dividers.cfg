SPECIFICATION AllSpec
CONSTANTS
  N = 7
  BenchN = 16
  Suites <- SparseFiles
INVARIANTS DivInv DigAnswers
PROPERTIES ImplementsDivider DigFinishes AllTestsPass
CHECK_DEADLOCK FALSE
