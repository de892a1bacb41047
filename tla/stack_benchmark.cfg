CONSTANTS
  MaxThreads = 3
  ThreadStep = 1
  Tests <- BenchmarkTests
  MaxTime = 1
  MayFail = TRUE
  Nothing = Nothing
  Empty = Empty
SPECIFICATION Spec
INVARIANTS TypeOK PopsFindValues RoundInv
PROPERTIES VerdictRight ReportsLongest
CHECK_DEADLOCK FALSE
