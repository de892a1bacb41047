CONSTANTS
  MaxThreads = 4
  ThreadStep = 1
  NumRuns = 2
  NumAcquisitions = 2
  NumCycles = 2
  MaxTime = 1
  MayFail = TRUE
SPECIFICATION FairSpec
INVARIANTS NeverWrong JobsInv
PROPERTIES NoLostUpdate ReportsLastRun Terminates
CHECK_DEADLOCK FALSE
