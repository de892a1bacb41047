CONSTANTS
  Thread = {0, 1, 2}
  Value <- Keys
  Calls <- JobCalls
  Exclusive = FALSE
  MaxThreads = 2
  Tests = {"correctness", "insert", "remove", "search", "mixed"}
  Elements = 1
  Reads = 2
  Cycles = 0
  Batch = 1
  Towers = 2
  TopLevel = 1
  MayFail = TRUE
  Absent = Absent
  Success = Success
  Failure = Failure
SPECIFICATION FairSpec
INVARIANTS FreesEachTowerOnce FinalContents
PROPERTIES VerdictRight Terminates
CHECK_DEADLOCK FALSE
