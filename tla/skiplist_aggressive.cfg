CONSTANTS
  Thread = {0, 1, 2}
  Value <- Keys
  Calls <- JobCalls
  Exclusive = FALSE
  MaxThreads = 2
  Tests = {"aggressive"}
  Elements = 1
  Reads = 1
  Cycles = 1
  Batch = 3
  Towers = 6
  TopLevel = 0
  MayFail = FALSE
  Absent = Absent
  Success = Success
  Failure = Failure
SPECIFICATION RunSpec
INVARIANT FreesEachTowerOnce
CHECK_DEADLOCK FALSE
