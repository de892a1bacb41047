CONSTANTS
  Thread = {t1, t2, t3}
  Tower = {n1, n2}
  NULL = NULL
  Cells = 6
  NumEpochs = 4
  TlsMayFail = TRUE
  Garbage <- GarbageChars
SYMMETRY Symmetry
SPECIFICATION Spec
INVARIANTS EpochStuck RetiredOnce
CHECK_DEADLOCK FALSE
