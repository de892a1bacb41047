CONSTANTS
  Thread = {t1, t2, t3}
  CyclesToSpin = 2
  MinBackoff = 1
  MaxBackoff = 4
SPECIFICATION FairSpec
INVARIANTS TypeOK BackoffBounded
PROPERTIES Excludes DeadlockFree
