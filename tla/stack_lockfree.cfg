CONSTANTS
  Thread = {t1, t2}
  Node = {n1, n2}
  Value = {v1}
  NULL = NULL
  Nothing = Nothing
  Empty = Empty
  MaxHazard = 2
  StoreBuffer = 1
  TlsMayFail = FALSE
  WeakMayFail = FALSE
SPECIFICATION LiveSpec
CHECK_DEADLOCK FALSE
PROPERTIES Linearizable LockFree
