CONSTANTS
  Thread = {t1, t2}
  Node = {n1, n2, n3}
  Value = {v1, v2}
  NULL = NULL
  Nothing = Nothing
  Empty = Empty
  MaxHazard = 1
  StoreBuffer = 0
  TlsMayFail = TRUE
  WeakMayFail = TRUE
SPECIFICATION Spec
VIEW View
SYMMETRY Symmetry
INVARIANTS TypeOK NothingLeaked SlotsExclusive
PROPERTIES Linearizable
CHECK_DEADLOCK FALSE
