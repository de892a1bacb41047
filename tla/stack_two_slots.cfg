CONSTANTS
  Thread = {t1, t2}
  Node = {n1, n2, n3, n4}
  Value = {v1}
  NULL = NULL
  Nothing = Nothing
  Empty = Empty
  MaxHazard = 2
  StoreBuffer = 0
  TlsMayFail = FALSE
  WeakMayFail = TRUE
SPECIFICATION Spec
VIEW View
SYMMETRY Symmetry
INVARIANTS RetiredBounded StackInv
PROPERTIES NoFreeWhileProtected Linearizable
