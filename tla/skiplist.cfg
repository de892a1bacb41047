CONSTANTS
  Left = Left
  Right = Right
  Thread = {Left, Right}
  Value = {"v", "w"}
  Calls <- CallsOf
  Exclusive = TRUE
  Towers = 3
  TopLevel = 1
  MayFail = FALSE
  Absent = Absent
  Success = Success
  Failure = Failure
SPECIFICATION Spec
INVARIANTS TypeOK RetiredUnlinked ListShape
PROPERTIES Linearizable MarksFinal RetiredOnce
