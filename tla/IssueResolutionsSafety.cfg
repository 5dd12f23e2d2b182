SPECIFICATION Spec
CONSTANTS
  None = None
  Requests = {r1, r2, r3}
  Issues = {i1}
  Keys = {k1, k2}
  Bodies = {b1, b2}
  MaxAttempts = 3
SYMMETRY Symmetry
INVARIANTS
  TypeOK
  ReceiptNamesItsResolution
  HistoryIsLinear
  SuccessIsTrue
PROPERTIES
  NothingAddedToArchive
  ImplementsRegister
CHECK_DEADLOCK FALSE
