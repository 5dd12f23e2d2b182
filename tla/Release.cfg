SPECIFICATION Spec
CONSTANTS
  Invocations = {x1, x2, x3}
  Sources = {s1, s2}
  First = First
  None = None
SYMMETRY Symmetry
INVARIANTS TypeOK OneAttemptPerAuthorization AcceptedMeansAuthorized ReportsAreTrue
CHECK_DEADLOCK FALSE
