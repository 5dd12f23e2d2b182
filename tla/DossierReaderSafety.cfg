SPECIFICATION Spec
CONSTANTS
  None = None
  claims = claims
  runs = runs
  Question = question
  Sections = {claims, runs}
  Paged = {runs}
  LastPage = 1
  Initial <- OneSection
  Scopes = {s1, s2}
  Concurrency = 2
  MaxCalls = 2
SYMMETRY Symmetry
INVARIANTS
  TypeOK
  SlotsAgree
  NoReadForgotten
  NothingStaleShown
  LoadingHasARead
PROPERTIES
  RefusedInItsTurn
  TrueMeansShown
CHECK_DEADLOCK FALSE
