SPECIFICATION FairSpec
CONSTANTS
  None = None
  claims = claims
  runs = runs
  Question = question
  Sections = {claims, runs}
  Paged = {runs}
  LastPage = 1
  Initial <- TwoSections
  Scopes = {s1}
  Concurrency = 1
  MaxCalls = 2
INVARIANTS
  SectionsFollow
PROPERTIES
  EveryReadIsAnswered
CHECK_DEADLOCK FALSE
