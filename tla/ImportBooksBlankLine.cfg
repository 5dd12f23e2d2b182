SPECIFICATION Spec
CONSTANTS
  None = None
  N = 6
  Blank = {2}
  BatchSize = 2
  Offsets = {0}
  Limits = {4, None}
  Outcomes = {"succeeded", "failed"}
  MaxFresh = 1
  MaxRuns = 4
INVARIANTS
  CompletedImportIsWhole
CHECK_DEADLOCK FALSE
