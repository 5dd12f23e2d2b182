SPECIFICATION Spec
CONSTANTS
  None = None
  N = 6
  Blank = {}
  BatchSize = 2
  Offsets = {0}
  Limits = {4, None}
  Outcomes = {"succeeded", "failed"}
  MaxFresh = 2
  MaxRuns = 4
INVARIANTS
  CompletedImportIsWhole
CHECK_DEADLOCK FALSE
