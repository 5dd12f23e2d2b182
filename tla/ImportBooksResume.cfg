SPECIFICATION Spec
CONSTANTS
  None = None
  N = 9
  Blank = {3, 6}
  BatchSize = 2
  Offsets = {0, 3}
  Limits = {4, 7, None}
  Outcomes = {"succeeded", "failed"}
  MaxFresh = 1
  MaxRuns = 5
INVARIANTS
  TypeOK
  CheckpointCoversIndex
  CompletedImportIsWhole
  ReportAddsUp
CHECK_DEADLOCK FALSE
