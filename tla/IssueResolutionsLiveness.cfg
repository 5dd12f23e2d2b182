SPECIFICATION FairSpec
CONSTANTS
  None = None
  Requests = {r1, r2}
  Issues = {i1, i2}
  Keys = {k1, k2}
  Bodies = {b1}
  MaxAttempts = 3
PROPERTIES
  EveryRequestIsAnswered
CHECK_DEADLOCK FALSE
