SPECIFICATION Spec
CONSTANTS
  None = None
  Unread = Unread
  Calls = {c1, c2}
  Old = {p}
  Keys = {k1, k2}
  Bodies = {b1}
PROPERTY KeptUntilJudged
