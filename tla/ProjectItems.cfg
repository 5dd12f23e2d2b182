SPECIFICATION SpecInOrder
CONSTANTS
  None = None
  Calls = {c1, c2, c3, c4}
  c1 = c1
  c2 = c2
  c3 = c3
  c4 = c4
  Editions = {e1}
INVARIANTS
  TypeOK
  NoteHasItsItem
  RevisionsFormOneLine
  NeverCorrupt
PROPERTIES
  ImplementsItemRegister
  EveryCallIsAnswered
CHECK_DEADLOCK FALSE
