SPECIFICATION Spec
CONSTANTS
  None = None
  Empty = Empty
  Calls = {c1, c2, c3}
  Books = {b1, b2}
  b1 = b1
  b2 = b2
  ssid = ssid
  dxid = dxid
  Ssids = {ssid}
  Dxids = {dxid}
  Secondary <- SameIdentities
  Tabs = {t1}
  OpenAtOnce = 1
  Shown = {b1}
  Abroad = {"save", "updateNote", "deleteNote", "deleteLink"}
INVARIANTS
  TypeOK
  OneChainPerDocument
  NobodyWaitsInACircle
PROPERTIES
  NothingOverwrittenUnseen
  DraftsAreKept
CHECK_DEADLOCK FALSE
