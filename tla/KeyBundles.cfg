SPECIFICATION Spec
CONSTANTS
  Threads = {t1, t2}
  Closers = {c1}
  Devices = {d1}
  Recovery = recovery
  Identities = {i1, i2}
  Prekeys = {p1, p2}
  Size = 2
  MaxUpload = 2
  NoRow = NoRow
  NoKey = NoKey
  Faults = TRUE
SYMMETRY Symmetry
INVARIANTS PoolAccounted TornNeedsOverlap RevokedGone OneRowPerDevice AnswerWhole
PROPERTIES KeysOnce VersionsCount
CHECK_DEADLOCK FALSE
