SPECIFICATION MCSpec
CONSTANTS
  Loop = loop
  Nobody = nobody
  Threads = {t1, t2}
  Users = {u1, u2}
  MaxMsg = 2
  Faults = FALSE
SYMMETRY Symmetry
INVARIANTS ServedIsContent RowsBacked BlobsOwned LossNeedsOverlap
PROPERTY LifeKept
CHECK_DEADLOCK FALSE
