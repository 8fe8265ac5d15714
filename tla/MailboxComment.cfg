SPECIFICATION MCSpec
CONSTANTS
  Loop = loop
  Nobody = nobody
  Threads = {t1, t2}
  Users = {u1}
  MaxMsg = 2
  Faults = FALSE
INVARIANT ConfirmDeletesBlob
CHECK_DEADLOCK FALSE
