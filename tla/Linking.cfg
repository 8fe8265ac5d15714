SPECIFICATION Spec
CONSTANTS
  Threads = {t1, t2}
  MaxLink = 2
  MaxDevice = 2
  Faults = TRUE
SYMMETRY Symmetry
INVARIANTS LinkedOnce SpentForDevice RevocationHolds
CHECK_DEADLOCK FALSE
