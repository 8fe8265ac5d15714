SPECIFICATION Spec
CONSTANTS
  Threads = {t1, t2}
  Devices = {d1, d2}
  NoDevice = nodevice
  MaxToken = 3
  Faults = FALSE
SYMMETRY Symmetry
INVARIANTS RotatedOnce ValidIsUsable
CHECK_DEADLOCK FALSE
