SPECIFICATION Spec
CONSTANTS
  Threads = {t1, t2}
  Loop = loop
  Users = {u1}
  Nobody = nobody
  MaxFile = 2
  MaxFault = 1
INVARIANTS LeaksNeedFault AccountLeavesNothing
PROPERTIES LifeKept ExpiredPurged
CHECK_DEADLOCK FALSE
