SPECIFICATION FaultSpec
CONSTANTS
  Loop = loop
  Nobody = nobody
  Threads = {t1}
  Users = {u1}
  MaxMsg = 2
  Faults = TRUE
  MaxFault = 1
INVARIANT Durable
PROPERTIES ExpiredPurged ConfirmRemoves
CHECK_DEADLOCK FALSE
