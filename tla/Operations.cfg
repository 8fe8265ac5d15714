SPECIFICATION FairSpec
CONSTANTS
  Databases <- MCDatabases
  Messages = {m1}
  MaxSnap = 1
  MaxFault = 2
INVARIANTS RestoreServes DrainHolds
PROPERTY Served
