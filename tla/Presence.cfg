SPECIFICATION PresenceSpec
CONSTANTS
  Sessions = {s1, s2}
  Watchers = {w1}
SYMMETRY Symmetry
INVARIANTS ListedUnlessRaced TruthTold ClosedLeavesNothing
CHECK_DEADLOCK FALSE
