SPECIFICATION RatchetSpec
CONSTANTS
  Alice = alice
  Bob = bob
  MaxMsg = 5
  MaxKey = 11
INVARIANTS FailsOnlyBehindLoss KeysFresh
CHECK_DEADLOCK FALSE
