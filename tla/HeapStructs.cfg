SPECIFICATION FairSpec
CONSTANTS
  MAX_CELLS = 5
  Symbols = {s1}
  NULL = NULL
  CStackDepth = 5
  MaxHeld = 2
  Programs = {"struct", "cycle"}
INVARIANTS LiveNeverFree
PROPERTIES  GcReturns
CHECK_DEADLOCK FALSE
