CONSTANTS
  MAX_CELLS = 4
  Symbols = {s1}
  NULL = NULL
  CStackDepth = 4
  MaxHeld = 2
  Programs = {"cons", "hold"}
SPECIFICATION Spec
INVARIANTS LiveNeverFree
CHECK_DEADLOCK FALSE
