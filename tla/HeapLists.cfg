SPECIFICATION Spec
CONSTANTS
  MAX_CELLS = 4
  Symbols = {s1}
  NULL = NULL
  CStackDepth = 4
  MaxHeld = 2
  Programs = {"cons", "fn", "mount"}
INVARIANTS TypeOK FreeListSound LiveNeverFree MarkedExactly
PROPERTIES LiveCellsKeepContents NoGarbageLeft
CHECK_DEADLOCK FALSE
