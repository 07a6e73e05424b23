SPECIFICATION Spec
CONSTANTS
  KBUFSZ = 5
  MaxPresses = 7
  MaxReads = 6
INVARIANTS TypeOK
PROPERTIES IsQueue
