SPECIFICATION Spec
CONSTANTS
  Tokens <- MCTokens
  MaxTokens = 7
  MaxDepth = 3
  InitSize = 3
INVARIANTS TypeOK ReadsWhatIsWritten BuffersHold
CHECK_DEADLOCK FALSE
