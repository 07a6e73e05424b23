SPECIFICATION Spec
CONSTANTS
  Lines <- Spaced
  MaxLines = 5
  WithFile = TRUE
  Nested = TRUE
INVARIANTS
  TypeOK
  EvaluatesWhatWasEntered
  
CHECK_DEADLOCK FALSE
