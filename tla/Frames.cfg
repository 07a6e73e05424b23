SPECIFICATION Spec
CONSTANTS
  ARG_SPILLOVER = 2
  MaxParams = 3
  MaxLets = 2
  MaxArgs = 3
  MaxDepth = 2
  Forms = {"prim", "call", "let", "if", "do", "list", "struct"}
  Ascending = TRUE
INVARIANTS TypeOK SpCountsPushes LoadsFindTheirWord ReturnsToCaller
CHECK_DEADLOCK FALSE
