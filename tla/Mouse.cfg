SPECIFICATION Spec
CONSTANTS
  Buttons = {b0, b1}
  NoButtons = b0
  MaxMoves = 3
INVARIANTS TypeOK NeverMoreThanMoved LosesOnlyInside
