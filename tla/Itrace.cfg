CONSTANTS
  N = 3
  Entry = {a, b, c}
  Blank = zero
SPECIFICATION Spec
INVARIANT TypeOK
PROPERTY ShowsTheLastInstructions
CHECK_DEADLOCK FALSE
