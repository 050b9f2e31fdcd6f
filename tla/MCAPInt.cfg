SPECIFICATION Spec
CONSTANTS
  WordBits = 2
  Widths = {1, 2, 3, 4, 5, 6}
  Imms = {0, 1, 2, 3}
  Ops <- MCOps
VIEW MCView
INVARIANT TypeOK
PROPERTY Implements
