SPECIFICATION Spec
CONSTANTS
  WordBits = 2
  Widths = {1, 2, 3, 4, 5}
  Imms = {0, 1, 2, 3}
  Ops <- MCWithDivRem
VIEW MCView
PROPERTY DivRemInPlace
