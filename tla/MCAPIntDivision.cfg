SPECIFICATION Spec
CONSTANTS
  WordBits = 2
  Widths = {3}
  Imms = {0, 1, 2, 3}
  Ops <- MCWithLongDivision
VIEW MCView
PROPERTY LongDivisionExact
