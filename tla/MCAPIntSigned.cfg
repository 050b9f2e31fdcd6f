SPECIFICATION Spec
CONSTANTS
  WordBits = 2
  Widths = {1}
  Imms = {0, 1, 2, 3}
  Ops <- MCWithSignedCmp
VIEW MCView
PROPERTY SignedCmpOrders
