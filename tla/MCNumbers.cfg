SPECIFICATION NumbersSpec
CONSTANTS
  WordBits = 4
  Widths = {3, 6}
  Imms = {0, 1, 6, 15}
  Ops <- MCOps
  MantBits <- MCMantBits
  ExpBits <- MCExpBits
  Bits <- MCBits
  Reals <- MCReals
  RealScale = 4
VIEW NumbersView
INVARIANT TypeOK
PROPERTIES Implements FoldsToWellFormed FoldsFaithfully
