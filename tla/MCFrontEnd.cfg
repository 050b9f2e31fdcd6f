SPECIFICATION Spec
CONSTANTS
  Texts <- MCTexts
  IntBits = 3
  LongBits = 5
  LongLongBits = 5
INVARIANTS TypeOK PositionsTrue MaximalMunch NothingLost IntLiterals SymbolsShared ReadsInside
INVARIANTS ExitStatus DiagsKept PrintsInside DeclaredTypes AcceptedOnly
PROPERTY PhasesSpec
