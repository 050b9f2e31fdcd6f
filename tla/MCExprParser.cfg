SPECIFICATION Spec
CONSTANTS
  Input <- MCInput
  TopEnds = {"SEMICOLON"}
  OpKinds = {"IDENTIFIER", "ADD", "MUL", "ASSIGN", "INC", "MEMB_SEL", "LOGICAL_NOT"}
  MaxOps = 5
  BracketKinds = {"IDENTIFIER", "L_PAREN", "R_PAREN", "L_SQBRACKET", "R_SQBRACKET", "COMMA", "SUB"}
  MaxBrackets = 4
INVARIANTS TypeOK OperandBalance OpsSorted SilentCrashOnlyIfEmpty GrammaticalParsed
PROPERTIES NestedReadOnce Terminates
CHECK_DEADLOCK FALSE
