SPECIFICATION Spec
CONSTANTS
  Input <- MCInput
  MaxFuncs = 4
INVARIANTS TypeOK CandidatesFound ViableKept NoneBetter
PROPERTY Terminates
CHECK_DEADLOCK FALSE
