SPECIFICATION Spec
CONSTANTS
  Input <- MCInput
  MaxFuncs = 1
CHECK_DEADLOCK FALSE
INVARIANT ThisIsPassed
