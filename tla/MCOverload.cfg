SPECIFICATION Spec
CONSTANTS
  Names = {"x", "y"}
  Protos <- MCProtos
  MaxNodes = 2
INVARIANTS IdentHoldsOverload
CHECK_DEADLOCK FALSE
