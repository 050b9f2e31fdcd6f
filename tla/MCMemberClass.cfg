SPECIFICATION Spec
CONSTANTS
  Names = {"x", "y"}
  Protos <- MCProtos
  MaxNodes = 2
INVARIANTS MemberClassesParsed
CHECK_DEADLOCK FALSE
