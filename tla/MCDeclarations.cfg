SPECIFICATION Spec
CONSTANTS
  Names = {"x", "y"}
  Protos <- MCProtos
  MaxNodes = 3
INVARIANTS TypeOK NoTwoEquivalent IdentPtrsValid OneDefinition ScopeOfDefinition BodySeesParams DefaultsTrail EachDefinedOnce
PROPERTIES MembersFirst
CHECK_DEADLOCK FALSE
