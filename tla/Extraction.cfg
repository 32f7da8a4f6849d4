SPECIFICATION Spec
CONSTANTS
  Names = {"f", "g"}
  Callees = {"f"}
  Types <- MCTypes
  MaxNodes = 4
INVARIANTS ShownIsInside DepthFollowsNesting
CHECK_DEADLOCK FALSE
