\* Every kind of constraint under every policy, and the edges adopted.
SPECIFICATION Spec
CONSTANTS
  Unset = Unset
  Adopt = Adopt
  None = None
  Releases <- Workflows
  Types = {"go", "odd"}
  Names = {"a", "b", "c"}
  Values = {1}
  MaxEvents = 5
INVARIANTS
  UnreachableStaysEmpty
  InvariantsHoldOnceChecked
  ObservedMovesStayOpen
PROPERTIES
  VerdictFollowsTheDeclaration
