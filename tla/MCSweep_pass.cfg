\* Two instances that move, are escalated, and may be loaded late or not at all.
SPECIFICATION Spec
CONSTANTS
  Key = {k1, k2}
  State = {"a", "b"}
  Initial = "a"
  Constraints <- Escalating
  Capacity = 1
  Evicts = FALSE
  MaxTime = 2
  MaxSends = 3
  MaxFaults = 1
  None = None
INVARIANTS
  OncePerEntry
PROPERTIES
  TrueWhenRecorded
  AimedAtItsState
SYMMETRY SymKeys
