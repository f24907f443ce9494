\* A collision at initialization fails every later turn.
SPECIFICATION Spec
CONSTANTS
  Trigger = {t1, t2}
  State = {"a", "b"}
  Initial = "a"
  MaxAttempts = 1
  Settings <- Shared
  MaxForeign = 1
  MaxFaults = 0
  MaxNotes = 0
  None = None
  Other = Other
PROPERTIES
  CollisionIsNotFinal
