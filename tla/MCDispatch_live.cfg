\* Handlers may hang: the timeout ends every turn, beside another runtime.
SPECIFICATION FairSpec
CONSTANTS
  Trigger = {t1, t2}
  State = {"a", "b"}
  Initial = "a"
  MaxAttempts = 2
  Settings <- Hanging
  MaxForeign = 1
  MaxFaults = 0
  MaxNotes = 0
  None = None
  Other = Other
INVARIANTS
  FailureIsReported
PROPERTIES
  ImplementsOptimisticKey
  EveryTurnEnds
