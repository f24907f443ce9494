\* Eviction, reloads, late commits and deletions of two keys.
SPECIFICATION Spec
CONSTANTS
  Trigger = {t1, t2, t3, t4}
  Key = {k1, k2}
  State = {"a", "b"}
  Initial = "a"
  Bytes <- SmallBytes
  MaxBytes = 1
  Configs <- Sound
  MaxForgets = 1
  MaxFaults = 1
  None = None
SYMMETRY Symmetries
INVARIANTS
  OneTurnPerKey
  DecidedOnLatest
  TablesInStep
  IndexNamesTheState
  BudgetHolds
PROPERTIES
  ForgottenStartsOver
