\* Two keys, every retention; the process may die in any append or fold.
SPECIFICATION Spec
CONSTANTS
  Key = {k1, k2}
  State = {a, b}
  Retentions <- EveryRetention
  Failures = {"torn line", "half log"}
  MaxSeq = 1
  MaxLines = 2
  MaxCrashes = 1
  Nothing = Nothing
  Half = Half
SYMMETRY DataSymmetry
INVARIANTS
  AckedIsDurable
  CacheIsCurrent
  BudgetCoversDisk
PROPERTIES
  ImplementsDurableKeys
  NotesSurvive
