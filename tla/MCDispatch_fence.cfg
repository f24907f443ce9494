\* Timeouts, retries, a failure that may have been a success, or another
\* runtime that commits to the key and deletes it.
SPECIFICATION Spec
CONSTANTS
  Trigger = {t1, t2, t3}
  State = {"a", "b"}
  Initial = "a"
  MaxAttempts = 2
  Settings <- Either
  MaxForeign = 2
  MaxFaults = 1
  MaxNotes = 1
  None = None
  Other = Other
SYMMETRY TriggerSymmetry
INVARIANTS
  DecidedOnLatest
  FenceHolds
  RecordIsDurable
  AnswersAreTrue
