\* The disk fills up in the middle of a line, and the process goes on.
SPECIFICATION Spec
CONSTANTS
  Key = {k1}
  State = {"a", "b"}
  Retentions <- FoldsOften
  Failures = {"short write"}
  MaxSeq = 2
  MaxLines = 3
  MaxCrashes = 1
  Nothing = Nothing
  Half = Half
INVARIANTS
  AckedIsDurable
