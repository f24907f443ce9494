\* Telemetry sinks call send() in the middle of enqueue().
SPECIFICATION Spec
CONSTANTS
  Trigger = {t1, t2, t3, t4, t5}
  None = None
  Capacities <- SmallCapacities
  SinksMaySend = TRUE
SYMMETRY TriggerSymmetry
INVARIANTS
  NoStrandedTrigger
  EverySenderAccountedFor
