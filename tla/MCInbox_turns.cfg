\* Sinks only observe: order, capacity, refinement and liveness of the inbox.
SPECIFICATION FairSpec
CONSTANTS
  Trigger = {t1, t2, t3, t4}
  None = None
  Capacities <- SmallCapacities
  SinksMaySend = FALSE
INVARIANTS
  TypeOK
  CapacityBound
  HandledInCallOrder
PROPERTIES
  ImplementsBoundedTurns
  EverySenderAnswered
